------------------------------ MODULE MCWordCut ------------------------------
(* Texts of letters, spaces, Thai and a sign that nothing knows; of what   *)
(* the longer Thai rule needs; and of digits and symbols.                  *)
EXTENDS WordCut

LetterA == 97
Kelvin  == 8490
Unknown == 33
KoKai   == 3585
SaraAa  == 3634
MaiEk   == 3656

MCScripts == {{LetterA, Unknown, 32, KoKai, SaraAa, MaiEk},
              {3648, 3627, KoKai, 3655, Unknown},
              {53, 64, Kelvin, Unknown}}
\* Words that begin others, a duplicate, and one that is too short to be kept.
MCBuiltin == <<<<KoKai, SaraAa, KoKai>>, <<KoKai>>, <<KoKai, SaraAa>>, <<SaraAa, KoKai>>,
               <<KoKai, SaraAa>>>>
\* An application's words: none, or words that mix scripts and cut runs.
MCAdditional == {<<>>, <<<<LetterA, Unknown>>, <<SaraAa>>, <<Unknown, KoKai, KoKai>>>>}
=============================================================================
