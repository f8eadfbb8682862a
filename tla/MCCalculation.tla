---------------------------- MODULE MCCalculation ---------------------------
(* A few births around leap days, masters and debts, and names with words of *)
(* every kind.                                                               *)
EXTENDS Calculation

D(y, m, d) == [year |-> y, month |-> m, day |-> d]
MCDays == <<D(2024, 2, 29), D(2025, 1, 1)>>
Births == {D(1992, 2, 29), D(1975, 11, 29), D(1988, 12, 8), D(2006, 2, 28), D(2006, 5, 1), D(2023, 2, 29)}

Anna == <<1, 14, 14, 1>>
MaryLy == <<13, 1, 18, 25, Space, 12, 25>>     \* a Y in each word
Marks == <<1, Space, Mark, Space, 2>>          \* a word of marks
Grr == <<7, 18, 18>>                           \* no vowel
Sharps == <<7, 18, Sharp, 25>>                 \* a letter upper case doubles
Odia == <<Foreign, Foreign>>
Loose == <<Space, 1, 14, Space, Space, 25>>    \* spaces to normalise

YsOf(text, class) == [i \in {i \in DOMAIN text : text[i] = LetterY} |-> class]
Answered(kind, value, spelling, confirmed, class) ==
  [kind |-> kind, value |-> value, spelling |-> spelling, confirmed |-> confirmed,
   ys |-> YsOf(normalizeEngineSpacing(IF spelling # NoText THEN spelling ELSE value), class)]

BirthNames ==
  {Answered("birth_full", t, NoText, FALSE, c) : t \in {Anna, MaryLy, Grr, Loose}, c \in {"vowel", "consonant"}}
  \cup {Answered("birth_full", Odia, MaryLy, c, "vowel") : c \in BOOLEAN}
  \cup {Answered("birth_full", Marks, NoText, FALSE, "vowel"),
        [Answered("birth_full", MaryLy, NoText, FALSE, "vowel") EXCEPT !.ys = <<>>],
        [Answered("birth_full", MaryLy, NoText, FALSE, "vowel") EXCEPT !.ys = [i \in {4, 7} |-> IF i = 4 THEN "vowel" ELSE "consonant"]]}
OtherNames == {Answered("popular", Anna, NoText, FALSE, "vowel"),
               Answered("report_display", Anna, NoText, FALSE, "vowel"),
               Answered("current_full", Odia, Loose, TRUE, "consonant")}

MCIntakes == {[dateOfBirth |-> b, names |-> <<n, o>>] : b \in Births, n \in BirthNames, o \in OtherNames}

Typed(kind, value, spelling, transliteration, ys) ==
  [kind |-> kind, value |-> value, spelling |-> spelling, transliteration |-> transliteration, ys |-> ys]
TypedNames ==
  {<<>>, <<Typed("birth_full", Sharps, NoText, "none", [i \in 4 .. 5 |-> "vowel"])>>,
   <<Typed("birth_legal", Odia, NoText, "none", <<>>), Typed("stage", Odia, Anna, "given", <<>>)>>,
   <<Typed("engine_latin", MaryLy, NoText, "none", YsOf(MaryLy, "consonant"))>>,
   <<Typed("usual", <<1, Accented>>, NoText, "none", <<>>), Typed("birth_full", MaryLy, NoText, "none", <<>>)>>,
   <<Typed("nickname", <<Space>>, NoText, "none", <<>>)>>}
ProfileChoices == {ProfileIds, <<"cheiro_1926_v1", "western_decoz_v1">>, <<"loshu_raw_dob_v1", "loshu_raw_dob_v1">>, <<>>}
MCRequests ==
  {[civilDate |-> b, asOfDate |-> D(2024, 2, 29), names |-> n, profiles |-> p] :
     b \in Births, n \in TypedNames, p \in ProfileChoices}
=============================================================================
