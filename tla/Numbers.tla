------------------------------ MODULE Numbers -------------------------------
(***************************************************************************)
(* The arithmetic of packages/numerology/src: digit reduction with master  *)
(* numbers, civil dates, the three alphabets, and the numbers each         *)
(* tradition computes from a date or a name.                               *)
(*                                                                         *)
(* A letter is its place in the alphabet, 1 .. 26; case is left out, the   *)
(* engine works on upper case.  A reduction is the record of its steps.    *)
(***************************************************************************)
EXTENDS Integers, Sequences, FiniteSets, SequencesExt

Masters == {11, 22, 33}
KarmicDebts == {13, 14, 16, 19}
Total(numbers) == FoldLeft(LAMBDA a, b : a + b, 0, numbers)
Absolute(n) == IF n < 0 THEN -n ELSE n

-----------------------------------------------------------------------------
(* reduction.ts                                                            *)

Digits[n \in Nat] == IF n < 10 THEN <<n>> ELSE Append(Digits[n \div 10], n % 10)
DigitSums[n \in Nat] == IF n < 10 THEN n ELSE DigitSums[n \div 10] + (n % 10)
sumDigits(n) == DigitSums[n]

\* Mutant: master numbers are only looked for at the start.
Reduce_MasterFirst(n, masters) ==
  LET steps[k \in Nat] == IF k < 10 THEN <<k>> ELSE <<k>> \o steps[sumDigits(k)]
  IN IF n \in masters THEN <<n>> ELSE steps[n]

\* The numbers a reduction passes through: it stops at a digit or a master number.
Reduce(n, masters) ==
  LET steps[k \in Nat] ==
        IF k < 10 \/ k \in masters THEN <<k>> ELSE <<k>> \o steps[sumDigits(k)]
  IN steps[n]

Reduction(steps, masters) ==
  [compound |-> Head(steps), steps |-> steps, root |-> Last(steps),
   master |-> Last(steps) \in masters,
   debts |-> Range(steps) \cap KarmicDebts]
reduceWithPolicy(n, masters) == Reduction(Reduce(n, masters), masters)
digitalRoot(n) == Last(Reduce(n, {}))

\* reduceComponents, and the shape of the date and name metrics: every component
\* is reduced, their results are added and reduced again.
Combined(parts, outputs, masters) ==
  reduceWithPolicy(Total(outputs), masters) @@ [parts |-> parts, outputs |-> outputs]
CombinedParts(parts, masters) == Combined(parts, [i \in DOMAIN parts |-> parts[i].root], masters)
reduceComponents(components, masters) ==
  CombinedParts([i \in DOMAIN components |-> reduceWithPolicy(components[i], masters)], masters)

-----------------------------------------------------------------------------
(* date.ts.  A civil date is a record of year, month and day.              *)

LeapYear(y) == y % 4 = 0 /\ (y % 100 # 0 \/ y % 400 = 0)
DaysIn(y, m) == IF m = 2 THEN (IF LeapYear(y) THEN 29 ELSE 28)
                ELSE IF m \in {4, 6, 9, 11} THEN 30 ELSE 31

\* The days since Sunday 1 January of the (proleptic) year 1 minus one, and so the
\* weekday, 0 for Sunday.
DaysBefore(year) == 365 * year + year \div 4 - year \div 100 + year \div 400
DayNumber(d) ==
  DaysBefore(d.year - 1) + Total([m \in 1 .. d.month - 1 |-> DaysIn(d.year, m)]) + d.day
getUTCDay(d) == DayNumber(d) % 7

\* utcGregorianDate and parseCivilDate accept exactly the days of the calendar.
RealDate(d) ==
  /\ d.year \in 1 .. 9999 /\ d.month \in 1 .. 12
  /\ d.day \in 1 .. DaysIn(d.year, d.month)
After(a, b) ==
  \/ a.year > b.year
  \/ a.year = b.year /\ a.month > b.month
  \/ a.year = b.year /\ a.month = b.month /\ a.day > b.day

Filled(digits, width) == [i \in 1 .. width - Len(digits) |-> 0] \o digits
Padded(n, width) == Filled(Digits[n], width)
civilDateDigits(d) == Padded(d.year, 4) \o Padded(d.month, 2) \o Padded(d.day, 2)

-----------------------------------------------------------------------------
(* alphabets.ts: the value of each letter A .. Z.                          *)

WESTERN == <<1, 2, 3, 4, 5, 6, 7, 8, 9, 1, 2, 3, 4, 5, 6, 7, 8, 9, 1, 2, 3, 4, 5, 6, 7, 8>>
CHEIRO  == <<1, 2, 3, 4, 5, 8, 3, 5, 1, 1, 2, 3, 4, 5, 7, 8, 1, 2, 3, 4, 6, 6, 6, 5, 1, 7>>
JOHARI  == <<1, 2, 2, 4, 5, 8, 3, 8, 1, 1, 2, 3, 4, 5, 7, 8, 1, 2, 3, 4, 6, 6, 6, 6, 1, 7>>

\* What a name is written with besides A .. Z: white space, a mark ("-", "'", "."),
\* a Latin letter outside A .. Z, one that upper case writes with two letters,
\* and a letter of another script.
Space == 0
Mark == 27
Accented == 28
Sharp == 29
Foreign == 30
Letters == 1 .. 26
LatinText == Letters \cup {Space, Mark, Accented, Sharp}
Vowels == {1, 5, 9, 15, 21}
LetterY == 25

\* toUpperCase: the sharp s becomes SS.
toUpperCase(text) ==
  FoldLeft(LAMBDA out, c : out \o (IF c = Sharp THEN <<19, 19>> ELSE <<c>>), <<>>, text)

\* mapLetters: separators are passed over, the rest has a value or is unsupported.
LetterValues(letters, alphabet) == [i \in DOMAIN letters |-> alphabet[letters[i]]]
MapUpper(upper, alphabet) ==
  [values |-> LetterValues(SelectSeq(upper, LAMBDA c : c \in Letters), alphabet),
   unsupported |-> \E c \in Range(upper) : c \notin Letters \cup {Space, Mark}]
mapLetters(text, alphabet) == MapUpper(toUpperCase(text), alphabet)

\* assertSupportedLatinMapping
Mappable(mapped) == ~mapped.unsupported /\ mapped.values # <<>>
Supported(text) == Mappable(mapLetters(text, WESTERN))

-----------------------------------------------------------------------------
(* lo-shu.ts                                                               *)

LineTriples == <<{4, 9, 2}, {3, 5, 7}, {8, 1, 6}, {4, 3, 8},
                 {9, 5, 1}, {2, 7, 6}, {4, 5, 6}, {2, 5, 8}>>

LineState(counts, triple) ==
  LET present == {digit \in triple : counts[digit] > 0}
  IN IF present = triple THEN "complete" ELSE IF present = {} THEN "empty" ELSE "partial"

Counted(occurrences, zeros, counts) ==
  [occurrences |-> occurrences, zeros |-> zeros, counts |-> counts,
   lines |-> [l \in DOMAIN LineTriples |-> LineState(counts, LineTriples[l])]]
GridOf(occurrences, zeros) ==
  Counted(occurrences, zeros,
          [digit \in 1 .. 9 |-> Len(SelectSeq(occurrences, LAMBDA o : o = digit))])

RawGrid(digits) ==
  GridOf(SelectSeq(digits, LAMBDA o : o # 0), Len(SelectSeq(digits, LAMBDA o : o = 0)))
loShuRawGrid(date) == RawGrid(civilDateDigits(date))

\* The roots of the day and of the whole date join the digits.
Augmented(raw, date, digits) ==
  GridOf(raw.occurrences \o <<digitalRoot(date.day), digitalRoot(Total(digits))>>, raw.zeros)
loShuAugmentedGrid(date) == Augmented(loShuRawGrid(date), date, civilDateDigits(date))

-----------------------------------------------------------------------------
(* johari.ts and cheiro.ts                                                 *)

Planets == <<"Sun", "Moon", "Jupiter", "Rahu", "Mercury", "Venus", "Ketu", "Saturn", "Mars">>
WeekdayValues == <<1, 2, 9, 5, 3, 6, 8>>  \* Sunday first

psychic(date) == reduceWithPolicy(date.day, {})
destiny(date) == reduceWithPolicy(Total(civilDateDigits(date)), {})

\* The birthday must exist in the target year.
ProjectedYearExists(date, year) == RealDate([date EXCEPT !.year = year])
johariProjectedYear(date, year) ==
  reduceWithPolicy(date.month + date.day + (year % 100)
                     + WeekdayValues[getUTCDay([date EXCEPT !.year = year]) + 1], {})
JohariOf(values) == reduceWithPolicy(Total(values), {}) @@ [values |-> values]
johariNameNumber(text) == JohariOf(mapLetters(text, JOHARI).values)

\* The words of a name, each with the place it starts at (tokenizeNameUnits).
WordEnd(text, from) ==
  CHOOSE to \in from .. Len(text) : /\ \A i \in from .. to : text[i] # Space
                                    /\ to = Len(text) \/ text[to + 1] = Space
WordsAt(text, starts) ==
  [t \in DOMAIN starts |->
    [start |-> starts[t], word |-> SubSeq(text, starts[t], WordEnd(text, starts[t]))]]
Tokens(text) ==
  WordsAt(text, SelectSeq([i \in DOMAIN text |-> i],
                          LAMBDA i : text[i] # Space /\ (i = 1 \/ text[i - 1] = Space)))

\* Each word has its number, and their sum is reduced.
CheiroOf(tokens, text) ==
  reduceComponents([t \in DOMAIN tokens |-> Total(mapLetters(tokens[t].word, CHEIRO).values)], {})
  @@ [values |-> mapLetters(text, CHEIRO).values]
cheiroName(text) == CheiroOf(Tokens(text), text)
cheiroDateMetrics(date) ==
  [birth |-> reduceWithPolicy(date.day, {}), month |-> reduceWithPolicy(date.month, {}),
   year |-> reduceWithPolicy(sumDigits(date.year), {})]

-----------------------------------------------------------------------------
(* western.ts.  ys is the customer's classification of each Y, by its place *)
(* in the text, as a function from places to "vowel" and "consonant".       *)

westernLifePath(date) == reduceComponents(<<date.month, date.day, date.year>>, Masters)
westernDigitSumLifePath(date) == reduceWithPolicy(Total(civilDateDigits(date)), Masters)
westernBirthday(date) == reduceWithPolicy(date.day, Masters)
westernAttitude(date) == reduceWithPolicy(date.month + date.day, Masters)
westernMaturity(lifePath, expression) == reduceWithPolicy(lifePath.root + expression.root, Masters)
balliettBirthDate(date) == reduceComponents(<<date.month, date.day, date.year>>, {})
westernPersonalYear(date, year) ==
  reduceWithPolicy(digitalRoot(date.month + date.day) + sumDigits(year), {})
westernPersonalMonth(date, year, month) ==
  reduceWithPolicy(westernPersonalYear(date, year).root + month, {})

\* The places of a word's letters in the whole text, after upper case.
ClassOf(letter, place, ys) ==
  IF letter \in Vowels THEN "vowel" ELSE IF letter = LetterY THEN ys[place] ELSE "consonant"

\* The sum of the letters of one word that belong to the metric.
FilteredValue(upper, start, subset, ys) ==
  Total([i \in DOMAIN upper |->
    IF /\ upper[i] \in Letters
       /\ subset = "all" \/ subset = ClassOf(upper[i], start + i - 1, ys)
    THEN WESTERN[upper[i]] ELSE 0])
filteredTokenValue(token, subset, ys) ==
  FilteredValue(toUpperCase(token.word), token.start, subset, ys)

\* westernNameMetric throws when a word has no supported letter, and when a
\* looked-up Y is not classified; it is not applicable without any letter.
AllSupported(tokens) == tokens # <<>> /\ \A t \in Range(tokens) : Supported(t.word)
WordsSupported(text) == AllSupported(Tokens(text))
PlacesOfY(upper, start) == {start + i - 1 : i \in {i \in DOMAIN upper : upper[i] = LetterY}}
YsFound(text, ys) ==
  \A token \in Range(Tokens(text)) :
    PlacesOfY(toUpperCase(token.word), token.start) \subseteq DOMAIN ys
MetricOf(tokens, subset, masters, ys) ==
  reduceComponents([t \in DOMAIN tokens |-> filteredTokenValue(tokens[t], subset, ys)], masters)
westernNameMetric(text, subset, masters, ys) == MetricOf(Tokens(text), subset, masters, ys)
Applicable(metric) == \E i \in DOMAIN metric.parts : metric.parts[i].compound # 0

westernKarmicLessons(text) == (1 .. 9) \ Range(mapLetters(text, WESTERN).values)
CountOf(v, values) == Len(SelectSeq(values, LAMBDA x : x = v))
MostFrequent(values) ==
  {v \in Range(values) : \A w \in Range(values) : CountOf(w, values) <= CountOf(v, values)}
westernHiddenPassion(text) == MostFrequent(mapLetters(text, WESTERN).values)

\* hasAmbiguousWesternY: the places of the Ys of the whole text in upper case.
UnclassifiedYs(text, ys) == PlacesOfY(toUpperCase(text), 1) \ DOMAIN ys
=============================================================================
