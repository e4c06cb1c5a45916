--------------------------- MODULE AlgorithmProofs ---------------------------
(***************************************************************************)
(* Proofs about what TLC checks on drawn inputs in MCAlgorithms, for every *)
(* input: the fields of schedules (Schedules), the dates of command        *)
(* templates (BusinessDays), the numbers and the order of the job list     *)
(* (JobList), and the upgrade of the database (Upgrade).                   *)
(* An argument by induction takes a smallest counterexample (SmallestSet). *)
(***************************************************************************)
EXTENDS MCAlgorithms, FiniteSetTheorems, TLAPS

-----------------------------------------------------------------------------
(* Schedules: the fields the validation and the cron parser accept.        *)

\* The text of a field, cut at commas, slashes and hyphens: nothing is empty
\* but a term.
IsTerm(t) ==
    \/ t \in {Star, Empty, <<"names">>}
    \/ \E d \in 0 .. 6 : t = <<"name", d>>
    \/ \E n \in Nat : t = <<"num", n>>
Term == {t \in {Star, Empty, <<"names">>} \cup ({"name", "num"} \X Nat) : IsTerm(t)}
IsItem(item) ==
    /\ Len(item.terms) \in Nat \ {0} /\ DOMAIN item.terms = 1 .. Len(item.terms)
    /\ \A i \in DOMAIN item.terms : IsTerm(item.terms[i])
    /\ Len(item.steps) \in Nat /\ (Len(item.steps) = 0 <=> item.steps = <<>>)
    /\ item.left \in BOOLEAN /\ item.right \in BOOLEAN
IsField(field) ==
    /\ Len(field) \in Nat \ {0} /\ DOMAIN field = 1 .. Len(field)
    /\ \A i \in DOMAIN field : IsItem(field[i])

\* What the tag of a term tells.
LEMMA TermIs ==
    ASSUME NEW t, IsTerm(t)
    PROVE  /\ IsNum(t) => t[2] \in Nat /\ t = <<"num", t[2]>>
           /\ IsName(t) => t[2] \in 0 .. 6
           /\ t = Star => t[1] = "star"
           /\ t = Empty => t[1] = "empty"
           /\ t = <<"num", 7>> => t[1] = "num" /\ t[2] = 7
<1>1. CASE t = Star
  BY <1>1 DEF Star, Empty, IsNum, IsName
<1>2. CASE t = Empty
  BY <1>2 DEF Star, Empty, IsNum, IsName
<1>3. CASE t = <<"names">>
  BY <1>3 DEF Star, Empty, IsNum, IsName
<1>4. ASSUME NEW d \in 0 .. 6, t = <<"name", d>>
      PROVE  t[1] = "name" /\ t[2] = d
  BY <1>4
<1>5. ASSUME NEW n \in Nat, t = <<"num", n>>
      PROVE  t[1] = "num" /\ t[2] = n
  BY <1>5
<1>6. (t = Star => t[1] = "star") /\ (t = Empty => t[1] = "empty")
      /\ (t = <<"num", 7>> => t[1] = "num" /\ t[2] = 7)
  BY DEF Star, Empty
<1> QED BY <1>1, <1>2, <1>3, <1>4, <1>5, <1>6 DEF IsTerm, IsNum, IsName

\* The parser has the bounds of the validation, but for Sunday as 7.
LEMMA BoundsAre ==
    ASSUME NEW name \in DOMAIN Bounds
    PROVE  /\ Bounds[name][1] \in Nat /\ Bounds[name][2] \in Nat
           /\ ParserBounds[name][1] = Bounds[name][1]
           /\ ParserBounds[name][2] \in Nat /\ Bounds[name][1] <= ParserBounds[name][2]
           /\ name = "weekday" => /\ Bounds[name][1] = 0 /\ Bounds[name][2] = 7
                                  /\ ParserBounds[name][2] = 6
           /\ name # "weekday" => ParserBounds[name][2] = Bounds[name][2]
<1>1. name \in {"minute", "hour", "day", "month", "weekday"}
  BY DEF Bounds
<1>2. CASE name = "minute"
  BY <1>2 DEF Bounds, ParserBounds
<1>3. CASE name = "hour"
  BY <1>3 DEF Bounds, ParserBounds
<1>4. CASE name = "day"
  BY <1>4 DEF Bounds, ParserBounds
<1>5. CASE name = "month"
  BY <1>5 DEF Bounds, ParserBounds
<1>6. CASE name = "weekday"
  BY <1>6 DEF Bounds, ParserBounds
<1> QED BY <1>1, <1>2, <1>3, <1>4, <1>5, <1>6

SevenIn(item) == \E h \in DOMAIN item.terms : item.terms[h] = <<"num", 7>>

\* A number or a range that passed the validation is accepted without a 7 for
\* Sunday in it.
LEMMA ValidItemAccepted ==
    ASSUME NEW name \in DOMAIN Bounds, NEW item, IsItem(item),
           ValidRange(item, Bounds[name]) \/ ValidSingle(item, Bounds[name])
    PROVE  /\ IsNum(item.terms[1]) /\ item.terms[1] # Star /\ item.terms[1] # Empty
           /\ AcceptsRange(name, item) <=> ~(name = "weekday" /\ SevenIn(item))
<1> DEFINE b == Bounds[name]
           p == ParserBounds[name]
           len == Len(item.terms)
           stepsOK == Len(item.steps) <= 1 /\ (item.steps # <<>> => IsNum(item.steps[1]) /\ item.steps[1][2] > 0)
<1>1. /\ b[1] \in Nat /\ b[2] \in Nat /\ p[1] = b[1] /\ p[2] \in Nat
      /\ name = "weekday" => b[1] = 0 /\ b[2] = 7 /\ p[2] = 6
      /\ name # "weekday" => p[2] = b[2]
  BY BoundsAre
<1>2. len \in {1, 2} /\ DOMAIN item.terms = 1 .. len
  BY DEF ValidRange, ValidSingle, IsItem
<1>3. \A i \in 1 .. len : IsNum(item.terms[i]) /\ Within(item.terms[i][2], b) /\ item.terms[i][2] \in Nat
  <2>1. \A i \in 1 .. len : IsNum(item.terms[i]) /\ Within(item.terms[i][2], b)
    BY <1>2 DEF ValidRange, ValidSingle
  <2>2. \A i \in 1 .. len : IsTerm(item.terms[i])
    BY <1>2 DEF IsItem
  <2> QED BY <2>1, <2>2, TermIs
<1>4. stepsOK /\ (len = 1 => item.steps = <<>>)
  <2>1. Len(item.steps) \in Nat /\ (Len(item.steps) = 0 <=> item.steps = <<>>)
    BY DEF IsItem
  <2>2. CASE ValidRange(item, Bounds[name])
    <3>1. len = 2 /\ (item.steps = <<>> \/ ValidStep(item.steps))
      BY <2>2 DEF ValidRange
    <3>2. CASE item.steps = <<>>
      <4>1. Len(item.steps) = 0
        BY <2>1, <3>2
      <4> HIDE DEF len
      <4> QED BY <3>1, <3>2, <4>1
    <3>3. CASE ValidStep(item.steps)
      <4>1. Len(item.steps) = 1 /\ IsNum(item.steps[1]) /\ item.steps[1][2] > 0
        BY <3>3 DEF ValidStep
      <4> HIDE DEF len
      <4> QED BY <3>1, <4>1
    <3> QED BY <3>1, <3>2, <3>3
  <2>3. CASE ValidSingle(item, Bounds[name])
    <3>1. item.steps = <<>>
      BY <2>3 DEF ValidSingle
    <3> QED BY <2>1, <3>1
  <2> QED BY <2>2, <2>3
<1>5. item.terms[1] # Star /\ item.terms[1] # Empty /\ IsNum(item.terms[1])
  <2>1. 1 \in 1 .. len
    BY <1>2
  <2>2. IsNum(item.terms[1]) /\ IsTerm(item.terms[1])
    BY <1>2, <1>3, <2>1 DEF IsItem
  <2> QED BY <2>2, TermIs DEF IsNum
<1>6. \A i \in 1 .. len : item.terms[i] = <<"num", 7>> <=> item.terms[i][2] = 7
  <2>1. \A i \in 1 .. len : IsTerm(item.terms[i])
    BY <1>2 DEF IsItem
  <2> QED BY <1>3, <2>1, TermIs
<1>7. CASE len = 1
  <2>1. 1 .. len = {1}
    BY <1>7
  <2>2. AcceptsRange(name, item) <=> (p[1] <= item.terms[1][2] /\ item.terms[1][2] <= p[2])
    BY <1>1, <1>2, <1>3, <1>4, <1>5, <1>7, <2>1 DEF AcceptsRange, HasHyphen, Parses
  <2>3. SevenIn(item) <=> item.terms[1][2] = 7
    BY <1>2, <1>6, <2>1 DEF SevenIn
  <2>4. item.terms[1][2] \in Nat /\ b[1] <= item.terms[1][2] /\ item.terms[1][2] <= b[2]
    BY <1>3, <2>1 DEF Within
  <2> HIDE DEF b, p
  <2>5. (p[1] <= item.terms[1][2] /\ item.terms[1][2] <= p[2]) <=> ~(name = "weekday" /\ item.terms[1][2] = 7)
    BY <1>1, <2>4
  <2> QED BY <1>5, <2>2, <2>3, <2>5
<1>8. CASE len = 2
  <2> DEFINE low == item.terms[1][2]
             high == item.terms[2][2]
  <2>1. 1 .. len = {1, 2}
    BY <1>8
  <2>2. AcceptsRange(name, item) <=> (p[1] <= low /\ low <= high /\ high <= p[2])
    BY <1>1, <1>2, <1>3, <1>4, <1>5, <1>8, <2>1 DEF AcceptsRange, HasHyphen, Parses
  <2>3. SevenIn(item) <=> (low = 7 \/ high = 7)
    BY <1>2, <1>6, <2>1 DEF SevenIn
  <2>4. /\ low \in Nat /\ b[1] <= low /\ low <= b[2]
        /\ high \in Nat /\ b[1] <= high /\ high <= b[2]
    BY <1>3, <2>1 DEF Within
  <2>5. low <= high
    BY <1>8 DEF ValidRange, ValidSingle
  <2> HIDE DEF b, p, low, high
  <2>6. (p[1] <= low /\ low <= high /\ high <= p[2]) <=> ~(name = "weekday" /\ (low = 7 \/ high = 7))
    BY <1>1, <2>4, <2>5
  <2> QED BY <1>5, <2>2, <2>3, <2>6
<1> QED BY <1>2, <1>7, <1>8

\* Names are accepted when they are one, or two in the order of the week.
LEMMA NamesAccepted ==
    ASSUME NEW item, IsItem(item), item.steps = <<>>, item.terms[1] # Empty,
           \A i \in DOMAIN item.terms : item.terms[i][1] \in {"name", "names", "empty"}
    PROVE  /\ AcceptsRange("weekday", item) <=>
                /\ Len(item.terms) <= 2 /\ \A i \in DOMAIN item.terms : IsName(item.terms[i])
                /\ item.terms[1][2] <= item.terms[Len(item.terms)][2]
           /\ ~SevenIn(item)
<1> DEFINE len == Len(item.terms)
           low == item.terms[1][2]
           high == item.terms[len][2]
           named == \A i \in 1 .. len : IsName(item.terms[i])
<1>1. len \in Nat \ {0} /\ DOMAIN item.terms = 1 .. len /\ 1 \in 1 .. len /\ len \in 1 .. len
  BY DEF IsItem
<1>2. /\ ParserBounds["weekday"][1] = 0 /\ ParserBounds["weekday"][2] = 6 
  BY DEF Bounds, ParserBounds
<1>3. item.terms[1] # Star
  <2>1. IsTerm(item.terms[1]) /\ item.terms[1][1] \in {"name", "names", "empty"}
    BY <1>1 DEF IsItem
  <2> QED BY <2>1, TermIs
<1>4. ~SevenIn(item)
  <2>1. \A i \in 1 .. len : item.terms[i] # <<"num", 7>>
    BY <1>1, TermIs DEF IsItem
  <2> QED BY <1>1, <2>1 DEF SevenIn
<1>5. \A i \in 1 .. len : Parses("weekday", item.terms[i]) <=> IsName(item.terms[i])
  BY <1>1 DEF Parses, IsNum, IsName
<1>6. Len(item.steps) = 0
  BY DEF IsItem
<1>7. CASE len = 1
  <2>1. AcceptsRange("weekday", item) <=> (named /\ 0 <= low /\ low <= low /\ low <= 6)
    BY <1>1, <1>2, <1>3, <1>5, <1>6, <1>7 DEF AcceptsRange, HasHyphen
  <2>2. named => low \in 0 .. 6
    BY <1>1, TermIs DEF IsItem
  <2>3. low = high
    BY <1>7
  <2> HIDE DEF named, low, high
  <2>4. (named /\ 0 <= low /\ low <= low /\ low <= 6) <=> (named /\ low <= high)
    BY <2>2, <2>3
  <2> QED BY <1>1, <1>4, <1>7, <2>1, <2>4 DEF named, low, high
<1>8. CASE len = 2
  <2>1. AcceptsRange("weekday", item) <=> (named /\ 0 <= low /\ low <= high /\ high <= 6)
    BY <1>1, <1>2, <1>3, <1>5, <1>6, <1>8 DEF AcceptsRange, HasHyphen
  <2>2. named => low \in 0 .. 6 /\ high \in 0 .. 6
    BY <1>1, TermIs DEF IsItem
  <2> HIDE DEF named, low, high
  <2>3. (named /\ 0 <= low /\ low <= high /\ high <= 6) <=> (named /\ low <= high)
    BY <2>2
  <2> QED BY <1>1, <1>4, <1>8, <2>1, <2>3 DEF named, low, high
<1>9. CASE len > 2
  <2>1. ~AcceptsRange("weekday", item)
    BY <1>1, <1>3, <1>9 DEF AcceptsRange
  <2> QED BY <1>1, <1>4, <1>9, <2>1
<1>10. len = 1 \/ len = 2 \/ len > 2
  <2> HIDE DEF len
  <2> QED BY <1>1
<1> QED BY <1>7, <1>8, <1>9, <1>10

\* A blank that cuts a field in two is beside a comma.
LEMMA BlanksAreBesideCommas ==
    ASSUME NEW field, IsField(field)
    PROVE  BlankWithin(field) <=> BlankInList(field)
<1> DEFINE len == Len(field)
<1>1. len \in Nat \ {0} /\ DOMAIN field = 1 .. len
  BY DEF IsField
<1>2. /\ BlankWithin(field) <=> \E i \in 1 .. len : (field[i].left /\ i # 1) \/ (field[i].right /\ i # len)
      /\ BlankInList(field) <=> \E i \in 1 .. (len - 1) : field[i].right \/ field[i + 1].left
  BY <1>1 DEF BlankWithin, BlankInList
<1> HIDE DEF len
<1>3. ASSUME NEW i \in 1 .. len, field[i].left, i # 1
      PROVE  \E h \in 1 .. (len - 1) : field[h].right \/ field[h + 1].left
  <2>1. i - 1 \in 1 .. (len - 1) /\ (i - 1) + 1 = i
    BY <1>1, <1>3
  <2> QED BY <1>3, <2>1
<1>4. ASSUME NEW i \in 1 .. len, field[i].right, i # len
      PROVE  \E h \in 1 .. (len - 1) : field[h].right \/ field[h + 1].left
  <2>1. i \in 1 .. (len - 1)
    BY <1>1, <1>4
  <2> QED BY <1>4, <2>1
<1>5. ASSUME NEW i \in 1 .. (len - 1), field[i].right \/ field[i + 1].left
      PROVE  \E h \in 1 .. len : (field[h].left /\ h # 1) \/ (field[h].right /\ h # len)
  <2>1. i \in 1 .. len /\ i # len /\ i + 1 \in 1 .. len /\ i + 1 # 1
    BY <1>1
  <2> QED BY <1>5, <2>1
<1> QED BY <1>2, <1>3, <1>4, <1>5

\* For every field that can be written, of any length: what passed the
\* validation without a 7 for Sunday is accepted when the crontab is loaded,
\* but for the two forms that ValidatedLoads names.
THEOREM FieldsAlwaysLoad ==
    ASSUME NEW name \in DOMAIN Bounds, NEW field, IsField(field) PROVE ValidatedLoads(name, field)
<1> SUFFICES ASSUME Validated(name, field), ~SundayAsSeven(name, field)
             PROVE  Accepts(name, SpecOf(field)) <=> ~(OddNames(name, field) \/ BlankInList(field))
  BY DEF ValidatedLoads
<1>1. /\ Len(field) \in Nat \ {0} /\ DOMAIN field = 1 .. Len(field) /\ 1 \in DOMAIN field
      /\ \A i \in DOMAIN field : IsItem(field[i])
  BY DEF IsField
<1>2. CASE field \in {AnyTime, LeftOut}
  <2>1. SpecOf(field) = AnyTime
    BY <1>2 DEF SpecOf
  <2>2. /\ Len(AnyTime) = 1 /\ DOMAIN AnyTime = {1} /\ AnyTime[1].terms = <<Star>>
        /\ AnyTime[1].steps = <<>> /\ ~AnyTime[1].left /\ ~AnyTime[1].right
    BY DEF AnyTime, Plain, Item
  <2>3. AcceptsRange(name, AnyTime[1])
    <3> DEFINE item == AnyTime[1]
               p == ParserBounds[name]
    <3>1. item.terms[1] = Star /\ Len(item.steps) = 0 /\ item.steps = <<>>
      <4>1. Len(<<>>) = 0 /\ <<Star>>[1] = Star
        OBVIOUS
      <4> QED BY <2>2, <4>1
    <3>2. p[1] \in Nat /\ p[2] \in Nat /\ p[1] <= p[2]
      BY BoundsAre
    <3> HIDE DEF item, p
    <3>3. AcceptsRange(name, item)
      BY <3>1, <3>2 DEF AcceptsRange, p
    <3> QED BY <3>3 DEF item
  <2>4. ~NoText(AnyTime[1]) /\ ~BlankWithin(AnyTime)
    <3>1. Star # Empty
      BY DEF Star, Empty
    <3>2. <<Star>> # <<Empty>>
      BY <3>1
    <3> QED BY <2>2, <3>2 DEF NoText, BlankWithin
  <2>5. Accepts(name, AnyTime)
    BY <2>2, <2>3, <2>4 DEF Accepts
  <2>6. /\ Len(field) = 1 /\ DOMAIN field = {1} /\ ~field[1].left /\ ~field[1].right
        /\ field[1].terms \in {<<Star>>, <<Empty>>}
    BY <1>2 DEF AnyTime, LeftOut, Plain, Item
  <2>7. /\ DOMAIN field[1].terms = {1} /\ field[1].terms[1] \in {Star, Empty}
        /\ field[1].terms[1] # Empty => field[1].terms[1][1] = "star"
    BY <2>6 DEF Star, Empty
  <2>8. ~OddNames(name, field) /\ ~BlankInList(field)
    BY <2>6, <2>7, BlanksAreBesideCommas DEF OddNames, IsWeekdayName, BlankWithin
  <2> QED BY <2>1, <2>5, <2>8
<1>3. ASSUME field \notin {AnyTime, LeftOut}
      PROVE  SpecOf(field) = field
  BY <1>3 DEF SpecOf
<1>4. ASSUME NEW i \in DOMAIN field, field[i].terms[1] # Empty
      PROVE  ~NoText(field[i])
  BY <1>4 DEF NoText
<1>5. CASE field \notin {AnyTime, LeftOut} /\ name = "weekday" /\ IsWeekdayName(field)
  <2>1. /\ Len(field) = 1 /\ DOMAIN field = {1} /\ ~field[1].left /\ ~field[1].right /\ field[1].steps = <<>>
        /\ field[1].terms[1] # Empty
        /\ \A i \in DOMAIN field[1].terms : field[1].terms[i][1] \in {"name", "names", "empty"}
    BY <1>1, <1>5 DEF IsWeekdayName, Single, Padded
  <2>2. ~BlankWithin(field) /\ ~BlankInList(field)
    BY <2>1, BlanksAreBesideCommas DEF BlankWithin
  <2>3. Accepts(name, field) <=> AcceptsRange("weekday", field[1])
    BY <1>1, <1>4, <1>5, <2>1, <2>2 DEF Accepts
  <2>4. /\ AcceptsRange("weekday", field[1]) <=>
              /\ Len(field[1].terms) <= 2 /\ \A i \in DOMAIN field[1].terms : IsName(field[1].terms[i])
              /\ field[1].terms[1][2] <= field[1].terms[Len(field[1].terms)][2]
    BY <1>1, <2>1, NamesAccepted
  <2>5. OddNames(name, field) <=> ~AcceptsRange("weekday", field[1])
    BY <1>5, <2>4 DEF OddNames
  <2> QED BY <1>3, <1>5, <2>2, <2>3, <2>5
<1>6. CASE /\ field \notin {AnyTime, LeftOut} /\ ValidField(field, Bounds[name])
           /\ ~(name = "weekday" /\ IsWeekdayName(field))
  <2>1. CASE Stepped(field[1]) /\ ~field[1].left
    <3>1. Len(field) = 1 /\ DOMAIN field = {1} /\ ValidStep(field[1].steps) /\ ~field[1].right
      <4>1. Single(field) /\ ValidStep(field[1].steps) /\ ~field[1].right
        BY <1>6, <2>1 DEF ValidField
      <4> QED BY <1>1, <4>1 DEF Single
    <3>2. field[1].terms[1] = Star /\ field[1].steps # <<>> /\ field[1].terms[1] # Empty
      BY <2>1 DEF Stepped, Star, Empty
    <3>3. AcceptsRange(name, field[1])
      BY <3>1, <3>2, BoundsAre DEF AcceptsRange, ValidStep
    <3>4. ~BlankWithin(field) /\ ~BlankInList(field)
      BY <2>1, <3>1, BlanksAreBesideCommas DEF BlankWithin
    <3>5. Accepts(name, field)
      BY <1>4, <3>1, <3>2, <3>3, <3>4 DEF Accepts
    <3> QED BY <1>3, <1>6, <3>4, <3>5 DEF OddNames
  <2>2. CASE ~(Stepped(field[1]) /\ ~field[1].left)
    <3>1. \A i \in DOMAIN field : ValidRange(field[i], Bounds[name]) \/ ValidSingle(field[i], Bounds[name])
      <4>1. CASE Single(field)
        <5>1. DOMAIN field = {1}
          BY <1>1, <4>1 DEF Single
        <5> QED BY <1>6, <2>2, <4>1, <5>1 DEF ValidField
      <4>2. CASE ~Single(field)
        BY <1>6, <2>2, <4>2 DEF ValidField
      <4> QED BY <4>1, <4>2
    <3>2. \A i \in DOMAIN field :
            /\ IsNum(field[i].terms[1]) /\ field[i].terms[1] # Star /\ field[i].terms[1] # Empty
            /\ AcceptsRange(name, field[i]) <=> ~(name = "weekday" /\ SevenIn(field[i]))
      BY <1>1, <3>1, ValidItemAccepted
    <3>3. \A i \in DOMAIN field : ~(name = "weekday" /\ SevenIn(field[i]))
      BY <3>2 DEF SundayAsSeven, Stepped, SevenIn
    <3>4. Accepts(name, field) <=> ~BlankWithin(field)
      BY <1>1, <1>4, <3>2, <3>3 DEF Accepts
    <3>5. ~OddNames(name, field)
      BY <1>6 DEF OddNames
    <3> QED BY <1>3, <1>6, <3>4, <3>5, BlanksAreBesideCommas
  <2> QED BY <2>1, <2>2
<1> QED BY <1>2, <1>5, <1>6 DEF Validated

-----------------------------------------------------------------------------
(* BusinessDays: the dates of command templates.                           *)

\* The last weekday up to a day, without a recursion.
LastWeekday(d) == IF d % 7 = 5 THEN d - 1 ELSE IF d % 7 = 6 THEN d - 2 ELSE d

\* A step back from a weekend stays within the week.
LEMMA StepBack == ASSUME NEW d \in Int, ~IsBusinessDay(d)
                  PROVE  LastWeekday(d) = LastWeekday(d - 1)
<1>1. d % 7 \in {5, 6}
  BY DEF IsBusinessDay
<1>2. d % 7 = 5 => (d - 1) % 7 = 4
  BY SMT
<1>3. d % 7 = 6 => (d - 1) % 7 = 5
  BY SMT
<1> QED BY <1>1, <1>2, <1>3 DEF LastWeekday

\* weekdayBackward is defined by its recursion, and computes that weekday...
LEMMA BackwardIs == \A d \in Int : weekdayBackward[d] = IF IsBusinessDay(d) THEN d ELSE weekdayBackward[d - 1]
<1> DEFINE W == [d \in Int |-> LastWeekday(d)]
           Back(f) == [d \in Int |-> IF IsBusinessDay(d) THEN d ELSE f[d - 1]]
<1>1. W = Back(W)
  <2>1. ASSUME NEW d \in Int PROVE LastWeekday(d) = IF IsBusinessDay(d) THEN d ELSE W[d - 1]
    BY StepBack DEF IsBusinessDay, LastWeekday
  <2> QED BY <2>1
<1>2. weekdayBackward = CHOOSE f : f = Back(f)
  BY DEF weekdayBackward
<1> HIDE DEF W
<1>3. weekdayBackward = Back(weekdayBackward)
  BY <1>1, <1>2
<1> QED BY <1>3
\* ... the last one up to the day.
LEMMA Backward == \A d \in Int :
    /\ weekdayBackward[d] \in Int /\ weekdayBackward[d] \in (d - 2) .. d
    /\ IsBusinessDay(weekdayBackward[d])
    /\ \A k \in (weekdayBackward[d] + 1) .. d : ~IsBusinessDay(k)
<1> SUFFICES ASSUME NEW d \in Int
             PROVE  /\ weekdayBackward[d] \in Int /\ weekdayBackward[d] \in (d - 2) .. d
                    /\ IsBusinessDay(weekdayBackward[d])
                    /\ \A k \in (weekdayBackward[d] + 1) .. d : ~IsBusinessDay(k)
  OBVIOUS
<1>1. CASE IsBusinessDay(d)
  BY <1>1, BackwardIs
<1>2. CASE ~IsBusinessDay(d) /\ IsBusinessDay(d - 1)
  <2>1. weekdayBackward[d] = d - 1
    BY <1>2, BackwardIs
  <2> QED BY <1>2, <2>1
<1>3. CASE ~IsBusinessDay(d) /\ ~IsBusinessDay(d - 1)
  <2>1. IsBusinessDay(d - 2)
    <3>1. d % 7 \in {5, 6} /\ (d - 1) % 7 \in {5, 6}
      BY <1>3 DEF IsBusinessDay
    <3>2. (d - 2) % 7 = 4
      BY <3>1, SMT
    <3> QED BY <3>2 DEF IsBusinessDay
  <2>2. weekdayBackward[d] = d - 2
    <3>1. weekdayBackward[d] = weekdayBackward[d - 1]
      BY <1>3, BackwardIs
    <3>2. weekdayBackward[d - 1] = weekdayBackward[d - 1 - 1]
      BY <1>3, BackwardIs
    <3>3. d - 1 - 1 = d - 2
      OBVIOUS
    <3>4. weekdayBackward[d - 2] = d - 2
      BY <2>1, BackwardIs
    <3> QED BY <3>1, <3>2, <3>3, <3>4
  <2> QED BY <1>3, <2>1, <2>2
<1> QED BY <1>1, <1>2, <1>3

\* Whatever the day, the hour and the threshold, YYYYMMDDEOD names the last
\* business day that is over, and never a day after the one WYYYYMMDD names.
THEOREM EodNamesTheLastOver ==
    \A day \in Int, hour \in 0 .. 23, eodHour \in 0 .. 24 : EodBoundary(day, hour, eodHour)
<1> SUFFICES ASSUME NEW day \in Int, NEW hour \in 0 .. 23, NEW eodHour \in 0 .. 24
             PROVE  EodBoundary(day, hour, eodHour)
  OBVIOUS
<1> DEFINE eod == EodDay(day, hour, eodHour)
           over(d) == 24 * d + eodHour <= 24 * day + hour
           today == weekdayBackward[day]
           earlier == weekdayBackward[day - 1]
<1>1. /\ today \in Int /\ today <= day /\ IsBusinessDay(today)
      /\ \A k \in (today + 1) .. day : ~IsBusinessDay(k)
  BY Backward
<1>2. /\ earlier \in Int /\ earlier <= day - 1 /\ IsBusinessDay(earlier)
      /\ \A k \in (earlier + 1) .. (day - 1) : ~IsBusinessDay(k)
  BY Backward
<1>3. earlier <= today
  BY <1>1, <1>2, BackwardIs
<1> HIDE DEF today, earlier
<1>4. CASE hour < eodHour
  <2>1. eod = earlier
    BY <1>4 DEF EodDay, earlier
  <2>2. \A d \in (earlier + 1) .. day : ~(IsBusinessDay(d) /\ over(d))
    BY <1>2, <1>4
  <2>3. over(earlier)
    BY <1>2
  <2> QED BY <1>2, <1>3, <2>1, <2>2, <2>3 DEF EodBoundary, WDay, today
<1>5. CASE ~(hour < eodHour)
  <2>1. eod = today
    BY <1>5 DEF EodDay, today
  <2>2. over(today)
    BY <1>1, <1>5
  <2> QED BY <1>1, <2>1, <2>2 DEF EodBoundary, WDay, today
<1> QED BY <1>4, <1>5

-----------------------------------------------------------------------------
(* JobList: the numbers on the tabs.                                       *)

\* Jobs as the table has them: a job that runs has the status "running".
AreJobs(jobs) ==
    \A job \in jobs : /\ job.enabled \in BOOLEAN /\ job.running \in BOOLEAN /\ job.match \in BOOLEAN
                      /\ job.status \in {"idle", "running", "success", "failed"}
                      /\ job.running => job.status = "running"

\* A job is counted for the tabs that list it.
LEMMA CountedWhereListed ==
    ASSUME NEW jobs, AreJobs(jobs), NEW mode \in FilterModes
    PROVE  {job \in jobs : mode \in CountedIn(job)} = Shown(jobs, mode, FALSE)
<1>1. ASSUME NEW job \in jobs PROVE (mode \in CountedIn(job)) <=> Matches(mode, job)
  <2>1. /\ job.enabled \in BOOLEAN /\ job.running \in BOOLEAN
        /\ job.status \in {"idle", "running", "success", "failed"}
        /\ job.running => job.status = "running"
    BY <1>1 DEF AreJobs
  <2>2. CASE mode = "all"
    BY <2>2 DEF CountedIn, Matches
  <2>3. CASE mode = "disabled"
    BY <2>1, <2>3 DEF CountedIn, Matches
  <2>4. CASE mode = "running"
    BY <2>1, <2>4 DEF CountedIn, Matches
  <2>5. CASE mode \in {"failed", "success", "idle"}
    BY <2>1, <2>5 DEF CountedIn, Matches
  <2> QED BY <2>2, <2>3, <2>4, <2>5 DEF FilterModes
<1> QED BY <1>1 DEF Shown, filterJobs, searchJobs

\* The number on a tab, the rows it shows, the rows a search hides, the alert,
\* the JSON counts and the word at a row agree, for every list of jobs.
THEOREM TabsAlwaysAgree == ASSUME NEW jobs, IsFiniteSet(jobs), AreJobs(jobs) PROVE TabsAgree(jobs)
<1>1. ASSUME NEW mode \in FilterModes
      PROVE  /\ TabCount(jobs, mode) = Cardinality(Shown(jobs, mode, FALSE))
             /\ Shown(jobs, mode, TRUE) = {} =>
                  HiddenBySearch(jobs, mode, TRUE) = Cardinality(Shown(jobs, mode, FALSE))
  <2>1. TabCount(jobs, mode) = Cardinality(Shown(jobs, mode, FALSE))
    BY CountedWhereListed DEF TabCount
  <2>2. searchJobs(jobs, FALSE) = jobs
    BY DEF searchJobs
  <2>3. Shown(jobs, mode, FALSE) = filterJobs(jobs, mode)
    BY <2>2 DEF Shown
  <2> QED BY <2>1, <2>3 DEF HiddenBySearch
<1>2. Cardinality(Failing(jobs)) = TabCount(jobs, "failed")
  <2>1. Failing(jobs) = {job \in jobs : "failed" \in CountedIn(job)}
    BY DEF Failing, CountedIn
  <2> QED BY <2>1 DEF TabCount
<1>3. ASSUME NEW status \in {"running", "success", "failed", "idle"}
      PROVE  APICount(jobs, status) - TabCount(jobs, status) = APICount({j \in jobs : ~j.enabled}, status)
  <2> DEFINE has(job) == IF status = "running" THEN job.running ELSE job.status = status
             A == {job \in jobs : has(job)}
             B == {job \in jobs : status \in CountedIn(job)}
             C == {job \in {j \in jobs : ~j.enabled} : has(job)}
  <2>1. ASSUME NEW job \in jobs PROVE status \in CountedIn(job) <=> (job.enabled /\ has(job))
    <3>1. /\ job.enabled \in BOOLEAN /\ job.running \in BOOLEAN
          /\ job.status \in {"idle", "running", "success", "failed"}
      BY <2>1 DEF AreJobs
    <3>2. CASE status = "running"
      BY <3>1, <3>2 DEF CountedIn
    <3>3. CASE status # "running"
      BY <3>1, <3>3 DEF CountedIn
    <3> QED BY <3>2, <3>3
  <2> HIDE DEF has
  <2>2. A = B \cup C /\ B \cap C = {}
    BY <2>1
  <2>3. IsFiniteSet(B) /\ IsFiniteSet(C)
    BY FS_Subset
  <2>4. /\ Cardinality(A) = Cardinality(B) + Cardinality(C) - 0
        /\ Cardinality(B) \in Nat /\ Cardinality(C) \in Nat
    <3> HIDE DEF A, B, C
    <3>1. Cardinality(B \cup C) = Cardinality(B) + Cardinality(C) - Cardinality(B \cap C)
      BY <2>3, FS_Union
    <3>2. Cardinality(B \cap C) = 0
      BY <2>2, FS_EmptySet
    <3>3. Cardinality(B) \in Nat /\ Cardinality(C) \in Nat
      BY <2>3, FS_CardinalityType
    <3> QED BY <2>2, <3>1, <3>2, <3>3
  <2>5. APICount(jobs, status) = Cardinality(A) /\ TabCount(jobs, status) = Cardinality(B)
        /\ APICount({j \in jobs : ~j.enabled}, status) = Cardinality(C)
    BY DEF APICount, TabCount, has
  <2> HIDE DEF A, B, C
  <2> QED BY <2>4, <2>5
<1>4. ASSUME NEW job \in jobs
      PROVE  IF job.enabled /\ Interrupted(job) THEN CountedIn(job) = {"all"} /\ State(job) = "idle"
             ELSE job \in Shown(jobs, State(job), FALSE)
  <2>1. /\ job.enabled \in BOOLEAN /\ job.running \in BOOLEAN
        /\ job.status \in {"idle", "running", "success", "failed"}
        /\ job.running => job.status = "running"
    BY <1>4 DEF AreJobs
  <2>2. CASE job.enabled /\ Interrupted(job)
    BY <2>1, <2>2 DEF Interrupted, CountedIn, State
  <2>3. CASE ~(job.enabled /\ Interrupted(job))
    <3>1. State(job) \in FilterModes /\ Matches(State(job), job)
      <4>1. CASE ~job.enabled
        BY <4>1 DEF State, Matches, FilterModes
      <4>2. CASE job.enabled /\ job.running
        BY <4>2 DEF State, Matches, FilterModes
      <4>3. CASE job.enabled /\ ~job.running /\ job.status \in {"success", "failed"}
        <5>1. State(job) = job.status
          BY <4>3 DEF State
        <5> QED BY <4>3, <5>1 DEF Matches, FilterModes
      <4>4. CASE job.enabled /\ ~job.running /\ job.status = "idle"
        <5>1. State(job) = "idle"
          BY <4>4 DEF State
        <5> QED BY <4>4, <5>1 DEF Matches, FilterModes
      <4> QED BY <2>1, <2>3, <4>1, <4>2, <4>3, <4>4 DEF Interrupted
    <3>2. job \in {j \in jobs : Matches(State(job), j)}
      BY <3>1
    <3>3. searchJobs(jobs, FALSE) = jobs
      BY DEF searchJobs
    <3> QED BY <2>3, <3>2, <3>3 DEF Shown, filterJobs
  <2> QED BY <2>2, <2>3
<1> QED BY <1>1, <1>2, <1>3, <1>4 DEF TabsAgree

-----------------------------------------------------------------------------
(* JobList: the order of the rows.                                         *)

\* Jobs of one crontab: each has a line of its own.
AreTimed(jobs) ==
    /\ \A job \in jobs : job.index \in Int /\ job.lastRun \in Int /\ job.nextRun \in Int
    /\ \A a, b \in jobs : a.index = b.index => a = b

\* A set of finite sets has a member that holds no other: an argument by
\* induction on a finite set asks for the smallest one it fails for.
LEMMA SmallestSet ==
    ASSUME NEW S, NEW F, F \subseteq FiniteSubsetsOf(S), F # {}
    PROVE  \E T \in F : \A U \in F : ~(U \subseteq T /\ U # T)
<1>1. PICK T \in F : \A U \in F : <<U, T>> \notin StrictSubsetOrdering(S)
  BY FS_StrictSubsetOrderingWellFounded, WFMin
<1>2. ASSUME NEW U \in F, U \subseteq T, U # T PROVE FALSE
  <2>1. U \in SUBSET S /\ T \in SUBSET S
    BY DEF FiniteSubsetsOf
  <2>2. <<U, T>> \in (SUBSET S) \X (SUBSET S)
    BY <2>1
  <2>3. <<U, T>> \in StrictSubsetOrdering(S)
    BY <1>2, <2>2 DEF StrictSubsetOrdering
  <2> QED BY <1>1, <2>3
<1> QED BY <1>2

\* The first of some places.
LEMMA FirstPlace ==
    ASSUME NEW n \in Nat, NEW D, D \subseteq 1 .. n, D # {}
    PROVE  \E k \in D : \A i \in D : k <= i
<1> DEFINE F == {1 .. k : k \in D}
<1>1. F \subseteq FiniteSubsetsOf(1 .. n)
  <2>1. ASSUME NEW k \in D PROVE 1 .. k \subseteq 1 .. n /\ IsFiniteSet(1 .. k)
    <3>1. k \in Int
      OBVIOUS
    <3> QED BY <3>1, FS_Interval
  <2> QED BY <2>1 DEF FiniteSubsetsOf
<1>2. F # {}
  OBVIOUS
<1>3. PICK T \in F : \A U \in F : ~(U \subseteq T /\ U # T)
  <2> HIDE DEF F
  <2> QED BY <1>1, <1>2, SmallestSet
<1>4. PICK k \in D : T = 1 .. k
  OBVIOUS
<1>5. ASSUME NEW i \in D, ~(k <= i) PROVE FALSE
  <2>1. 1 .. i \subseteq 1 .. k /\ k \in 1 .. k /\ k \notin 1 .. i
    BY <1>5
  <2> QED BY <1>3, <1>4, <2>1
<1> QED BY <1>5

\* Before puts any two jobs in order.
LEMMA BeforeIsAnOrder ==
    ASSUME NEW mode \in SortModes, NEW jobs, AreTimed(jobs)
    PROVE  \A a, b, c \in jobs :
             /\ ~Before(mode, a, a)
             /\ a # b => Before(mode, a, b) \/ Before(mode, b, a)
             /\ Before(mode, a, b) /\ Before(mode, b, c) => Before(mode, a, c)
<1> SUFFICES ASSUME NEW a \in jobs, NEW b \in jobs, NEW c \in jobs
             PROVE  /\ ~Before(mode, a, a)
                    /\ a # b => Before(mode, a, b) \/ Before(mode, b, a)
                    /\ Before(mode, a, b) /\ Before(mode, b, c) => Before(mode, a, c)
  OBVIOUS
<1>1. /\ a.index \in Int /\ a.lastRun \in Int /\ a.nextRun \in Int
      /\ b.index \in Int /\ b.lastRun \in Int /\ b.nextRun \in Int
      /\ c.index \in Int /\ c.lastRun \in Int /\ c.nextRun \in Int
      /\ a # b => a.index # b.index
  BY DEF AreTimed
<1>2. CASE mode = "lastrun"
  <2>1. \A x, y \in {a, b, c} : Before(mode, x, y) <=> ByLastRun(x, y)
    BY <1>2 DEF Before
  <2> QED BY <1>1, <2>1 DEF ByLastRun, ByIndex
<1>3. CASE mode = "nextrun"
  <2>1. \A x, y \in {a, b, c} : Before(mode, x, y) <=> ByNextRun(x, y)
    BY <1>3 DEF Before
  <2> QED BY <1>1, <2>1 DEF ByNextRun, ByIndex
<1>4. CASE mode = "default"
  <2>1. \A x, y \in {a, b, c} : Before(mode, x, y) <=> ByIndex(x, y)
    BY <1>4 DEF Before
  <2> QED BY <1>1, <2>1 DEF ByIndex
<1> QED BY <1>2, <1>3, <1>4 DEF SortModes

\* One of some jobs comes last.
LEMMA OneIsLast ==
    ASSUME NEW mode \in SortModes, NEW jobs, AreTimed(jobs), IsFiniteSet(jobs), jobs # {}
    PROVE  \E last \in jobs : \A job \in jobs : ~Before(mode, last, job)
<1> DEFINE HasLast(T) == \E last \in T : \A job \in T : ~Before(mode, last, job)
           F == {T \in FiniteSubsetsOf(jobs) : T # {} /\ ~HasLast(T)}
<1>1. SUFFICES ASSUME F # {} PROVE FALSE
  <2>1. jobs \in FiniteSubsetsOf(jobs)
    BY DEF FiniteSubsetsOf
  <2> QED BY <2>1
<1>2. PICK T \in F : \A U \in F : ~(U \subseteq T /\ U # T)
  <2>1. F \subseteq FiniteSubsetsOf(jobs)
    OBVIOUS
  <2> HIDE DEF F
  <2> QED BY <1>1, <2>1, SmallestSet
<1>3. T \subseteq jobs /\ IsFiniteSet(T) /\ T # {} /\ ~HasLast(T)
  BY DEF FiniteSubsetsOf
<1>4. PICK x \in T : TRUE
  BY <1>3
<1> DEFINE V == T \ {x}
<1>5. V \in FiniteSubsetsOf(jobs) /\ V \subseteq T /\ V # T
  <2>1. IsFiniteSet(V)
    BY <1>3, FS_RemoveElement
  <2> QED BY <1>3, <2>1 DEF FiniteSubsetsOf
<1>6. V = {} \/ HasLast(V)
  BY <1>2, <1>5
<1>7. \A a, b, c \in T :
        ~Before(mode, a, a) /\ (Before(mode, a, b) /\ Before(mode, b, c) => Before(mode, a, c))
  BY <1>3, BeforeIsAnOrder
<1>8. CASE V = {}
  <2>1. T = {x}
    BY <1>8
  <2> QED BY <1>3, <1>7, <2>1
<1>9. CASE HasLast(V)
  <2>1. PICK m \in V : \A job \in V : ~Before(mode, m, job)
    BY <1>9
  <2>2. CASE Before(mode, m, x)
    <3>1. ASSUME NEW job \in T, Before(mode, x, job) PROVE FALSE
      <4>1. job # x /\ job \in V
        BY <1>7, <3>1
      <4>2. Before(mode, m, job)
        BY <1>7, <2>2, <3>1
      <4> QED BY <2>1, <4>1, <4>2
    <3> QED BY <1>3, <3>1
  <2>3. CASE ~Before(mode, m, x)
    BY <1>3, <2>1, <2>3
  <2> QED BY <2>2, <2>3
<1> QED BY <1>6, <1>8, <1>9

\* There is a sorted list.
LEMMA SomeOrder ==
    ASSUME NEW mode \in SortModes, NEW jobs, AreTimed(jobs), IsFiniteSet(jobs)
    PROVE  Sorted(mode, jobs) # {}
<1> DEFINE F == {T \in FiniteSubsetsOf(jobs) : Sorted(mode, T) = {}}
<1>1. SUFFICES ASSUME F # {} PROVE FALSE
  <2>1. jobs \in FiniteSubsetsOf(jobs)
    BY DEF FiniteSubsetsOf
  <2> QED BY <2>1
<1>2. PICK T \in F : \A U \in F : ~(U \subseteq T /\ U # T)
  <2>1. F \subseteq FiniteSubsetsOf(jobs)
    OBVIOUS
  <2> HIDE DEF F
  <2> QED BY <1>1, <2>1, SmallestSet
<1>3. T \subseteq jobs /\ IsFiniteSet(T) /\ Sorted(mode, T) = {}
  BY DEF FiniteSubsetsOf
<1>4. CASE T = {}
  <2> DEFINE s == [i \in 1 .. 0 |-> 0]
  <2>1. Cardinality(T) = 0 /\ 1 .. 0 = {}
    BY <1>4, FS_EmptySet
  <2>2. s \in [1 .. Cardinality(T) -> T] /\ DOMAIN s = {}
    BY <2>1
  <2> HIDE DEF s
  <2>3. s \in SetToSeqs(T)
    BY <2>1, <2>2 DEF SetToSeqs
  <2>4. s \in Sorted(mode, T)
    BY <2>2, <2>3 DEF Sorted
  <2> QED BY <1>3, <2>4
<1>5. CASE T # {}
  <2>1. AreTimed(T)
    BY <1>3 DEF AreTimed
  <2>2. PICK m \in T : \A job \in T : ~Before(mode, m, job)
    BY <1>3, <1>5, <2>1, OneIsLast
  <2> DEFINE V == T \ {m}
             n == Cardinality(V)
  <2>3. IsFiniteSet(V) /\ n \in Nat /\ Cardinality(T) = n + 1
    <3>1. IsFiniteSet(V) /\ Cardinality(V) = Cardinality(T) - 1
      BY <1>3, FS_RemoveElement
    <3>2. Cardinality(T) \in Nat /\ Cardinality(V) \in Nat
      BY <1>3, <3>1, FS_CardinalityType
    <3> QED BY <3>1, <3>2
  <2>4. Sorted(mode, V) # {}
    <3>1. V \in FiniteSubsetsOf(jobs) /\ V \subseteq T /\ V # T
      BY <1>3, <2>3 DEF FiniteSubsetsOf
    <3> QED BY <1>2, <3>1
  <2>5. PICK s : s \in Sorted(mode, V)
    BY <2>4
  <2>6. /\ s \in [1 .. n -> V] /\ DOMAIN s = 1 .. n
        /\ \A i, h \in 1 .. n : i # h => s[i] # s[h]
        /\ \A h \in 1 .. n : \A i \in 1 .. (h - 1) : ~Before(mode, s[h], s[i])
    BY <2>5 DEF Sorted, SetToSeqs
  <2> DEFINE t == [i \in 1 .. (n + 1) |-> IF i = n + 1 THEN m ELSE s[i]]
  <2> HIDE DEF n
  <2>7. /\ DOMAIN t = 1 .. (n + 1) /\ t[n + 1] = m /\ 1 .. n \subseteq 1 .. (n + 1)
        /\ \A i \in 1 .. n : t[i] = s[i] /\ s[i] \in V
        /\ \A i \in 1 .. (n + 1) : i = n + 1 \/ i \in 1 .. n
    BY <2>3, <2>6
  <2>8. t \in [1 .. (n + 1) -> T]
    BY <2>3, <2>6
  <2> HIDE DEF t
  <2>9. \A i, h \in 1 .. (n + 1) : i # h => t[i] # t[h]
    BY <2>6, <2>7
  <2>10. ASSUME NEW h \in 1 .. (n + 1), NEW i \in 1 .. (h - 1) PROVE ~Before(mode, t[h], t[i])
    <3>1. i \in 1 .. n
      BY <2>3, <2>10
    <3>2. CASE h = n + 1
      BY <2>2, <2>7, <3>1, <3>2
    <3>3. CASE h \in 1 .. n
      BY <2>6, <2>7, <3>1, <3>3
    <3> QED BY <2>7, <3>2, <3>3
  <2>11. t \in SetToSeqs(T)
    BY <2>3, <2>8, <2>9 DEF SetToSeqs
  <2>12. t \in Sorted(mode, T)
    BY <2>7, <2>10, <2>11 DEF Sorted
  <2> QED BY <1>3, <2>12
<1> QED BY <1>4, <1>5

\* Two sorted lists have the same jobs at their first difference.
LEMMA NoOtherOrder ==
    ASSUME NEW mode \in SortModes, NEW jobs, AreTimed(jobs), IsFiniteSet(jobs),
           NEW s \in Sorted(mode, jobs), NEW t \in Sorted(mode, jobs)
    PROVE  s = t
<1> DEFINE n == Cardinality(jobs)
           InOrder(u) == /\ u \in [1 .. n -> jobs] /\ DOMAIN u = 1 .. n
                         /\ \A i, h \in 1 .. n : i # h => u[i] # u[h]
                         /\ \A h \in 1 .. n : \A i \in 1 .. (h - 1) : ~Before(mode, u[h], u[i])
<1>1. n \in Nat
  BY FS_CardinalityType
<1>2. InOrder(s) /\ InOrder(t)
  BY DEF Sorted, SetToSeqs
<1>3. ASSUME NEW u, InOrder(u), NEW job \in jobs
      PROVE  \E i \in 1 .. n : u[i] = job
  <2>1. u \in Injection(1 .. n, jobs)
    BY <1>3 DEF Injection, IsInjective
  <2>2. Cardinality(1 .. n) = n
    BY <1>1, FS_Interval
  <2>3. u \in Surjection(1 .. n, jobs)
    BY <2>1, <2>2, FS_Injection
  <2> QED BY <2>3 DEF Surjection
<1> HIDE DEF n
<1>4. SUFFICES ASSUME s # t PROVE FALSE
  OBVIOUS
<1> DEFINE D == {i \in 1 .. n : s[i] # t[i]}
<1>5. D # {}
  <2>1. s = [i \in 1 .. n |-> s[i]] /\ t = [i \in 1 .. n |-> t[i]]
    BY <1>2
  <2> QED BY <1>4, <2>1
<1>6. PICK k \in D : \A i \in D : k <= i
  <2>1. D \subseteq 1 .. n
    OBVIOUS
  <2> HIDE DEF D
  <2> QED BY <1>1, <1>5, <2>1, FirstPlace
<1>7. ASSUME NEW u, InOrder(u), NEW v, InOrder(v), u[k] # v[k],
             \A i \in 1 .. (k - 1) : u[i] = v[i]
      PROVE  ~Before(mode, u[k], v[k])
  <2>0. k \in 1 .. n
    OBVIOUS
  <2>1. PICK i \in 1 .. n : v[i] = u[k]
    BY <1>3, <1>7, <2>0
  <2>2. i # k
    BY <1>7, <2>1
  <2>3. ~(i < k)
    <3>1. ASSUME i < k PROVE FALSE
      <4>1. u[i] = v[i]
        BY <1>7, <2>0, <3>1
      <4> QED BY <1>7, <2>0, <2>1, <2>2, <4>1
    <3> QED BY <3>1
  <2>4. k \in 1 .. (i - 1)
    BY <1>1, <2>0, <2>2, <2>3
  <2> QED BY <1>7, <2>1, <2>4
<1>8. \A i \in 1 .. (k - 1) : s[i] = t[i]
  BY <1>1, <1>6
<1>9. ~Before(mode, s[k], t[k]) /\ ~Before(mode, t[k], s[k])
  BY <1>2, <1>7, <1>8
<1>10. s[k] \in jobs /\ t[k] \in jobs /\ s[k] # t[k]
  BY <1>2
<1> QED BY <1>9, <1>10, BeforeIsAnOrder

\* Each way to sort gives one order, whatever the list: two polls of the same
\* jobs show the same rows in the same places.
THEOREM OrdersAreAlwaysOne ==
    ASSUME NEW jobs, AreTimed(jobs), IsFiniteSet(jobs) PROVE OneOrder(jobs)
<1> SUFFICES ASSUME NEW mode \in SortModes PROVE Cardinality(Sorted(mode, jobs)) = 1
  BY DEF OneOrder
<1>1. PICK s : s \in Sorted(mode, jobs)
  BY SomeOrder
<1>2. Sorted(mode, jobs) = {s}
  BY <1>1, NoOtherOrder
<1> QED BY <1>2, FS_Singleton

-----------------------------------------------------------------------------
(* Upgrade.                                                                  *)

Places ==
    {<<"closed">>, <<"read">>, <<"fill">>, <<"open">>}
        \cup {<<"table", i>> : i \in DOMAIN Created} \cup {<<"column", i>> : i \in DOMAIN Added}

\* A result the old database had is kept, and one that was filled in is the one
\* of the latest execution.  Without the column there was none.
ResultsKept ==
    /\ \A j \in Jobs : code[j] = before[j] \/ (before[j] = Null /\ code[j] = LatestCode(j))
    /\ "last_exit_code" \notin columns => \A j \in Jobs : before[j] = Null /\ code[j] = Null

\* The tables created and the columns looked for so far are there.
ColumnsKept ==
    /\ tables \subseteq Tables /\ columns \subseteq Columns
    /\ step = <<"table", 2>> => "jobs" \in tables
    /\ \A i \in DOMAIN Added :
         step = <<"column", i>> => tables = Tables /\ \A k \in 1 .. (i - 1) : Added[k] \in columns
    /\ step \in {<<"read">>, <<"fill">>, <<"open">>} => tables = Tables /\ columns = Columns

\* The jobs that are to be filled in have no result yet, and the others have
\* one or no execution.
FillKept ==
    /\ step = <<"fill">> => \A j \in Jobs :
         IF read[j] # Null THEN read[j] = LatestCode(j) ELSE code[j] # Null \/ LatestCode(j) = Null
    /\ step = <<"open">> => \A j \in Jobs : code[j] # Null \/ LatestCode(j) = Null

UpgradeInv ==
    /\ step \in Places
    /\ code = [j \in Jobs |-> code[j]] /\ read = [j \in Jobs |-> read[j]]
    /\ ResultsKept /\ ColumnsKept /\ FillKept

\* The tables and the columns by their numbers.
LEMMA AddedIs ==
    /\ DOMAIN Added = 1 .. 5
    /\ Columns = {"executed_command", "output", "name", "last_exit_code", "last_duration"}
    /\ Added[4] = "last_exit_code" /\ \A i \in 1 .. 5 : Added[i] = "last_exit_code" => i = 4
    /\ DOMAIN Created = {1, 2} /\ Created[1] = "jobs" /\ Created[2] = "executions"
    /\ Tables = {"jobs", "executions"}
    /\ \A t \in Tables : ColumnsOf[t] \subseteq Columns
<1>0. DOMAIN Created = {1, 2} /\ Created[1] = "jobs" /\ Created[2] = "executions"
  BY DEF Created
<1>1. DOMAIN Added = 1 .. 5 /\ 1 .. 5 = {1, 2, 3, 4, 5}
  BY DEF Added
<1>2. /\ Added[1] = "executed_command" /\ Added[2] = "output" /\ Added[3] = "name"
      /\ Added[4] = "last_exit_code" /\ Added[5] = "last_duration"
  BY DEF Added
<1>3. Columns = {"executed_command", "output", "name", "last_exit_code", "last_duration"}
  BY <1>1, <1>2 DEF Columns
<1>4. Tables = {"jobs", "executions"}
  BY <1>0 DEF Tables
<1>5. \A t \in Tables : ColumnsOf[t] \subseteq Columns
  BY <1>3, <1>4 DEF ColumnsOf
<1> QED BY <1>0, <1>1, <1>2, <1>3, <1>4, <1>5

\* A database of any version, and none.
LEMMA UpgradeInit == InitUpgrade => UpgradeInv
<1> SUFFICES ASSUME InitUpgrade PROVE UpgradeInv
  OBVIOUS
<1>1. step = <<"closed">> /\ read = Unknown /\ before = code
  BY DEF InitUpgrade
<1>2. CASE tables = {} /\ columns = {} /\ runs = <<>> /\ code = Unknown
  BY <1>1, <1>2 DEF UpgradeInv, Places, ResultsKept, ColumnsKept, FillKept, Unknown
<1>3. CASE /\ tables = Tables
           /\ \E n \in 0 .. Len(Added) : columns = {Added[i] : i \in 1 .. n}
           /\ code \in [Jobs -> Codes \cup {Null}]
           /\ "last_exit_code" \notin columns => code = Unknown
  <2>1. Len(Added) = 5
    BY DEF Added
  <2>2. columns \subseteq Columns
    BY <1>3, <2>1, AddedIs DEF Columns
  <2> QED BY <1>1, <1>3, <2>2 DEF UpgradeInv, Places, ResultsKept, ColumnsKept, FillKept, Unknown
<1> QED BY <1>2, <1>3 DEF InitUpgrade

\* Every step of a start keeps the invariant, the one that ends it as well.
LEMMA UpgradeStep == ASSUME UpgradeInv, [NextUpgrade]_upgradeVars PROVE UpgradeInv'
<1>1. /\ step \in Places /\ code = [j \in Jobs |-> code[j]] /\ read = [j \in Jobs |-> read[j]]
      /\ ResultsKept /\ ColumnsKept /\ FillKept
  BY DEF UpgradeInv
<1>2. ASSUME UNCHANGED runs PROVE \A j : LatestCode(j)' = LatestCode(j)
  BY <1>2 DEF LatestCode, RunsOf, Later
<1>3. CASE UNCHANGED upgradeVars
  BY <1>1, <1>2, <1>3 DEF upgradeVars, UpgradeInv, ResultsKept, ColumnsKept, FillKept
<1>4. CASE Open \/ Abort
  <2>1. /\ UNCHANGED <<tables, columns, code, runs, before>> /\ step' \in {<<"closed">>, <<"table", 1>>}
        /\ read' \in {read, Unknown}
    BY <1>4, AddedIs DEF Open, Abort, NextTable
  <2>2. read' = [j \in Jobs |-> read'[j]]
    BY <1>1, <2>1 DEF Unknown
  <2> QED BY <1>1, <1>2, <2>1, <2>2, AddedIs DEF UpgradeInv, Places, ResultsKept, ColumnsKept, FillKept
<1>5. ASSUME NEW i \in DOMAIN Created, CreateTable(i)
      PROVE  UpgradeInv'
  <2>1. /\ i \in {1, 2} /\ step = <<"table", i>> /\ tables' = tables \cup {Created[i]}
        /\ step' = IF i = 1 THEN <<"table", 2>> ELSE <<"column", 1>>
        /\ UNCHANGED <<code, runs, read, before>>
    BY <1>5, AddedIs DEF CreateTable, NextTable
  <2>2. columns \subseteq columns' /\ columns' \subseteq Columns /\ tables' \subseteq Tables
    BY <1>1, <1>5, <2>1, AddedIs DEF CreateTable, ColumnsKept
  <2>3. ResultsKept'
    BY <1>1, <1>2, <2>1, <2>2 DEF ResultsKept
  <2>4. ColumnsKept'
    <3>1. CASE i = 1
      <4>1. step' = <<"table", 2>> /\ "jobs" \in tables'
        BY <2>1, <3>1, AddedIs
      <4> QED BY <2>2, <4>1 DEF ColumnsKept
    <3>2. CASE i = 2
      <4>1. step' = <<"column", 1>> /\ tables' = Tables
        BY <1>1, <2>1, <2>2, <3>2, AddedIs DEF ColumnsKept
      <4>2. ASSUME NEW k \in DOMAIN Added, step' = <<"column", k>>
            PROVE  1 .. (k - 1) = {}
        BY <4>1, <4>2
      <4> QED BY <2>2, <4>1, <4>2 DEF ColumnsKept
    <3> QED BY <2>1, <3>1, <3>2
  <2> QED BY <1>1, <2>1, <2>3, <2>4, AddedIs DEF UpgradeInv, Places, FillKept
<1>6. ASSUME NEW i \in DOMAIN Added, AddColumn(i)
      PROVE  UpgradeInv'
  <2>0. i \in 1 .. 5
    BY AddedIs
  <2>1. /\ step = <<"column", i>> /\ columns' = columns \cup {Added[i]}
        /\ code' = IF Added[i] = "last_exit_code" /\ Added[i] \notin columns
                   THEN [j \in Jobs |-> Null] ELSE code
        /\ UNCHANGED <<tables, runs, read, before>>
    BY <1>6 DEF AddColumn, CodeOfNewColumn
  <2>2. tables = Tables /\ columns \subseteq Columns /\ \A k \in 1 .. (i - 1) : Added[k] \in columns
    BY <1>1, <2>1 DEF ColumnsKept
  <2>3. columns' \subseteq Columns
    BY <2>1, <2>2 DEF Columns
  <2>4. \A j \in Jobs : code'[j] = code[j]
    BY <1>1, <2>1, <2>2 DEF ResultsKept
  <2>5. ResultsKept'
    BY <1>1, <1>2, <2>1, <2>2, <2>3, <2>4 DEF ResultsKept
  <2>6. code' = [j \in Jobs |-> code'[j]]
    BY <1>1, <2>1
  <2>7. \A k \in 1 .. i : Added[k] \in columns'
    <3>1. \A k \in 1 .. i : k = i \/ k \in 1 .. (i - 1)
      BY <2>0
    <3> QED BY <2>1, <2>2, <3>1
  <2>8. CASE i = 5
    <3>1. step' = <<"read">>
      BY <1>6, <2>8, AddedIs DEF AddColumn, NextColumn
    <3>2. columns' = Columns
      <4>1. \A k \in 1 .. 5 : Added[k] \in columns'
        BY <2>7, <2>8
      <4> QED BY <2>3, <4>1, AddedIs DEF Columns
    <3>3. ColumnsKept'
      BY <2>1, <2>2, <2>3, <3>1, <3>2 DEF ColumnsKept
    <3> QED BY <1>1, <2>1, <2>5, <2>6, <3>1, <3>3 DEF UpgradeInv, Places, FillKept
  <2>9. CASE i # 5
    <3>1. step' = <<"column", i + 1>> /\ i + 1 \in DOMAIN Added
      BY <1>6, <2>0, <2>9, AddedIs DEF AddColumn, NextColumn
    <3>2. ASSUME NEW h \in DOMAIN Added, step' = <<"column", h>>
          PROVE  tables' = Tables /\ \A k \in 1 .. (h - 1) : Added[k] \in columns'
      <4>1. h = i + 1
        BY <3>1, <3>2
      <4>2. 1 .. (h - 1) = 1 .. i
        BY <2>0, <4>1
      <4> QED BY <2>1, <2>2, <2>7, <4>2
    <3>3. ColumnsKept'
      BY <2>1, <2>2, <2>3, <3>1, <3>2 DEF ColumnsKept
    <3> QED BY <1>1, <2>1, <2>5, <2>6, <3>1, <3>3 DEF UpgradeInv, Places, FillKept
  <2> QED BY <2>8, <2>9
<1>7. CASE ReadLatest
  <2>1. /\ step = <<"read">> /\ step' = <<"fill">> /\ UNCHANGED <<tables, columns, code, runs, before>>
        /\ read' = [j \in Jobs |-> IF code[j] = Null THEN LatestCode(j) ELSE Null]
    BY <1>7 DEF ReadLatest
  <2>2. ResultsKept' /\ ColumnsKept'
    BY <1>1, <1>2, <2>1 DEF ResultsKept, ColumnsKept
  <2>3. FillKept'
    BY <1>2, <2>1 DEF FillKept
  <2> QED BY <1>1, <2>1, <2>2, <2>3 DEF UpgradeInv, Places
<1>8. ASSUME NEW j \in Jobs, Backfill(j)
      PROVE  UpgradeInv'
  <2>1. /\ step = <<"fill">> /\ read[j] # Null /\ UNCHANGED <<step, tables, columns, runs, before>>
        /\ code' = [code EXCEPT ![j] = IF @ = Null THEN read[j] ELSE @]
        /\ read' = [read EXCEPT ![j] = Null]
    BY <1>8 DEF Backfill
  <2>2. /\ code'[j] = (IF code[j] = Null THEN read[j] ELSE code[j]) /\ read'[j] = Null
        /\ \A h \in Jobs \ {j} : code'[h] = code[h] /\ read'[h] = read[h]
        /\ code' = [h \in Jobs |-> code'[h]] /\ read' = [h \in Jobs |-> read'[h]]
    BY <1>1, <2>1
  <2>3. read[j] = LatestCode(j) /\ columns = Columns
    BY <1>1, <2>1 DEF FillKept, ColumnsKept
  <2>4. "last_exit_code" \in columns
    BY <2>3, AddedIs
  <2>5. ResultsKept'
    BY <1>1, <1>2, <2>1, <2>2, <2>3, <2>4 DEF ResultsKept
  <2>6. ColumnsKept'
    BY <1>1, <2>1 DEF ColumnsKept
  <2>7. FillKept'
    BY <1>1, <1>2, <2>1, <2>2, <2>3 DEF FillKept
  <2> QED BY <1>1, <2>1, <2>2, <2>5, <2>6, <2>7 DEF UpgradeInv
<1>9. CASE Ready
  <2>1. /\ step = <<"fill">> /\ read = Unknown /\ step' = <<"open">>
        /\ UNCHANGED <<tables, columns, code, runs, read, before>>
    BY <1>9 DEF Ready
  <2>2. ResultsKept' /\ ColumnsKept'
    BY <1>1, <1>2, <2>1 DEF ResultsKept, ColumnsKept
  <2>3. FillKept'
    BY <1>1, <1>2, <2>1 DEF FillKept, Unknown
  <2> QED BY <1>1, <2>1, <2>2, <2>3 DEF UpgradeInv, Places
<1> QED BY <1>3, <1>4, <1>5, <1>6, <1>7, <1>8, <1>9 DEF NextUpgrade

\* sqlite.go: "an upgrade interrupted after adding the columns still recovers,
\* and never touches a known result": for any jobs and executions and any
\* number of interrupted starts, an open database has every table and column, each result
\* the old one had, and for every other job that of its latest execution.
THEOREM UpgradesConverge == UpgradeSpec => []UpgradeConverges
<1>1. UpgradeInv => UpgradeConverges
  <2> SUFFICES ASSUME UpgradeInv, step = <<"open">>
               PROVE  /\ tables = Tables /\ columns = Columns
                      /\ \A j \in Jobs : code[j] = IF before[j] # Null THEN before[j] ELSE LatestCode(j)
    BY DEF UpgradeConverges
  <2>1. tables = Tables /\ columns = Columns
    BY DEF UpgradeInv, ColumnsKept
  <2>2. \A j \in Jobs : /\ code[j] = before[j] \/ (before[j] = Null /\ code[j] = LatestCode(j))
                        /\ code[j] # Null \/ LatestCode(j) = Null
    BY DEF UpgradeInv, ResultsKept, FillKept
  <2> QED BY <2>1, <2>2
<1> QED BY <1>1, UpgradeInit, UpgradeStep, PTL DEF UpgradeSpec

-----------------------------------------------------------------------------
(* MCAlgorithms: the inputs TLC draws.                                     *)

\* What is drawn are fields, hours and lists as the theorems above suppose.
Drawn ==
    /\ input.part = "field" => input.name \in DOMAIN Bounds /\ IsField(input.field)
    /\ input.part = "hour" => /\ input.day \in Int /\ input.hour \in 0 .. 23
                              /\ input.eodHour \in 0 .. 24
    /\ input.part = "tabs" => IsFiniteSet(input.jobs) /\ AreJobs(input.jobs)
    /\ input.part = "order" => IsFiniteSet(input.jobs) /\ AreTimed(input.jobs)

\* An item of terms and steps that can be written.
LEMMA ItemDrawn ==
    ASSUME NEW k \in Nat \ {0}, NEW terms \in [1 .. k -> Term], NEW steps \in Seq(Term),
           NEW left \in BOOLEAN, NEW right \in BOOLEAN
    PROVE  IsItem(Item(terms, steps, left, right))
<1>1. Len(terms) = k /\ DOMAIN terms = 1 .. k
  OBVIOUS
<1>2. Len(steps) \in Nat /\ (Len(steps) = 0 <=> steps = <<>>)
  OBVIOUS
<1>3. \A i \in 1 .. k : IsTerm(terms[i])
  BY DEF Term
<1> DEFINE item == Item(terms, steps, left, right)
<1>4. item.terms = terms /\ item.steps = steps /\ item.left = left /\ item.right = right
  BY DEF Item
<1> HIDE DEF item
<1>5. IsItem(item)
  BY <1>1, <1>2, <1>3, <1>4 DEF IsItem
<1> QED BY <1>5 DEF item

\* A field that is drawn can be written.
LEMMA FieldDrawn ==
    ASSUME NEW name \in DOMAIN Bounds, NEW field \in SingleFields(name) \cup [1 .. 2 -> ShortItems(name)]
    PROVE  IsField(field)
<1>1. Terms(name) \subseteq Term /\ ShortTerms(name) \subseteq Term
  BY DEF Terms, ShortTerms, Term, IsTerm, Days, Numbers
<1>2. Steps \subseteq Seq(Term)
  <2>1. Empty \in Term /\ <<"num", 0>> \in Term /\ <<"num", 2>> \in Term
    BY DEF Term, IsTerm
  <2> QED BY <2>1 DEF Steps
<1>3. CASE field \in SingleFields(name)
  <2>1. PICK terms \in Upto(3, Terms(name)), steps \in Steps, left \in BOOLEAN, right \in BOOLEAN :
            field = <<Item(terms, steps, left, right)>>
    BY <1>3 DEF SingleFields
  <2>2. PICK k \in 1 .. 3 : terms \in [1 .. k -> Terms(name)]
    BY DEF Upto
  <2>3. IsItem(Item(terms, steps, left, right))
    BY <1>1, <1>2, <2>2, ItemDrawn
  <2> QED BY <2>1, <2>3 DEF IsField
<1>4. CASE field \in [1 .. 2 -> ShortItems(name)]
  <2>1. ASSUME NEW item \in ShortItems(name) PROVE IsItem(item)
    <3>1. PICK terms \in Upto(2, ShortTerms(name)), steps \in {<<>>, <<<<"num", 2>>>>},
               left \in BOOLEAN, right \in BOOLEAN :
              item = Item(terms, steps, left, right)
      BY DEF ShortItems
    <3>2. PICK k \in 1 .. 2 : terms \in [1 .. k -> ShortTerms(name)]
      BY DEF Upto
    <3>3. steps \in Seq(Term)
      BY <1>2 DEF Steps
    <3> QED BY <1>1, <3>1, <3>2, <3>3, ItemDrawn
  <2>2. Len(field) = 2 /\ DOMAIN field = 1 .. 2
    BY <1>4
  <2> QED BY <1>4, <2>1, <2>2 DEF IsField
<1> QED BY <1>3, <1>4

\* The jobs of a drawn list are three.
LEMMA ThreeDrawn == \A a, b, c : IsFiniteSet({a, b, c})
<1> SUFFICES ASSUME NEW a, NEW b, NEW c PROVE IsFiniteSet({a, b, c})
  OBVIOUS
<1>1. IsFiniteSet({a}) /\ IsFiniteSet({b}) /\ IsFiniteSet({c})
  BY FS_Singleton
<1>2. IsFiniteSet({a} \cup {b})
  BY <1>1, FS_Union
<1>3. IsFiniteSet({a} \cup {b} \cup {c})
  BY <1>1, <1>2, FS_Union
<1>4. {a, b, c} = {a} \cup {b} \cup {c}
  OBVIOUS
<1> QED BY <1>3, <1>4

\* Every step draws such an input or keeps the one there is.
LEMMA DrawnAlways == Spec => []Drawn
<1>1. Init => Drawn
  BY DEF Init, Drawn, Nothing
<1>2. ASSUME Drawn, [Next]_vars PROVE Drawn'
  <2>1. CASE UNCHANGED input
    BY <1>2, <2>1 DEF Drawn
  <2>2. CASE DrawField
    <3>1. PICK name \in DOMAIN Bounds : \E field \in SingleFields(name) \cup [1 .. 2 -> ShortItems(name)] :
              input' = [part |-> "field", name |-> name, field |-> field]
      BY <2>2 DEF DrawField
    <3>2. PICK field \in SingleFields(name) \cup [1 .. 2 -> ShortItems(name)] :
              input' = [part |-> "field", name |-> name, field |-> field]
      BY <3>1
    <3>3. IsField(field)
      BY FieldDrawn
    <3>4. input'.part = "field" /\ input'.name = name /\ input'.field = field
      BY <3>2
    <3> QED BY <3>3, <3>4 DEF Drawn
  <2>3. CASE DrawHour
    <3>1. PICK day \in 7 .. 20, hour \in 0 .. 23, eodHour \in 0 .. 24 :
              input' = [part |-> "hour", day |-> day, hour |-> hour, eodHour |-> eodHour]
      BY <2>3 DEF DrawHour
    <3> QED BY <3>1 DEF Drawn
  <2>4. CASE DrawTabs
    <3>1. PICK a \in JobStates(1), b \in JobStates(2), c \in JobStates(3) :
              input' = [part |-> "tabs", jobs |-> {a, b, c}]
      BY <2>4 DEF DrawTabs
    <3>2. AreJobs({a, b, c})
      BY DEF AreJobs, JobStates
    <3>3. input'.part = "tabs" /\ input'.jobs = {a, b, c}
      BY <3>1
    <3>4. IsFiniteSet({a, b, c})
      BY ThreeDrawn
    <3> QED BY <3>2, <3>3, <3>4 DEF Drawn
  <2>5. CASE DrawOrder
    <3>1. PICK a \in Runs(1), b \in Runs(2), c \in Runs(3) :
              input' = [part |-> "order", jobs |-> {a, b, c}]
      BY <2>5 DEF DrawOrder
    <3>2. AreTimed({a, b, c})
      BY DEF AreTimed, Runs
    <3>3. input'.part = "order" /\ input'.jobs = {a, b, c}
      BY <3>1
    <3>4. IsFiniteSet({a, b, c})
      BY ThreeDrawn
    <3> QED BY <3>2, <3>3, <3>4 DEF Drawn
  <2> QED BY <1>2, <2>1, <2>2, <2>3, <2>4, <2>5 DEF Next, Draw, vars
<1> QED BY <1>1, <1>2, PTL DEF Spec

\* The four properties of the run, each from the theorem about every input.
THEOREM DrawnFieldsLoad == Spec => []FieldsLoad
<1>1. Drawn => FieldsLoad
  BY FieldsAlwaysLoad DEF Drawn, FieldsLoad
<1> QED BY <1>1, DrawnAlways, PTL

\* YYYYMMDDEOD of a drawn hour is the last business day that is over.
THEOREM DrawnEodIsLast == Spec => []EodIsLast
<1>1. Drawn => EodIsLast
  BY EodNamesTheLastOver DEF Drawn, EodIsLast
<1> QED BY <1>1, DrawnAlways, PTL

\* The numbers of a drawn list fit its rows.
THEOREM DrawnListsAgree == Spec => []ListsAgree
<1>1. Drawn => ListsAgree
  BY TabsAlwaysAgree DEF Drawn, ListsAgree
<1> QED BY <1>1, DrawnAlways, PTL

\* A drawn list has one order of each kind.
THEOREM DrawnOrdersAreOne == Spec => []OrdersAreOne
<1>1. Drawn => OrdersAreOne
  BY OrdersAreAlwaysOne DEF Drawn, OrdersAreOne
<1> QED BY <1>1, DrawnAlways, PTL
==============================================================================
