--------------------------- MODULE PanelFacesProofs ---------------------------
(***************************************************************************)
(* Proofs about PanelFaces, for every list of faces that starts as the     *)
(* panel's does, all settings, events and requests: typing, and that a     *)
(* hold gives the panel back.                                              *)
(***************************************************************************)
EXTENDS PanelFaces, SequenceTheorems, WellFoundedInduction, TLAPS

(* Induction over the naturals, of a set: the library's theorem takes a    *)
(* predicate, which the provers here cannot instantiate.                   *)
LEMMA Inductive ==
    ASSUME NEW S, 0 \in S, \A n \in Nat : n \in S => n + 1 \in S
    PROVE  Nat \subseteq S
<1> DEFINE R == {ss \in Nat \X Nat : ss[1] < ss[2]}
           T == Nat \ S
<1>1. SUFFICES ASSUME T # {} PROVE FALSE
  OBVIOUS
<1>2. IsWellFoundedOn(R, Nat)
  BY NatLessThanWellFounded, Zenon DEF OpToRel
<1>3. T \subseteq Nat
  OBVIOUS
<1>4. \E x \in T : \A y \in T : <<y, x>> \notin R
  <2> HIDE DEF R, T
  <2> QED
    BY <1>1, <1>2, <1>3, WFMin, Zenon
<1>5. PICK x \in T : \A y \in T : <<y, x>> \notin R
  BY <1>4
<1>6. x \in Nat \ {0} /\ x - 1 \in Nat /\ (x - 1) + 1 = x
  OBVIOUS
<1>7. <<x - 1, x>> \in R
  BY <1>6
<1>8. x - 1 \in S
  BY <1>5, <1>6, <1>7
<1> QED
  BY <1>6, <1>8

-------------------------------------------------------------------------------
(* A list of faces the panel can step through.  The calendar is where the  *)
(* agent's list has it, right behind the clock, which cannot be hidden: a  *)
(* hold remembers an index, and goes by it after the faces were rebuilt.   *)
FaceLists ==
    {fs \in Seq(Titles) :
        /\ Len(fs) \in 1..Len(AllFaces) /\ fs[1] = "clock"
        /\ \A i \in 1..Len(fs) : fs[i] = "calendar" => i = 2}

LEMMA AllFacesIsList == AllFaces \in FaceLists /\ Len(AllFaces) \in Nat
<1>1. Len(AllFaces) \in Nat /\ DOMAIN AllFaces = 1..Len(AllFaces)
  BY FacesAssumption, LenProperties
<1>2. \A i \in 1..Len(AllFaces) : AllFaces[i] \in Titles
  BY <1>1 DEF Titles
<1>3. AllFaces \in Seq(Titles)
  BY <1>1, <1>2, FacesAssumption, SeqOfRange, IsASeq
<1> QED
  BY <1>1, <1>3, FacesAssumption DEF FaceLists

(* The filter, whatever is hidden but the clock.                           *)
Filter(hidden, n, g) ==
    [k \in 0..n |-> IF k = 0 THEN <<>>
                    ELSE IF AllFaces[k] \in hidden THEN g[k - 1]
                    ELSE Append(g[k - 1], AllFaces[k])]

LEMMA FilterExists == \A hidden : \A n \in Nat : \E g : g = Filter(hidden, n, g)
<1> SUFFICES ASSUME NEW hidden PROVE \A n \in Nat : \E g : g = Filter(hidden, n, g)
  OBVIOUS
<1> DEFINE S == {n \in Nat : \E g : g = Filter(hidden, n, g)}
<1>1. 0 \in S
  <2> DEFINE g == [k \in 0..0 |-> <<>>]
  <2>1. g = Filter(hidden, 0, g)
    BY DEF Filter
  <2> QED
    BY <2>1
<1>2. ASSUME NEW n \in Nat, n \in S PROVE n + 1 \in S
  <2>1. PICK g : g = Filter(hidden, n, g)
    BY <1>2
  <2> DEFINE last == IF AllFaces[n + 1] \in hidden THEN g[n] ELSE Append(g[n], AllFaces[n + 1])
             h == [k \in 0..(n + 1) |-> IF k = n + 1 THEN last ELSE g[k]]
  <2>2. \A k \in 0..n : h[k] = g[k] /\ g[k] = IF k = 0 THEN <<>>
                                           ELSE IF AllFaces[k] \in hidden THEN g[k - 1]
                                           ELSE Append(g[k - 1], AllFaces[k])
    <3>1. \A k \in 0..n : Filter(hidden, n, g)[k] = IF k = 0 THEN <<>>
                                                  ELSE IF AllFaces[k] \in hidden THEN g[k - 1]
                                                  ELSE Append(g[k - 1], AllFaces[k])
      BY DEF Filter
    <3>2. \A k \in 0..n : h[k] = g[k]
      OBVIOUS
    <3> HIDE DEF h
    <3> QED
      BY <2>1, <3>1, <3>2
  <2>3. h[n + 1] = last /\ DOMAIN h = 0..(n + 1) /\ h = [k \in 0..(n + 1) |-> h[k]]
    OBVIOUS
  <2> HIDE DEF h
  <2>4. ASSUME NEW k \in 0..(n + 1)
        PROVE  h[k] = IF k = 0 THEN <<>>
                      ELSE IF AllFaces[k] \in hidden THEN h[k - 1]
                      ELSE Append(h[k - 1], AllFaces[k])
    <3>1. CASE k = 0
      BY <2>2, <3>1
    <3>2. CASE k \in 1..n
      <4>1. k - 1 \in 0..n /\ k \in 0..n /\ k # 0
        BY <3>2
      <4> QED
        BY <2>2, <4>1
    <3>3. CASE k = n + 1
      <4>1. k # 0 /\ k - 1 = n /\ n \in 0..n
        BY <3>3
      <4> QED
        BY <2>2, <2>3, <3>3, <4>1
    <3> QED
      BY <3>1, <3>2, <3>3
  <2>5. h = Filter(hidden, n + 1, h)
    BY <2>3, <2>4 DEF Filter
  <2> QED
    BY <2>5
<1> HIDE DEF S
<1>3. Nat \subseteq S
  BY <1>1, <1>2, Inductive
<1> QED
  BY <1>3 DEF S

(* From the first face on, every prefix leaves a list of faces.            *)
LEMMA FilterLists ==
    ASSUME NEW hidden, "clock" \notin hidden, NEW g, g = Filter(hidden, Len(AllFaces), g)
    PROVE  g[Len(AllFaces)] \in FaceLists
<1> DEFINE N == Len(AllFaces)
           Good(n) == /\ g[n] \in Seq(Titles) /\ Len(g[n]) \in 1..n /\ g[n][1] = "clock"
                      /\ \A i \in 1..Len(g[n]) : g[n][i] = "calendar" => i = 2
           S == {n \in Nat : n + 1 <= N => Good(n + 1)}
<1>0. /\ N \in Nat /\ N >= 2 /\ DOMAIN AllFaces = 1..N
      /\ \A k \in 1..N : AllFaces[k] \in Titles
      /\ AllFaces[1] = "clock" /\ AllFaces[2] = "calendar"
      /\ \A k \in 1..N : AllFaces[k] = "calendar" => k = 2
  BY FacesAssumption, LenProperties DEF Titles
<1> HIDE DEF N
<1>1. \A k \in 0..N : g[k] = IF k = 0 THEN <<>>
                           ELSE IF AllFaces[k] \in hidden THEN g[k - 1]
                           ELSE Append(g[k - 1], AllFaces[k])
  BY DEF Filter, N
<1>2. Good(1)
  <2>1. g[0] = <<>> /\ g[1] = Append(<<>>, "clock")
    <3>1. 0 \in 0..N /\ 1 \in 0..N /\ 1 - 1 = 0 /\ 1 # 0
      BY <1>0
    <3>2. g[0] = <<>>
      BY <1>1, <3>1
    <3>3. g[1] = Append(g[0], "clock")
      BY <1>0, <1>1, <3>1
    <3> QED
      BY <3>2, <3>3
  <2>2. "clock" \in Titles
    BY <1>0
  <2> QED
    BY <2>1, <2>2
<1>3. ASSUME NEW n \in Nat, n \in S PROVE n + 1 \in S
  <2> DEFINE m == n + 1
             p == g[m]
             f == AllFaces[m + 1]
  <2>1. SUFFICES ASSUME m + 1 <= N PROVE Good(m + 1)
    BY <1>0, <1>3
  <2>2. m \in Nat /\ m >= 1 /\ m <= N /\ m + 1 \in 1..N /\ m + 1 \in 0..N /\ m + 1 # 0 /\ (m + 1) - 1 = m
    BY <1>0, <2>1
  <2>3. Good(m)
    BY <1>3, <2>2
  <2>4. f \in Titles /\ (f = "calendar" => m + 1 = 2)
    BY <1>0, <2>2
  <2>5. g[m + 1] = IF f \in hidden THEN p ELSE Append(p, f)
    BY <1>1, <2>2
  <2> HIDE DEF m, f, S
  <2>6. CASE g[m + 1] = p
    BY <2>2, <2>3, <2>6
  <2>7. CASE g[m + 1] = Append(p, f)
    <3> DEFINE q == g[m + 1]
    <3>1. p \in Seq(Titles) /\ Len(p) \in 1..m /\ p[1] = "clock"
          /\ \A i \in 1..Len(p) : p[i] = "calendar" => i = 2
      BY <2>3
    <3> HIDE DEF p, q
    <3>2. /\ q \in Seq(Titles) /\ Len(q) = Len(p) + 1 /\ q[Len(p) + 1] = f
          /\ \A i \in 1..Len(p) : q[i] = p[i]
      BY <2>4, <2>7, <3>1, AppendProperties DEF q
    <3>3. q[1] = "clock" /\ Len(q) \in 1..(m + 1)
      BY <2>2, <3>1, <3>2
    <3>4. ASSUME NEW i \in 1..Len(q), q[i] = "calendar" PROVE i = 2
      <4>1. CASE i = Len(p) + 1
        <5>1. m + 1 = 2
          BY <2>4, <3>2, <3>4, <4>1
        <5>2. Len(p) = 1
          <6>1. m = 1 /\ Len(p) \in 1..m
            BY <2>2, <3>1, <5>1
          <6> QED
            BY <6>1
        <5> QED
          BY <4>1, <5>2
      <4>2. CASE i \in 1..Len(p)
        BY <3>1, <3>2, <3>4, <4>2
      <4> QED
        BY <2>2, <3>1, <3>2, <4>1, <4>2
    <3> QED
      BY <3>2, <3>3, <3>4 DEF q
  <2> QED
    BY <2>5, <2>6, <2>7
<1>4. 0 \in S
  BY <1>2
<1> HIDE DEF S
<1>5. Nat \subseteq S
  BY <1>3, <1>4, Inductive
<1>6. N - 1 \in S /\ (N - 1) + 1 = N
  BY <1>0, <1>5
<1>7. Good(N)
  <2> HIDE DEF Good
  <2> QED
    BY <1>0, <1>6 DEF S
<1> QED
  BY <1>0, <1>7 DEF FaceLists, N

LEMMA VisibleIsList ==
    ASSUME NEW hidden, "clock" \notin hidden
    PROVE  VisibleFaces(hidden) \in FaceLists
<1> DEFINE N == Len(AllFaces)
           visible == CHOOSE g : g = Filter(hidden, N, g)
<1>1. VisibleFaces(hidden) = IF visible[N] = <<>> THEN AllFaces ELSE visible[N]
  BY DEF VisibleFaces, Filter
<1>2. visible = Filter(hidden, N, visible)
  <2>1. \E g : g = Filter(hidden, N, g)
    BY FilterExists, AllFacesIsList
  <2> QED
    BY <2>1
<1> HIDE DEF visible
<1>3. visible[N] \in FaceLists
  BY <1>2, FilterLists
<1> QED
  BY <1>1, <1>3, AllFacesIsList

-------------------------------------------------------------------------------
(* The lists the panel can be at, and what they are used for.              *)
Lists == {VisibleFaces(s.hidden) : s \in Settings} \cup {AllFaces}

LEMMA ListsAreLists == Lists \subseteq FaceLists
  BY AllFacesIsList, VisibleIsList, SettingsAssumption DEF Lists

LEMMA ListFacts ==
    ASSUME NEW fs \in Lists
    PROVE  /\ Len(fs) \in Nat /\ Len(fs) >= 1 /\ Len(fs) <= Len(AllFaces) /\ Len(AllFaces) \in Nat
           /\ DOMAIN fs = 1..Len(fs)
           /\ \A i \in 1..Len(fs) : fs[i] \in Titles /\ (fs[i] = "calendar" => i = 2)
<1>1. fs \in FaceLists
  BY ListsAreLists
<1>2. /\ fs \in Seq(Titles) /\ Len(fs) \in 1..Len(AllFaces)
      /\ \A i \in 1..Len(fs) : fs[i] = "calendar" => i = 2
  BY <1>1 DEF FaceLists
<1> QED
  BY <1>2, AllFacesIsList, ElementOfSeq, LenProperties

(* findIndex finds the face where there is one, the calendar in one place. *)
LEMMA Found ==
    ASSUME NEW fs \in Lists, NEW title, Has(fs, title)
    PROVE  /\ FindIndex(fs, title) \in 0..(Len(fs) - 1)
           /\ fs[FindIndex(fs, title) + 1] = title
           /\ title = "calendar" => FindIndex(fs, title) = 1
<1> DEFINE i == CHOOSE j \in DOMAIN fs : fs[j] = title
<1>1. i \in DOMAIN fs /\ fs[i] = title
  BY DEF Has
<1>2. FindIndex(fs, title) = i - 1
  BY DEF FindIndex
<1> HIDE DEF i
<1> QED
  BY <1>1, <1>2, ListFacts

(* showFace wraps the index into the list.                                 *)
LEMMA Shown ==
    ASSUME NEW fs \in Lists, NEW i \in Nat, ShowFace(fs, i), asleep \in BOOLEAN
    PROVE  /\ faces' = fs /\ index' \in 0..(Len(fs) - 1) /\ face' = fs[index' + 1]
           /\ face' \in Titles /\ dark' \in BOOLEAN
           /\ i < Len(fs) => index' = i
<1>1. Len(fs) \in Nat /\ Len(fs) >= 1 /\ \A k \in 1..Len(fs) : fs[k] \in Titles
  BY ListFacts
<1> DEFINE n == Len(fs)
<1>2. i % n \in 0..(n - 1) /\ (i < n => i % n = i)
  <2> HIDE DEF n
  <2> QED
    BY <1>1 DEF n
<1>3. index' = i % n /\ faces' = fs /\ face' = fs[index' + 1] /\ dark' \in BOOLEAN
  BY DEF ShowFace
<1> HIDE DEF n
<1>4. index' + 1 \in 1..n
  BY <1>1, <1>2, <1>3 DEF n
<1> QED
  BY <1>1, <1>2, <1>3, <1>4 DEF n

(* The part of TypeOK about what is on screen.                             *)
PanelOK ==
    /\ faces \in Lists /\ index \in 0..(Len(faces) - 1) /\ face = faces[index + 1]
    /\ dark \in BOOLEAN

LEMMA PanelFacts ==
    ASSUME PanelOK
    PROVE  /\ face \in Titles /\ index \in Nat /\ index <= Len(AllFaces) - 1
           /\ Len(faces) \in Nat /\ Len(faces) >= 1 /\ index < Len(faces)
<1>1. /\ Len(faces) \in Nat /\ Len(faces) >= 1 /\ Len(faces) <= Len(AllFaces) /\ Len(AllFaces) \in Nat
      /\ \A i \in 1..Len(faces) : faces[i] \in Titles
  BY ListFacts DEF PanelOK
<1>2. index \in Nat /\ index < Len(faces) /\ index + 1 \in 1..Len(faces)
  BY <1>1 DEF PanelOK
<1> QED
  BY <1>1, <1>2 DEF PanelOK

LEMMA SyncKeepsPanel ==
    ASSUME PanelOK, asleep \in BOOLEAN, NEW s \in Settings, SyncFaces(s)
    PROVE  PanelOK' /\ (faces' = faces => UNCHANGED panel)
<1> DEFINE next == VisibleFaces(s.hidden)
<1>1. next \in Lists
  BY DEF Lists
<1>2. CASE next = faces
  BY <1>2 DEF SyncFaces, panel, PanelOK
<1>3. CASE next # faces
  <2> DEFINE i == IF Has(next, face) THEN FindIndex(next, face) ELSE 0
  <2>1. ShowFace(next, i)
    BY <1>3 DEF SyncFaces
  <2>2. i \in Nat
    BY <1>1, Found, ListFacts
  <2> HIDE DEF i, next
  <2>3. PanelOK' /\ faces' = next
    BY <1>1, <2>1, <2>2, Shown DEF PanelOK
  <2> QED
    BY <1>3, <2>3
<1> QED
  BY <1>2, <1>3

-------------------------------------------------------------------------------
LEMMA InitTyped == Init => TypeOK
<1> SUFFICES ASSUME Init PROVE TypeOK
  OBVIOUS
<1>1. AllFaces \in Lists /\ Len(AllFaces) \in Nat /\ Len(AllFaces) >= 2
  BY AllFacesIsList, FacesAssumption DEF Lists
<1>2. PanelOK
  BY <1>1 DEF Init, PanelOK
<1>3. hold \in [on : BOOLEAN, calendar : 0..Len(AllFaces)]
  BY <1>1 DEF Init, NoHold
<1>4. returnTo \in 0..(Len(AllFaces) - 1) /\ changes \in 0..MaxChanges
  BY <1>1, NoneAssumption DEF Init
<1>5. answer \in [Requests -> Settings \cup {NoAnswer}] /\ before \in Seq(Titles)
  BY EmptySeq DEF Init
<1> QED
  BY <1>2, <1>3, <1>4, <1>5 DEF Init, TypeOK, PanelOK, Lists

LEMMA TypedPanel ==
    ASSUME TypeOK
    PROVE  /\ PanelOK /\ asleep \in BOOLEAN
           /\ face \in Titles /\ index \in Nat /\ index <= Len(AllFaces) - 1
           /\ Len(faces) \in Nat /\ Len(faces) >= 1 /\ index < Len(faces)
<1>1. PanelOK /\ asleep \in BOOLEAN
  BY DEF TypeOK, PanelOK, Lists
<1> QED
  BY <1>1, PanelFacts

(* TypeOK is PanelOK and the rest, which few actions touch.                *)
RestOK ==
    /\ settings \in Settings /\ changes \in 0..MaxChanges
    /\ answer \in [Requests -> Settings \cup {NoAnswer}]
    /\ style \in {s.style : s \in Settings} \cup {"digital"}
    /\ asleep \in BOOLEAN
    /\ latest \in Events \cup {NoEvent}
    /\ hold \in [on : BOOLEAN, calendar : 0..Len(AllFaces)]
    /\ returnTo \in 0..(Len(AllFaces) - 1)
    /\ before \in Seq(Titles)

LEMMA TypedParts == TypeOK <=> (PanelOK /\ RestOK)
  BY DEF TypeOK, PanelOK, RestOK, Lists

LEMMA PanelStays == ASSUME PanelOK, UNCHANGED panel PROVE PanelOK'
  BY DEF PanelOK, panel

LEMMA HealthArrivesTyped ==
    ASSUME PanelOK, RestOK, NEW q \in Requests, HealthArrives(q)
    PROVE  PanelOK' /\ RestOK'
<1>1. answer[q] \in Settings
  BY DEF HealthArrives, RestOK
<1>2. PanelOK'
  <2>1. CASE ShowFace(faces, index)
    <3>1. index \in Nat /\ faces \in Lists /\ index < Len(faces)
      BY PanelFacts DEF PanelOK
    <3>2. asleep \in BOOLEAN
      BY DEF RestOK
    <3> QED
      BY <2>1, <3>1, <3>2, Shown DEF PanelOK
  <2>2. CASE SyncFaces(answer[q])
    <3>1. asleep \in BOOLEAN
      BY DEF RestOK
    <3> QED
      BY <1>1, <2>2, <3>1, SyncKeepsPanel DEF panel
  <2> QED
    BY <2>1, <2>2 DEF HealthArrives
<1>3. answer' \in [Requests -> Settings \cup {NoAnswer}]
  BY DEF HealthArrives, RestOK
<1>4. style' \in {s.style : s \in Settings}
  BY <1>1 DEF HealthArrives
<1>5. UNCHANGED <<settings, changes, asleep, latest, hold, returnTo, before>>
  BY DEF HealthArrives, urgent
<1> QED
  BY <1>2, <1>3, <1>4, <1>5 DEF RestOK

LEMMA TapTyped ==
    ASSUME PanelOK, RestOK, Tap PROVE PanelOK' /\ RestOK'
<1>1. /\ faces \in Lists /\ index \in Nat /\ asleep \in BOOLEAN
      /\ Len(faces) \in Nat /\ Len(faces) >= 1
  BY PanelFacts DEF PanelOK, RestOK
<1>2. PICK step \in {1, Len(faces) - 1} : ShowFace(faces, index + step)
  BY DEF Tap
<1>3. index + step \in Nat
  BY <1>1
<1>4. PanelOK'
  BY <1>1, <1>2, <1>3, Shown DEF PanelOK
<1>5. UNCHANGED <<settings, changes, answer, style, asleep, latest, hold, returnTo, before>>
  BY DEF Tap, urgent
<1> QED
  BY <1>4, <1>5 DEF RestOK

(* What a hold keeps of the faces: those up to the one on screen.          *)
LEMMA UpToFace ==
    ASSUME PanelOK
    PROVE  /\ SubSeq(faces, 1, index + 1) \in Seq(Titles)
           /\ Len(SubSeq(faces, 1, index + 1)) = index + 1
<1>1. faces \in Seq(Titles) /\ index \in Nat /\ index + 1 \in 1..Len(faces)
  BY ListsAreLists, PanelFacts DEF PanelOK, FaceLists
<1> QED
  BY <1>1, SubSeqProperties

LEMMA UrgentTyped ==
    ASSUME PanelOK, RestOK, NEW e \in Events \cup {NoEvent}, UrgentMessage(e)
    PROVE  /\ PanelOK' /\ RestOK' /\ faces' = faces /\ index' = 1
           /\ hold' = [on |-> TRUE, calendar |-> 1]
<1>1. faces \in Lists /\ Has(faces, "calendar") /\ index \in Nat /\ index <= Len(AllFaces) - 1
  BY PanelFacts DEF PanelOK, UrgentMessage
<1>2. /\ 1 \in 0..(Len(faces) - 1) /\ faces[1 + 1] = "calendar"
      /\ FindIndex(faces, "calendar") = 1
  BY <1>1, Found
<1>3. /\ faces' = faces /\ face' = "calendar" /\ dark' = FALSE
      /\ hold' = [on |-> TRUE, calendar |-> 1] /\ index' = 1
  BY <1>2 DEF UrgentMessage
<1>4. PanelOK'
  BY <1>1, <1>2, <1>3 DEF PanelOK
<1>5. hold' \in [on : BOOLEAN, calendar : 0..Len(AllFaces)] /\ Len(AllFaces) \in Nat
  BY <1>3, AllFacesIsList, FacesAssumption
<1>6. returnTo' \in 0..(Len(AllFaces) - 1)
  BY <1>1, <1>5 DEF UrgentMessage, ReturnTo, RestOK
<1>7. before' \in Seq(Titles) /\ latest' \in Events \cup {NoEvent}
  BY UpToFace DEF UrgentMessage, RestOK
<1>8. UNCHANGED <<settings, changes, answer, style, asleep>>
  BY DEF UrgentMessage
<1> QED
  BY <1>3, <1>4, <1>5, <1>6, <1>7, <1>8 DEF RestOK

LEMMA HoldEndsTyped ==
    ASSUME PanelOK, RestOK, HoldEnds PROVE PanelOK' /\ RestOK'
<1>1. PanelOK'
  <2>1. CASE index = hold.calendar
    <3>1. ShowFace(faces, returnTo) /\ returnTo \in Nat /\ faces \in Lists /\ asleep \in BOOLEAN
      BY <2>1 DEF HoldEnds, RestOK, PanelOK
    <3> QED
      BY <3>1, Shown DEF PanelOK
  <2>2. CASE index # hold.calendar
    BY <2>2, PanelStays DEF HoldEnds
  <2> QED
    BY <2>1, <2>2
<1>2. Len(AllFaces) \in Nat /\ Len(AllFaces) >= 2
  BY AllFacesIsList, FacesAssumption
<1>3. hold' \in [on : BOOLEAN, calendar : 0..Len(AllFaces)] /\ returnTo' \in 0..(Len(AllFaces) - 1)
  BY <1>2 DEF HoldEnds, NoHold
<1>4. before' \in Seq(Titles) /\ UNCHANGED <<settings, changes, answer, style, asleep, latest>>
  BY EmptySeq DEF HoldEnds
<1> QED
  BY <1>1, <1>3, <1>4 DEF RestOK

LEMMA StepTyped == ASSUME PanelOK, RestOK, [Next]_vars PROVE PanelOK' /\ RestOK'
<1>1. ASSUME NEW q \in Requests, PollHealth(q) PROVE PanelOK' /\ RestOK'
  <2>1. answer' \in [Requests -> Settings \cup {NoAnswer}]
    BY <1>1 DEF PollHealth, RestOK
  <2>2. UNCHANGED <<panel, settings, changes, style, asleep, latest, hold, returnTo, before>>
    BY <1>1 DEF PollHealth, urgent
  <2> QED
    BY <2>1, <2>2, PanelStays DEF RestOK
<1>2. ASSUME NEW q \in Requests, HealthArrives(q) PROVE PanelOK' /\ RestOK'
  BY <1>2, HealthArrivesTyped
<1>3. ASSUME NEW q \in Requests, HealthFails(q) PROVE PanelOK' /\ RestOK'
  <2>1. answer' \in [Requests -> Settings \cup {NoAnswer}]
    BY <1>3 DEF HealthFails, RestOK
  <2>2. UNCHANGED <<panel, settings, changes, style, asleep, latest, hold, returnTo, before>>
    BY <1>3 DEF HealthFails, urgent
  <2> QED
    BY <2>1, <2>2, PanelStays DEF RestOK
<1>4. CASE SaveSettings
  <2>1. settings' \in Settings /\ changes' \in 0..MaxChanges
    BY <1>4, NoneAssumption DEF SaveSettings, RestOK
  <2>2. UNCHANGED <<panel, answer, style, asleep, latest, hold, returnTo, before>>
    BY <1>4 DEF SaveSettings, urgent
  <2> QED
    BY <2>1, <2>2, PanelStays DEF RestOK
<1>5. CASE Tap
  BY <1>5, TapTyped
<1>6. CASE HoldEnds
  BY <1>6, HoldEndsTyped
<1>7. ASSUME NEW s \in BOOLEAN, ClockMessage(s) PROVE PanelOK' /\ RestOK'
  <2>1. asleep' \in BOOLEAN /\ dark' \in BOOLEAN
    BY <1>7 DEF ClockMessage, Wake, PanelOK, RestOK
  <2>2. UNCHANGED <<settings, changes, answer, faces, index, face, style, latest, hold, returnTo, before>>
    BY <1>7 DEF ClockMessage, urgent
  <2> QED
    BY <2>1, <2>2 DEF PanelOK, RestOK
<1>8. ASSUME NEW e \in Events \cup {NoEvent}, QuietMessage(e) PROVE PanelOK' /\ RestOK'
  <2>1. latest' \in Events \cup {NoEvent} /\ dark' \in BOOLEAN
    BY <1>8 DEF QuietMessage, Wake, PanelOK, RestOK
  <2>2. UNCHANGED <<settings, changes, answer, faces, index, face, style, asleep, hold, returnTo, before>>
    BY <1>8 DEF QuietMessage
  <2> QED
    BY <2>1, <2>2 DEF PanelOK, RestOK
<1>9. ASSUME NEW e \in Events \cup {NoEvent}, UrgentMessage(e) PROVE PanelOK' /\ RestOK'
  BY <1>9, UrgentTyped
<1>10. CASE UNCHANGED vars
  BY <1>10 DEF vars, panel, urgent, PanelOK, RestOK
<1> QED
  BY <1>1, <1>2, <1>3, <1>4, <1>5, <1>6, <1>7, <1>8, <1>9, <1>10 DEF Next

(* Every variable has its type, and the face on screen is the one          *)
(* currentIndex names in FACES, whatever faces a settings change adds or   *)
(* takes away under it, so that the next tap goes to its neighbour.        *)
THEOREM FacesTypeCorrect == Spec => []TypeOK
<1>1. Init => PanelOK /\ RestOK
  BY InitTyped, TypedParts
<1>2. (PanelOK /\ RestOK) /\ [Next]_vars => (PanelOK /\ RestOK)'
  BY StepTyped
<1> QED
  BY <1>1, <1>2, TypedParts, PTL DEF Spec

-------------------------------------------------------------------------------
(* While a hold runs, it remembers the calendar where it always is, and    *)
(* urgentReturnTo counts the faces up to the interrupted one.              *)
HoldInv ==
    hold.on => hold.calendar = 1 /\ Len(before) = returnTo + 1

LEMMA HoldStep == ASSUME PanelOK, RestOK, HoldInv, [Next]_vars PROVE HoldInv'
<1>1. ASSUME UNCHANGED <<hold, returnTo, before>> PROVE HoldInv'
  BY <1>1 DEF HoldInv
<1>2. ASSUME NEW q \in Requests, PollHealth(q) \/ HealthArrives(q) \/ HealthFails(q) PROVE HoldInv'
  BY <1>1, <1>2 DEF PollHealth, HealthArrives, HealthFails, urgent
<1>3. CASE SaveSettings \/ Tap
  BY <1>1, <1>3 DEF SaveSettings, Tap, urgent
<1>4. CASE HoldEnds
  BY <1>4 DEF HoldEnds, NoHold, HoldInv
<1>5. ASSUME NEW s \in BOOLEAN, ClockMessage(s) PROVE HoldInv'
  BY <1>1, <1>5 DEF ClockMessage, urgent
<1>6. ASSUME NEW e \in Events \cup {NoEvent}, QuietMessage(e) PROVE HoldInv'
  BY <1>1, <1>6 DEF QuietMessage
<1>7. ASSUME NEW e \in Events \cup {NoEvent}, UrgentMessage(e) PROVE HoldInv'
  <2>1. hold' = [on |-> TRUE, calendar |-> 1]
    BY <1>7, UrgentTyped
  <2>2. CASE hold.on
    BY <1>7, <2>1, <2>2 DEF UrgentMessage, ReturnTo, HoldInv
  <2>3. CASE ~hold.on
    <3>1. returnTo' = index /\ before' = SubSeq(faces, 1, index + 1)
      BY <1>7, <2>3 DEF UrgentMessage, ReturnTo
    <3> QED
      BY <2>1, <3>1, UpToFace DEF HoldInv
  <2> QED
    BY <2>2, <2>3
<1>8. CASE UNCHANGED vars
  BY <1>1, <1>8 DEF vars, urgent
<1> QED
  BY <1>2, <1>3, <1>4, <1>5, <1>6, <1>7, <1>8 DEF Next

(* When a hold's timer fires on the calendar, the panel shows again the    *)
(* face the hold interrupted, however many urgent events followed each     *)
(* other and whatever faces came or went behind it; a viewer on another    *)
(* face stays there while the calendar is among the faces.                 *)
THEOREM FacesReturnsToBefore == Spec => ReturnsToBefore
<1> DEFINE HI == PanelOK /\ RestOK /\ HoldInv
           Returns == (hold.on /\ ~hold'.on) =>
                        /\ face = "calendar" /\ StillInPlace => face' = Interrupted
                        /\ face # "calendar" /\ Has(faces, "calendar") => face' = face
<1>1. Init => HI
  BY InitTyped, TypedParts DEF Init, NoHold, HoldInv
<1>2. HI /\ [Next]_vars => HI'
  BY StepTyped, HoldStep
<1>3. HI /\ [Next]_vars => [Returns]_vars
  <2> SUFFICES ASSUME HI, Next, hold.on, ~hold'.on
               PROVE  /\ face = "calendar" /\ StillInPlace => face' = Interrupted
                      /\ face # "calendar" /\ Has(faces, "calendar") => face' = face
    OBVIOUS
  <2>1. HoldEnds
    <3>1. ASSUME NEW e \in Events \cup {NoEvent}, UrgentMessage(e) PROVE FALSE
      BY <3>1 DEF UrgentMessage
    <3>2. ASSUME UNCHANGED hold PROVE FALSE
      BY <3>2
    <3> QED
      BY <3>1, <3>2 DEF Next, PollHealth, HealthArrives, HealthFails, SaveSettings, Tap,
                        ClockMessage, QuietMessage, urgent
  <2>2. /\ faces \in Lists /\ asleep \in BOOLEAN /\ returnTo \in Nat
        /\ hold.calendar = 1 /\ Len(before) = returnTo + 1
        /\ face = faces[index + 1] /\ index \in 0..(Len(faces) - 1) /\ Len(faces) \in Nat
    BY PanelFacts DEF PanelOK, RestOK, HoldInv
  <2>3. ASSUME face = "calendar", StillInPlace PROVE face' = Interrupted
    <3>1. index = hold.calendar
      <4>1. index + 1 \in 1..Len(faces)
        BY <2>2
      <4>2. index + 1 = 2
        BY <2>2, <2>3, <4>1, ListFacts
      <4> QED
        BY <2>2, <4>2
    <3>2. ShowFace(faces, returnTo)
      BY <2>1, <3>1 DEF HoldEnds
    <3>3. returnTo < Len(faces) /\ before = SubSeq(faces, 1, returnTo + 1)
      BY <2>2, <2>3 DEF StillInPlace
    <3>4. face' = faces[returnTo + 1]
      BY <2>2, <3>2, <3>3, Shown
    <3>5. before[returnTo + 1] = faces[returnTo + 1]
      <4>1. faces \in Seq(Titles) /\ returnTo + 1 \in 1..Len(faces)
        BY <2>2, <3>3, ListsAreLists DEF FaceLists
      <4> QED
        BY <3>3, <4>1, SubSeqProperties
    <3> QED
      BY <2>2, <3>4, <3>5 DEF Interrupted
  <2>4. ASSUME face # "calendar", Has(faces, "calendar") PROVE face' = face
    <3>1. faces[FindIndex(faces, "calendar") + 1] = "calendar" /\ FindIndex(faces, "calendar") = 1
      BY <2>2, <2>4, Found
    <3>2. index # hold.calendar
      BY <2>2, <2>4, <3>1
    <3> QED
      BY <2>1, <3>2 DEF HoldEnds, panel
  <2> QED
    BY <2>3, <2>4
<1> HIDE DEF HI
<1> QED
  BY <1>1, <1>2, <1>3, PTL DEF Spec, ReturnsToBefore
===============================================================================
