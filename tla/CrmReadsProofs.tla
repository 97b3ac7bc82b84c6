--------------------------- MODULE CrmReadsProofs ---------------------------
(***************************************************************************)
(* IndInv is an inductive invariant of CrmReads, for any questions, any    *)
(* records, any pages and limits and any number of changes by others.      *)
(* What is shown follows from it.                                          *)
(***************************************************************************)
EXTENDS CrmReads, FiniteSetTheorems, WellFoundedInduction, TLAPS

-----------------------------------------------------------------------------
(* Finite sets in an order.  R is the set of the pairs <<before, after>>.  *)

Orders(R, S) ==
  /\ \A x \in S : <<x, x>> \notin R
  /\ \A x, y, z \in S : <<x, y>> \in R /\ <<y, z>> \in R => <<x, z>> \in R

\* What comes before x.
Below(x, S, R) == {y \in S : <<y, x>> \in R}

\* LEMMA: how many come before x is a number, which grows with x.
LEMMA Ranks ==
  ASSUME NEW S, IsFiniteSet(S), NEW R, Orders(R, S), NEW x \in S
  PROVE  /\ IsFiniteSet(Below(x, S, R)) /\ Cardinality(Below(x, S, R)) \in Nat
         /\ Cardinality(Below(x, S, R)) < Cardinality(S) /\ Cardinality(S) \in Nat
         /\ \A y \in S : <<y, x>> \in R =>
              Cardinality(Below(y, S, R)) < Cardinality(Below(x, S, R))
<1>1. Below(x, S, R) \in SUBSET S
  BY DEF Below
<1>2. IsFiniteSet(Below(x, S, R)) /\ Cardinality(Below(x, S, R)) \in Nat /\ Cardinality(S) \in Nat
  BY <1>1, FS_Subset, FS_CardinalityType
<1>3. Cardinality(Below(x, S, R)) < Cardinality(S)
  <2>1. Cardinality(Below(x, S, R)) <= Cardinality(S) /\ Below(x, S, R) # S
    BY <1>1, FS_Subset DEF Below, Orders
  <2>2. Cardinality(S) # Cardinality(Below(x, S, R))
    BY <1>1, <2>1, FS_Subset
  <2> QED
    BY <1>2, <2>1, <2>2
<1>4. ASSUME NEW y \in S, <<y, x>> \in R
      PROVE  Cardinality(Below(y, S, R)) < Cardinality(Below(x, S, R))
  <2>1. /\ Below(y, S, R) \in SUBSET Below(x, S, R)
        /\ y \in Below(x, S, R) /\ y \notin Below(y, S, R)
    BY <1>4 DEF Below, Orders
  <2>2. /\ Cardinality(Below(y, S, R)) <= Cardinality(Below(x, S, R))
        /\ Cardinality(Below(x, S, R)) # Cardinality(Below(y, S, R))
    BY <1>2, <2>1, FS_Subset
  <2>3. Cardinality(Below(y, S, R)) \in Nat
    BY <1>2, <2>1, FS_Subset, FS_CardinalityType
  <2> QED
    BY <1>2, <2>2, <2>3
<1> QED
  BY <1>2, <1>3, <1>4

\* LEMMA: a finite set in an order has a first element.
LEMMA FirstExists ==
  ASSUME NEW S, IsFiniteSet(S), NEW R, Orders(R, S), S # {}
  PROVE  \E x \in S : \A y \in S : <<y, x>> \notin R
<1> DEFINE Counts == {Cardinality(Below(x, S, R)) : x \in S}
<1>1. Counts \subseteq Nat /\ Counts # {}
  BY Ranks
<1>2. PICK n \in Counts : \A k \in Counts : ~(<<k, n>> \in OpToRel(<, Nat))
  BY <1>1, WFMin, NatLessThanWellFounded
<1>3. \A k \in Counts : ~(k < n)
  BY <1>1, <1>2 DEF OpToRel
<1>4. PICK x \in S : n = Cardinality(Below(x, S, R))
  BY <1>2
<1> QED
  BY <1>3, <1>4, Ranks

\* LEMMA: so the first n of a set are n, if there are as many, and before the others.
LEMMA FirstOnes ==
  ASSUME NEW S, IsFiniteSet(S), NEW R, Orders(R, S), NEW n \in Nat,
         \A x, y \in S : x = y \/ <<x, y>> \in R \/ <<y, x>> \in R,
         NEW F \in SUBSET S, \A x \in S : x \in F <=> Cardinality(Below(x, S, R)) < n
  PROVE  /\ IsFiniteSet(F)
         /\ Cardinality(S) <= n => F = S
         /\ Cardinality(S) >= n => Cardinality(F) = n
         /\ \A x \in F, y \in S \ F : <<x, y>> \in R
<1>1. F \in SUBSET S /\ IsFiniteSet(F) /\ Cardinality(F) \in Nat /\ Cardinality(S) \in Nat
  BY FS_Subset, FS_CardinalityType
<1>2. ASSUME Cardinality(S) <= n
      PROVE  F = S
  <2>1. \A x \in S : Cardinality(Below(x, S, R)) < n
    BY <1>1, <1>2, Ranks
  <2> QED
    BY <2>1
<1>3. ASSUME NEW x \in F, NEW y \in S \ F
      PROVE  <<x, y>> \in R
  <2>1. ~(Cardinality(Below(y, S, R)) < n) /\ Cardinality(Below(y, S, R)) \in Nat
    BY Ranks
  <2>2. <<y, x>> \notin R
    <3>1. ASSUME <<y, x>> \in R
          PROVE  FALSE
      <4>1. Cardinality(Below(y, S, R)) < Cardinality(Below(x, S, R))
        BY <1>1, <3>1, Ranks
      <4>2. Cardinality(Below(x, S, R)) < n /\ Cardinality(Below(x, S, R)) \in Nat
        BY <1>1, Ranks
      <4> QED
        BY <2>1, <4>1, <4>2
    <3> QED
      BY <3>1
  <2> QED
    BY <1>1, <1>3, <2>2
<1>4. Cardinality(F) <= n
  <2>1. CASE F = {}
    BY <2>1, FS_EmptySet
  <2>2. CASE F # {}
    <3> DEFINE Q == {p \in S \X S : <<p[2], p[1]>> \in R}
    <3>1. Orders(Q, F)
      BY <1>1 DEF Orders
    <3>2. PICK x \in F : \A y \in F : <<y, x>> \notin Q
      BY <1>1, <2>2, <3>1, FirstExists
    <3>3. \A y \in F : y = x \/ <<y, x>> \in R
      BY <1>1, <3>2
    <3>4. F \ {x} \in SUBSET Below(x, S, R)
      BY <1>1, <3>3 DEF Below
    <3>5. Cardinality(F \ {x}) <= Cardinality(Below(x, S, R))
      BY <1>1, <3>4, Ranks, FS_Subset
    <3>6. Cardinality(F \ {x}) = Cardinality(F) - 1
      BY <1>1, FS_RemoveElement
    <3>7. Cardinality(Below(x, S, R)) < n /\ Cardinality(Below(x, S, R)) \in Nat
      BY <1>1, Ranks
    <3> QED
      BY <1>1, <3>5, <3>6, <3>7
  <2> QED
    BY <2>1, <2>2
<1>5. ASSUME Cardinality(S) >= n
      PROVE  Cardinality(F) >= n
  <2>1. CASE F = S
    BY <1>5, <2>1
  <2>2. CASE F # S
    <3>1. IsFiniteSet(S \ F) /\ S \ F # {}
      BY <1>1, <2>2, FS_Difference
    <3>2. Orders(R, S \ F)
      BY DEF Orders
    <3>3. PICK y \in S \ F : \A z \in S \ F : <<z, y>> \notin R
      BY <3>1, <3>2, FirstExists
    <3>4. Below(y, S, R) \in SUBSET F
      BY <3>3 DEF Below
    <3>5. Cardinality(Below(y, S, R)) <= Cardinality(F)
      BY <1>1, <3>4, FS_Subset
    <3>6. ~(Cardinality(Below(y, S, R)) < n) /\ Cardinality(Below(y, S, R)) \in Nat
      BY Ranks
    <3> QED
      BY <1>1, <3>5, <3>6
  <2> QED
    BY <2>1, <2>2
<1> QED
  BY <1>1, <1>2, <1>3, <1>4, <1>5

\* LEMMA: a finite set of numbers has a greatest, and Max is it.
LEMMA MaxIsGreatest ==
  ASSUME NEW S \in SUBSET Nat, IsFiniteSet(S), S # {}
  PROVE  Max(S) \in S /\ \A x \in S : Max(S) >= x
<1> DEFINE Q == {p \in S \X S : p[1] > p[2]}
<1>1. Orders(Q, S)
  BY DEF Orders
<1>2. PICK x \in S : \A y \in S : <<y, x>> \notin Q
  BY <1>1, FirstExists
<1>3. \A y \in S : ~(y > x)
  BY <1>2
<1>4. \A y \in S : x >= y
  BY <1>3
<1> QED
  BY <1>4 DEF Max

\* LEMMA: the page count stays where it may be.
LEMMA MinOfTwo ==
  ASSUME NEW a \in Int, NEW b \in Int
  PROVE  Min({a, b}) = IF a <= b THEN a ELSE b
<1>1. \A x \in {a, b} : (\A y \in {a, b} : x <= y) => x = IF a <= b THEN a ELSE b
  OBVIOUS
<1>2. \E x \in {a, b} : \A y \in {a, b} : x <= y
  OBVIOUS
<1> QED
  BY <1>1, <1>2 DEF Min

-----------------------------------------------------------------------------
(* The pages that HubSpot may return.                                      *)

\* LEMMA: the records there are, and any of them, are finitely many.
LEMMA LiveIsFinite ==
  /\ IsFiniteSet(Ids) /\ Ids \subseteq Nat /\ Live \in SUBSET Ids
  /\ \A S \in SUBSET Ids : IsFiniteSet(S) /\ Cardinality(S) \in Nat
BY ReadsAssumption, FS_Subset, FS_CardinalityType DEF Live

\* LEMMA: a listing's page is the next of the records behind the cursor.
LEMMA ListPageFacts ==
  ASSUME TypeOK, NEW page \in ListPages
  PROVE  /\ page = [ids |-> page.ids, next |-> page.next]
         /\ page.ids \in SUBSET Live
         /\ \A i \in page.ids : i > after /\ Linked(crm[i])
         /\ \/ /\ page.next = None
               /\ \A i \in Live : i > after /\ Linked(crm[i]) => i \in page.ids
            \/ /\ page.next \in Nat /\ page.next \in Ids
               /\ \A i \in page.ids : i <= page.next
               /\ \A i \in Live : i > after /\ i <= page.next /\ Linked(crm[i]) => i \in page.ids
               /\ page.next >= after
<1> DEFINE rest == {i \in Live : i > after /\ Linked(crm[i])}
<1>1. PICK ids \in Prefixes(rest) :
        page = [ids |-> ids, next |-> IF ids = rest THEN None ELSE Max(ids)]
  BY DEF ListPages
<1>2. /\ ids \in SUBSET rest /\ (ids = {} => rest = {})
      /\ \A i \in ids, j \in rest \ ids : i < j
  BY DEF Prefixes
<1>3. rest \in SUBSET Live
  OBVIOUS
<1> HIDE DEF rest
<1>4. CASE ids = rest
  BY <1>1, <1>2, <1>3, <1>4 DEF rest
<1>5. CASE ids # rest
  <2>1. ids \in SUBSET Nat /\ IsFiniteSet(ids) /\ ids # {}
    BY <1>2, <1>3, <1>5, LiveIsFinite
  <2>2. Max(ids) \in ids /\ \A i \in ids : Max(ids) >= i
    BY <2>1, MaxIsGreatest
  <2>3. page.next = Max(ids) /\ page.ids = ids
    BY <1>1, <1>5
  <2>4. Max(ids) \in Nat /\ Max(ids) \in rest /\ Max(ids) \in Ids
    BY <1>2, <1>3, <2>1, <2>2, LiveIsFinite
  <2>5. \A i \in ids : i > after /\ Linked(crm[i]) /\ i \in Nat /\ i \in Live
    BY <1>2, <1>3, <2>1 DEF rest
  <2>6. ASSUME NEW i \in Live, i > after, i <= Max(ids), Linked(crm[i])
        PROVE  i \in ids
    <3>1. i \in rest /\ i \in Nat
      BY <2>6, LiveIsFinite DEF rest
    <3>2. i \in rest \ ids => Max(ids) < i
      BY <1>2, <2>2
    <3> QED
      BY <2>4, <2>6, <3>1, <3>2
  <2>7. Max(ids) >= after
    BY <2>2, <2>5, <2>4 DEF TypeOK, ReadTypes
  <2> QED
    BY <1>1, <1>5, <2>2, <2>3, <2>4, <2>5, <2>6, <2>7
<1> QED
  BY <1>4, <1>5

\* LEMMA: a search's page holds matches, of now or of before.
LEMMA SearchPageFacts ==
  ASSUME TypeOK, NEW page \in SearchPages
  PROVE  /\ page = [ids |-> page.ids, next |-> page.next]
         /\ page.ids \in SUBSET Live
         /\ page.next \in Nat \cup {None}
         /\ \A i \in page.ids : \E r \in past[i] \cup {crm[i]} : r # Gone /\ Hit(r)
<1> DEFINE now == {i \in Live : Hit(crm[i])}
           ever == {i \in Live : \E r \in past[i] \ {Gone} : Hit(r)}
           Left(hits) == {i \in hits : Cardinality({j \in hits : j < i}) >= after}
<1>1. PICK hits \in {now, ever} : \E ids \in Prefixes(Left(hits)) :
        page = [ids |-> ids,
                next |-> IF ids = Left(hits) THEN None ELSE after + Cardinality(ids)]
  BY DEF SearchPages
<1>2. PICK ids \in Prefixes(Left(hits)) :
        page = [ids |-> ids,
                next |-> IF ids = Left(hits) THEN None ELSE after + Cardinality(ids)]
  BY <1>1
<1>3. ids \in SUBSET Left(hits)
  BY DEF Prefixes
<1>4. ids \in SUBSET hits /\ hits \in SUBSET Live
  BY <1>3
<1>5. after + Cardinality(ids) \in Nat
  BY <1>4, LiveIsFinite DEF TypeOK, ReadTypes
<1>6. \A i \in hits : \E r \in past[i] \cup {crm[i]} : r # Gone /\ Hit(r)
  BY DEF Live
<1> HIDE DEF now, ever, Left
<1> QED
  BY <1>2, <1>4, <1>5, <1>6

\* LEMMA: whatever the question, a page holds records that are there.
LEMMA PageFacts ==
  ASSUME TypeOK, NEW page \in Pages
  PROVE  /\ page = [ids |-> page.ids, next |-> page.next]
         /\ page.ids \in SUBSET Live
         /\ page.next \in Nat \cup {None}
<1>1. CASE page \in TheRecord
  BY <1>1 DEF TheRecord
<1>2. CASE page \in SearchPages
  BY <1>2, SearchPageFacts
<1>3. CASE page \in ListPages
  BY <1>3, ListPageFacts
<1> QED
  BY <1>1, <1>2, <1>3 DEF Pages

-----------------------------------------------------------------------------
(* Entries.                                                                *)

IsEntry(e) == e = [page |-> e.page, id |-> e.id, rec |-> e.rec]
OfOneEach(S) == \A e, f \in S : e.id = f.id => e = f

\* LEMMA: entries of different records are finitely many.
LEMMA EntriesAreFinite ==
  ASSUME NEW S, \A e \in S : e.id \in Ids, OfOneEach(S)
  PROVE  IsFiniteSet(S) /\ Cardinality(S) \in Nat
<1> DEFINE idOf == [e \in S |-> e.id]
<1>1. idOf \in [S -> Ids]
  OBVIOUS
<1>2. \A e, f \in S : idOf[e] = idOf[f] => e = f
  BY DEF OfOneEach
<1> HIDE DEF idOf
<1>3. idOf \in Injection(S, Ids)
  BY <1>1, <1>2 DEF Injection, IsInjective
<1> QED
  BY <1>3, LiveIsFinite, FS_Injection, FS_CardinalityType

\* LEMMA: the n entries read first are n, or all there are.
LEMMA FirstRead ==
  ASSUME NEW S, \A e \in S : e.id \in Ids /\ e.page \in Nat, OfOneEach(S), NEW n \in Nat,
         NEW F, F = ReadFirst(n, S)
  PROVE  /\ F \subseteq S
         /\ Cardinality(S) <= n => F = S
         /\ Cardinality(S) >= n => Cardinality(F) = n
<1> DEFINE R == {p \in S \X S : ReadBefore(p[1], p[2])}
<1>1. \A e, f \in S : <<e, f>> \in R <=> ReadBefore(e, f)
  OBVIOUS
<1>2. \A e \in S : e.id \in Nat /\ e.page \in Nat
  BY LiveIsFinite
<1> HIDE DEF R
<1>3. Orders(R, S)
  BY <1>1, <1>2 DEF Orders, ReadBefore
<1>4. ASSUME NEW e \in S, NEW f \in S, e # f
      PROVE  <<e, f>> \in R \/ <<f, e>> \in R
  <2>1. e.id # f.id
    BY <1>4 DEF OfOneEach
  <2> QED
    BY <1>1, <1>2, <2>1 DEF ReadBefore
<1>5. \A e \in S : Below(e, S, R) = {f \in S : ReadBefore(f, e)}
  BY <1>1 DEF Below
<1>6. F \in SUBSET S /\ \A e \in S : e \in F <=> Cardinality(Below(e, S, R)) < n
  BY <1>5 DEF ReadFirst
<1>7. IsFiniteSet(S)
  BY EntriesAreFinite
<1> QED
  BY <1>3, <1>4, <1>6, <1>7, FirstOnes

\* LEMMA: an answer is to the question that was asked.
LEMMA SameQuestion ==
  ASSUME question' = question
  PROVE  /\ Filtered' = Filtered /\ Filtering' = Filtering /\ Searching' = Searching
         /\ Single' = Single
         /\ \A r : Linked(r)' = Linked(r) /\ Hit(r)' = Hit(r) /\ Meant(r)' = Meant(r)
         /\ \A r : Belongs(r)' = Belongs(r)
         /\ \A r : Asked(r)' = Asked(r) /\ Concerns(r)' = Concerns(r)
         /\ \A i : Records(i)' = Records(i)
         /\ \A e, f : Before(e, f)' = Before(e, f)
<1>1. /\ Filtered' = Filtered /\ Filtering' = Filtering /\ Searching' = Searching
      /\ Single' = Single
  BY DEF Filtered, Filtering, Searching, Single
<1>2. \A r : Linked(r)' = Linked(r) /\ Hit(r)' = Hit(r) /\ Belongs(r)' = Belongs(r)
  BY DEF Linked, Hit, Belongs
<1>3. \A r : Meant(r)' = Meant(r)
  BY <1>1, <1>2 DEF Meant
<1>4. \A r : Asked(r)' = Asked(r)
  BY <1>1 DEF Asked
<1>5. \A r : Concerns(r)' = Concerns(r)
  BY <1>1 DEF Concerns
<1>6. \A i : Records(i)' = Records(i)
  BY DEF Records
<1>7. \A e, f : Before(e, f)' = Before(e, f)
  BY <1>1 DEF Before, Better, Earlier
<1> QED
  BY <1>1, <1>2, <1>3, <1>4, <1>5, <1>6, <1>7

\* LEMMA: so are the entries selected from the same ones.
LEMMA SameSelection ==
  ASSUME question' = question, got' = got
  PROVE  Selection' = Selection /\ (shown' = shown => ToComplete' = ToComplete)
<1>1. Selection' = Selection
  BY DEF Selection, BestLeads, First, Before, Better, Earlier, ReadBefore, Filtered, Concerns
<1> QED
  BY <1>1 DEF ToComplete

\* LEMMA: what is selected is of what was read.
LEMMA SelectionIsRead == Selection \subseteq got
BY DEF Selection, BestLeads, First

-----------------------------------------------------------------------------
(* Steps that read nothing: the invariant of what was read goes on.        *)

\* LEMMA: what was read stays right while nothing is read.
LEMMA NothingRead ==
  ASSUME IndInv, reply = "none", UNCHANGED <<crmVars, question, pageVars, glitched>>,
         question.kind = "account_summary" => rows' = rows /\ ~Answered'
  PROVE  ReadInv'
<1> USE DEF IndInv, ReadInv, crmVars, pageVars
<1>1. CrmInv'
  BY SameQuestion DEF CrmInv
<1>2. (\A e \in got : EntryInv(e))'
  BY SameQuestion DEF EntryInv, WasSo
<1>3. SingleInv'
  BY SameQuestion DEF SingleInv
<1>4. ListInv'
  BY SameQuestion DEF ListInv, OneEntryEach, Untouched
<1>5. SearchInv'
  <2>1. Hits' = Hits
    BY SameQuestion DEF Hits, Live
  <2>2. OneEntryEach' = OneEntryEach
    BY DEF OneEntryEach
  <2> QED
    BY <2>1, <2>2, SameQuestion DEF SearchInv
<1>6. LeadInv'
  BY DEF LeadInv
<1>7. BelongInv'
  BY SameQuestion DEF BelongInv, Key
<1> QED
  BY <1>1, <1>2, <1>3, <1>4, <1>5, <1>6, <1>7

\* LEMMA: the types of what was read stay while nothing is read.
LEMMA SameTypes ==
  ASSUME TypeOK, UNCHANGED <<crmVars, question, pageVars, glitched>>
  PROVE  ReadTypes'
<1> USE DEF TypeOK, ReadTypes, crmVars, pageVars
<1>1. (/\ crm \in [Ids -> (UNION {Records(i) : i \in Ids}) \cup {Gone}]
       /\ past \in [Ids -> SUBSET ((UNION {Records(i) : i \in Ids}) \cup {Gone})])'
  BY DEF Records
<1>2. (\A e \in got : e.page \in 1 .. MaxLoops + 1 /\ e.id \in Ids)'
  OBVIOUS
<1> QED
  BY <1>1, <1>2

\* LEMMA: what was chosen stays chosen.
LEMMA ShownKept ==
  ASSUME ShownInv, UNCHANGED <<question, got, shown>>, Chosen' => Chosen
  PROVE  ShownInv'
BY SameQuestion, SameSelection DEF ShownInv

\* LEMMA: beginning keeps the invariant.
LEMMA BeginKeeps == IndInv /\ Begin => IndInv'
<1> SUFFICES ASSUME IndInv, Begin
             PROVE  IndInv'
  OBVIOUS
<1>0. reply = "none" /\ shown = {} /\ TypeOK /\ PhaseInv
  BY DEF IndInv, AnswerInv, Begin, TypeOK, AnswerTypes, PhaseInv
<1>1. ReadInv'
  BY <1>0, NothingRead DEF Begin, Answer, Answered, answerVars
<1> USE DEF crmVars, pageVars, answerVars, Answer
<1>2. TypeOK'
  <2>1. ReadTypes'
    BY <1>0, SameTypes DEF Begin
  <2>2. AnswerTypes'
    BY <1>0 DEF TypeOK, Begin, AnswerTypes, Replies, Key
  <2> QED
    BY <2>1, <2>2 DEF TypeOK
<1>3. PhaseInv'
  BY <1>0, SameQuestion DEF Begin, PhaseInv, Chosen, Answered
<1>4. FilterInv'
  BY <1>0, SameQuestion DEF Begin, FilterInv, IndInv, AnswerInv
<1>5. ShownInv' /\ ReportSaysPartial'
  BY <1>0 DEF Begin, ShownInv, ReportSaysPartial, Chosen, Answered, PhaseInv
<1> QED
  BY <1>1, <1>2, <1>3, <1>4, <1>5 DEF IndInv, AnswerInv

\* LEMMA: so does a call that fails.
LEMMA CallFailsKeeps == IndInv /\ CallFails => IndInv'
<1> SUFFICES ASSUME IndInv, CallFails
             PROVE  IndInv'
  OBVIOUS
<1>0. reply = "none" /\ TypeOK /\ PhaseInv
  BY DEF IndInv, AnswerInv, CallFails, TypeOK, AnswerTypes
<1>1. ReadInv'
  BY <1>0, NothingRead DEF CallFails, Answer, Answered, answerVars
<1> USE DEF crmVars, pageVars, answerVars, Answer
<1>2. TypeOK'
  <2>1. ReadTypes'
    BY <1>0, SameTypes DEF CallFails
  <2>2. AnswerTypes'
    BY <1>0 DEF TypeOK, CallFails, AnswerTypes, Replies, Key
  <2> QED
    BY <2>1, <2>2 DEF TypeOK
<1>3. PhaseInv'
  BY <1>0, SameQuestion DEF CallFails, PhaseInv, Chosen, Answered
<1>4. FilterInv'
  BY <1>0, SameQuestion DEF CallFails, FilterInv, IndInv, AnswerInv
<1>5. ShownInv' /\ ReportSaysPartial'
  BY <1>0, SameQuestion DEF CallFails, ShownInv, ReportSaysPartial, Chosen, Answered, IndInv, AnswerInv
<1> QED
  BY <1>1, <1>2, <1>3, <1>4, <1>5 DEF IndInv, AnswerInv

\* LEMMA: so does reading the pipelines.
LEMMA ReadPipelinesKeeps == IndInv /\ ReadPipelines => IndInv'
<1> SUFFICES ASSUME IndInv, ReadPipelines
             PROVE  IndInv'
  OBVIOUS
<1>0. reply = "none" /\ TypeOK /\ AnswerInv
  BY DEF IndInv, ReadPipelines, TypeOK, AnswerTypes
<1>1. ReadInv'
  BY <1>0, NothingRead DEF ReadPipelines, Answer, Answered, answerVars
<1> USE DEF crmVars, pageVars, answerVars, Answer, AnswerInv
<1>2. TypeOK'
  <2>1. ReadTypes'
    BY <1>0, SameTypes DEF ReadPipelines
  <2>2. AnswerTypes'
    BY <1>0 DEF TypeOK, ReadPipelines, AnswerTypes, Replies, Key
  <2> QED
    BY <2>1, <2>2 DEF TypeOK
<1>3. PhaseInv'
  BY <1>0, SameQuestion DEF ReadPipelines, PhaseInv, Chosen, Answered
<1>4. FilterInv'
  BY <1>0, SameQuestion DEF ReadPipelines, FilterInv
<1>5. ShownInv'
  BY <1>0, ShownKept DEF ReadPipelines, Chosen, Answered, PhaseInv
<1>6. ReportSaysPartial'
  BY <1>0 DEF ReadPipelines, ReportSaysPartial, Answered, PhaseInv
<1> QED
  BY <1>1, <1>2, <1>3, <1>4, <1>5, <1>6 DEF IndInv

\* LEMMA: so do the links to HubSpot.
LEMMA LinkKeeps == IndInv /\ Link => IndInv'
<1> SUFFICES ASSUME IndInv, Link
             PROVE  IndInv'
  OBVIOUS
<1>0. reply = "none" /\ TypeOK /\ AnswerInv
  BY DEF IndInv, Link, TypeOK, AnswerTypes
<1>1. ReadInv'
  BY <1>0, NothingRead DEF Link, AnswerInv, PhaseInv, Tables, StatusLists, Searches, Related, Details
<1> USE DEF crmVars, pageVars, answerVars, Answer, AnswerInv
<1>2. TypeOK'
  <2>1. ReadTypes'
    BY <1>0, SameTypes DEF Link
  <2>2. AnswerTypes'
    BY <1>0 DEF TypeOK, Link, AnswerTypes, Replies, Key
  <2> QED
    BY <2>1, <2>2 DEF TypeOK
<1>3. PhaseInv'
  BY <1>0, SameQuestion DEF Link, PhaseInv, Chosen, Answered
<1>4. FilterInv'
  BY <1>0, SameQuestion DEF Link, FilterInv
<1>5. ShownInv'
  BY <1>0, ShownKept DEF Link, Chosen, Answered, PhaseInv
<1>6. ReportSaysPartial'
  BY <1>0 DEF Link, ReportSaysPartial, Answered, PhaseInv
<1> QED
  BY <1>1, <1>2, <1>3, <1>4, <1>5, <1>6 DEF IndInv

\* LEMMA: so does concluding.
LEMMA ConcludeKeeps == IndInv /\ Conclude => IndInv'
<1> SUFFICES ASSUME IndInv, Conclude
             PROVE  IndInv'
  OBVIOUS
<1>0. reply = "none" /\ TypeOK /\ AnswerInv
  BY DEF IndInv, Conclude, TypeOK, AnswerTypes
<1>1. ReadInv'
  BY <1>0, NothingRead DEF Conclude, AnswerInv, PhaseInv, Tables, StatusLists, Searches, Related, Details
<1> USE DEF crmVars, pageVars, answerVars, Answer, AnswerInv
<1>2. TypeOK'
  <2>1. ReadTypes'
    BY <1>0, SameTypes DEF Conclude
  <2>2. AnswerTypes'
    BY <1>0 DEF TypeOK, Conclude, Outcome, AnswerTypes, Replies, Key
  <2> QED
    BY <2>1, <2>2 DEF TypeOK
<1>3. PhaseInv'
  BY <1>0, SameQuestion DEF Conclude, PhaseInv, Chosen, Answered
<1>4. FilterInv'
  BY <1>0, SameQuestion DEF Conclude, FilterInv
<1>5. ShownInv'
  BY <1>0, ShownKept DEF Conclude, Chosen, Answered, PhaseInv
<1>6. ReportSaysPartial'
  BY <1>0 DEF Conclude, Outcome, ReportSaysPartial, Answered, TypeOK, AnswerTypes
<1> QED
  BY <1>1, <1>2, <1>3, <1>4, <1>5, <1>6 DEF IndInv

\* LEMMA: so does raising.
LEMMA RowRaisesKeeps ==
  ASSUME IndInv, NEW e \in got, RowRaises(e)
  PROVE  IndInv'
<1>0. reply = "none" /\ TypeOK /\ AnswerInv
  BY DEF IndInv, RowRaises, TypeOK, AnswerTypes
<1>1. ReadInv'
  BY <1>0, NothingRead DEF RowRaises, AnswerInv, PhaseInv, Tables, StatusLists, Searches, Related, Details
<1> USE DEF crmVars, pageVars, answerVars, Answer, AnswerInv
<1>2. TypeOK'
  <2>1. ReadTypes'
    BY <1>0, SameTypes DEF RowRaises
  <2>2. AnswerTypes'
    BY <1>0 DEF TypeOK, RowRaises, AnswerTypes, Replies, Key
  <2> QED
    BY <2>1, <2>2 DEF TypeOK
<1>3. PhaseInv'
  BY <1>0, SameQuestion DEF RowRaises, PhaseInv, Chosen, Answered
<1>4. FilterInv'
  BY <1>0, SameQuestion DEF RowRaises, FilterInv
<1>5. ShownInv'
  BY <1>0, ShownKept DEF RowRaises, Chosen, Answered, PhaseInv
<1>6. ReportSaysPartial'
  BY <1>0 DEF RowRaises, ReportSaysPartial, Answered, PhaseInv
<1> QED
  BY <1>1, <1>2, <1>3, <1>4, <1>5, <1>6 DEF IndInv

\* LEMMA: so does the AI.
LEMMA AssessKeeps ==
  ASSUME IndInv, NEW e \in got, Assess(e)
  PROVE  IndInv'
<1>0. reply = "none" /\ TypeOK /\ AnswerInv
  BY DEF IndInv, Assess, TypeOK, AnswerTypes
<1>1. ReadInv'
  BY <1>0, NothingRead DEF Assess, AnswerInv, PhaseInv, Tables, StatusLists, Searches, Related, Details
<1> USE DEF crmVars, pageVars, answerVars, Answer, AnswerInv
<1>2. TypeOK'
  <2>1. ReadTypes'
    BY <1>0, SameTypes DEF Assess
  <2>2. AnswerTypes'
    BY <1>0 DEF TypeOK, Assess, AnswerTypes, Replies, Key
  <2> QED
    BY <2>1, <2>2 DEF TypeOK
<1>3. PhaseInv'
  BY <1>0, SameQuestion DEF Assess, PhaseInv, Chosen, Answered
<1>4. FilterInv'
  BY <1>0, SameQuestion DEF Assess, FilterInv
<1>5. ShownInv'
  BY <1>0, ShownKept DEF Assess, Chosen, Answered, PhaseInv
<1>6. ReportSaysPartial'
  BY <1>0 DEF Assess, ReportSaysPartial, Answered, PhaseInv
<1> QED
  BY <1>1, <1>2, <1>3, <1>4, <1>5, <1>6 DEF IndInv

\* LEMMA: what is selected is what was asked for.
LEMMA SelectionIsAsked ==
  ASSUME IndInv, ~BadAmount, NEW e \in Selection, question.kind # "deal_analysis"
  PROVE  Asked(e.rec)
<1>1. question.kind # "lead_qualification" => Concerns(e.rec)
  BY DEF Selection, First
<1>2. CASE question.kind = "deal_follow_up"
  BY <1>1, <1>2 DEF Concerns, Asked, Due, Filtered, StatusLists
<1>3. CASE question.kind = "closed_won_revenue"
  BY <1>1, <1>3 DEF Concerns, Asked, Won, Lost, Filtered, StatusLists, BadAmount
<1>4. CASE question.kind \in StatusLists
  <2>1. HasStatus(StatusOf(question.kind), e.rec)
    BY <1>1, <1>4 DEF Concerns, StatusLists
  <2>2. /\ question.kind \in {"open_deals", "best_chance_deals"} => Open(e.rec)
        /\ question.kind \in {"closed_deals", "closed_won_deals", "closed_lost_deals"} => Closed(e.rec)
        /\ question.kind = "closed_won_deals" => Won(e.rec)
        /\ question.kind = "closed_lost_deals" => Lost(e.rec)
    BY <2>1 DEF HasStatus, StatusOf
  <2>3. ~(Won(e.rec) /\ Lost(e.rec))
    BY DEF Won, Lost
  <2>4. Filtered => Passes(question.filter, e.rec)
    BY <1>1, <1>4 DEF Concerns, StatusLists
  <2>5. ASSUME Filtered
        PROVE  /\ question.filter.status = "open" => Open(e.rec)
               /\ question.filter.status = "closed" => Closed(e.rec)
               /\ question.filter.stages # {} =>
                    \/ e.rec.stage \in question.filter.stages
                    \/ StageLabel[e.rec.stage] \in question.filter.stages
               /\ \A c \in question.filter.conditions :
                    e.rec.amount \notin {Absent, Invalid} /\ Matches(c, e.rec.amount)
               /\ question.filter.unassigned => e.rec.owner = Absent
    BY <2>4, <2>5 DEF Passes, Found, FoundButForType, HasStatus, StageIds, Named, IsNumber
  <2>6. question.kind \notin {"deal_follow_up", "deal_analysis", "closed_won_revenue"}
    BY <1>4 DEF StatusLists
  <2> QED
    BY <2>2, <2>3, <2>5, <2>6 DEF Asked
<1> QED
  BY <1>2, <1>3, <1>4 DEF Asked, Filtered, StatusLists

\* LEMMA: so does choosing what to show.
LEMMA ChooseKeeps == IndInv /\ Choose => IndInv'
<1> SUFFICES ASSUME IndInv, Choose
             PROVE  IndInv'
  OBVIOUS
<1>0. reply = "none" /\ TypeOK /\ AnswerInv /\ pc \in {"reading", "rows"} /\ ~Chosen
  BY DEF IndInv, Choose, TypeOK, AnswerTypes, AnswerInv, Chosen, Answered, Tables, StatusLists,
         Searches, Related, Details
<1>1. ReadInv'
  BY <1>0, NothingRead DEF Choose, AnswerInv, PhaseInv, Tables, StatusLists, Searches, Related, Details
<1>a. shown = {} /\ assessed = {} /\ failed = {} /\ listed
  BY <1>0 DEF AnswerInv, PhaseInv, Choose
<1> USE DEF crmVars, pageVars, answerVars, Answer, AnswerInv
<1>2. TypeOK'
  <2>1. ReadTypes'
    BY <1>0, SameTypes DEF Choose
  <2>2. AnswerTypes'
    BY <1>0, <1>a, SelectionIsRead DEF TypeOK, Choose, AnswerTypes, Replies, Key, Refusal
  <2> QED
    BY <2>1, <2>2 DEF TypeOK
<1>b. /\ \/ pc' \in {"rows", "links", "assessing"} /\ UNCHANGED reply
         \/ pc' = "done" /\ reply' \in {"closed_deal", "stage_unknown", "invalid_hubspot_data",
                                       "invalid_filter"}
      /\ pc' = "rows" => question.kind \in Tables
      /\ Filtered => pipes
  BY DEF Choose, Refusal, Filtered, StatusLists
<1>c. UNCHANGED <<question, pipes, listed, more, rows, assessed, failed>>
  BY DEF Choose
<1>3. PhaseInv'
  BY <1>0, <1>a, <1>b, <1>c, SameQuestion DEF PhaseInv, Chosen, Answered
<1>4. FilterInv'
  BY <1>0, SameQuestion DEF Choose, FilterInv
<1>5. ShownInv'
  <2>1. CASE question.kind = "deal_analysis"
    <3>1. PICK e \in got : IF SurelyOpen(e.rec) THEN shown' = got ELSE shown' = shown
      BY <2>1 DEF Choose
    <3>2. \A f \in got : f = e
      BY <2>1 DEF IndInv, ReadInv, SingleInv, Single
    <3>3. SurelyOpen(e.rec) => Asked(e.rec)
      BY <2>1 DEF Asked, Filtered, StatusLists
    <3>4. \A f \in shown' : Asked(f.rec)
      BY <1>a, <3>1, <3>2, <3>3
    <3> QED
      BY <1>c, <2>1, <3>4, SameQuestion DEF ShownInv
  <2>2. CASE question.kind # "deal_analysis"
    <3>1. CASE BadAmount \/ BadType
      <4>1. shown' = {} /\ ~Chosen'
        BY <1>a, <2>2, <3>1 DEF Choose, Chosen, Answered
      <4> QED
        BY <4>1 DEF ShownInv
    <3>2. CASE ~BadAmount /\ ~BadType
      <4>1. shown' = Selection /\ got' = got
        BY <2>2, <3>2 DEF Choose
      <4>2. \A e \in shown' : Asked(e.rec)
        BY <2>2, <3>2, <4>1, SelectionIsAsked
      <4> QED
        BY <1>c, <4>1, <4>2, SameQuestion, SameSelection DEF ShownInv
    <3> QED
      BY <3>1, <3>2
  <2> QED
    BY <2>1, <2>2
<1>6. ReportSaysPartial'
  BY <1>0 DEF Choose, ReportSaysPartial, Answered, Refusal
<1> QED
  BY <1>1, <1>2, <1>3, <1>4, <1>5, <1>6 DEF IndInv

-----------------------------------------------------------------------------
(* Steps that read.                                                        *)

\* LEMMA: what HubSpot holds does not change while it is read.
LEMMA SameCrm ==
  ASSUME IndInv, UNCHANGED <<crmVars, question>>
  PROVE  /\ CrmInv' /\ Hits' = Hits /\ Live' = Live
         /\ \A i : Untouched(i)' = Untouched(i)
         /\ (/\ crm \in [Ids -> (UNION {Records(i) : i \in Ids}) \cup {Gone}]
             /\ past \in [Ids -> SUBSET ((UNION {Records(i) : i \in Ids}) \cup {Gone})])'
<1> USE DEF IndInv, ReadInv, TypeOK, ReadTypes, crmVars
<1>1. CrmInv'
  BY SameQuestion DEF CrmInv
<1>2. Live' = Live
  BY DEF Live
<1>3. Hits' = Hits
  BY <1>2, SameQuestion DEF Hits
<1>4. \A i : Untouched(i)' = Untouched(i)
  BY DEF Untouched
<1>5. (/\ crm \in [Ids -> (UNION {Records(i) : i \in Ids}) \cup {Gone}]
       /\ past \in [Ids -> SUBSET ((UNION {Records(i) : i \in Ids}) \cup {Gone})])'
  BY DEF Records
<1> QED
  BY <1>1, <1>2, <1>3, <1>4, <1>5

\* LEMMA: a lead whose associated records are read keeps the invariant.
LEMMA LeadCompleted ==
  ASSUME IndInv, NEW e \in got, CompleteRow(e), question.kind = "lead_qualification"
  PROVE  IndInv'
<1> DEFINE newRec == [e.rec EXCEPT !.company = crm[e.id].company]
<1>0. /\ reply = "none" /\ TypeOK /\ ReadTypes /\ AnswerTypes /\ ReadInv /\ AnswerInv
      /\ pc = "rows" /\ ~Chosen /\ shown = {} /\ assessed = {} /\ failed = {} /\ listed
      /\ ~Searching /\ ~Single /\ ~Filtered
  BY DEF IndInv, CompleteRow, TypeOK, AnswerTypes, AnswerInv, Chosen, Answered, Tables,
         StatusLists, Searches, Related, Details, PhaseInv, Searching, Filtering, Filtered, Single
<1>1. /\ UNCHANGED <<crmVars, question, pc, pipes, after, seen, pages, listed, more, shown,
                      assessed, failed, reply, glitched>>
      /\ got' = (got \ {e}) \cup {[e EXCEPT !.rec.company = crm[e.id].company]}
      /\ rows' = rows \cup {Key(e)} /\ crm[e.id] # Gone
  BY DEF CompleteRow
<1>2. e = [page |-> e.page, id |-> e.id, rec |-> e.rec] /\ e.id \in Ids
  BY <1>0 DEF ReadInv, EntryInv, ReadTypes
<1>3. [e EXCEPT !.rec.company = crm[e.id].company] = [page |-> e.page, id |-> e.id, rec |-> newRec]
  BY <1>2
<1>4. PICK f : f = [page |-> e.page, id |-> e.id, rec |-> newRec]
  OBVIOUS
<1>5. f.page = e.page /\ f.id = e.id /\ f.rec = newRec /\ got' = (got \ {e}) \cup {f}
  BY <1>1, <1>3, <1>4
<1>6. TypeOK'
  <2>1. (\A x \in got : x.page \in 1 .. MaxLoops + 1 /\ x.id \in Ids)'
    BY <1>0, <1>5 DEF ReadTypes
  <2>2. ReadTypes'
    BY <1>0, <1>1, <2>1, SameCrm DEF ReadTypes, crmVars
  <2>3. Key(f) = Key(e)
    BY <1>5 DEF Key
  <2>4. (rows \subseteq {Key(x) : x \in got})'
    BY <1>0, <1>1, <1>5, <2>3 DEF AnswerTypes, Key
  <2>5. AnswerTypes'
    BY <1>0, <1>1, <2>4 DEF AnswerTypes
  <2> QED
    BY <2>2, <2>5 DEF TypeOK
<1>7. (\A x \in got : EntryInv(x))'
  <2>1. EntryInv(f)
    <3>1. PICK r \in past[e.id] \ {Gone}, t \in past[e.id] \ {Gone} :
            e.rec = [r EXCEPT !.company = t.company]
      BY <1>0 DEF ReadInv, EntryInv, WasSo
    <3>2. newRec = [r EXCEPT !.company = crm[e.id].company]
      BY <3>1
    <3>3. crm[e.id] \in past[e.id] \ {Gone}
      BY <1>0, <1>1, <1>2 DEF ReadInv, CrmInv
    <3>4. WasSo(f)
      BY <1>5, <3>2, <3>3 DEF WasSo
    <3> QED
      BY <1>0, <1>4, <1>5, <3>4 DEF ReadInv, EntryInv
  <2>2. \A x \in got' : EntryInv(x)
    BY <1>0, <1>5, <2>1 DEF ReadInv
  <2> QED
    BY <1>1, <2>2, SameQuestion DEF EntryInv, WasSo, crmVars
<1>8. SingleInv' /\ SearchInv' /\ BelongInv'
  BY <1>0, <1>1, SameQuestion DEF SingleInv, SearchInv, BelongInv
<1>9. ASSUME ~glitched
      PROVE  OneEntryEach /\ OneEntryEach' /\ {x.id : x \in got'} = {x.id : x \in got}
  <2>1. OneEntryEach
    BY <1>0, <1>9 DEF ReadInv, ListInv
  <2>2. OneEntryEach'
    BY <1>5, <2>1 DEF OneEntryEach
  <2>3. {x.id : x \in got'} = {x.id : x \in got}
    BY <1>5
  <2> QED
    BY <2>1, <2>2, <2>3
<1>10. ListInv'
  <2> SUFFICES ASSUME ~glitched
               PROVE  ListInv'
    BY <1>1 DEF ListInv
  <2>1. ASSUME NEW i \in Ids, Untouched(i), Linked(crm[i]), Belongs(crm[i]), ~more
        PROVE  \E x \in got' : x.id = i
    <3>1. i \in {x.id : x \in got}
      BY <1>0, <2>1 DEF ReadInv, ListInv
    <3> QED
      BY <1>9, <3>1
  <2> QED
    BY <1>0, <1>1, <1>9, <2>1, SameQuestion DEF ListInv, Untouched, crmVars
<1>11. LeadInv'
  <2> SUFFICES ASSUME ~glitched, more
               PROVE  Cardinality(got') = LeadLimit
    BY <1>1 DEF LeadInv
  <2>1. IsFiniteSet(got) /\ Cardinality(got) = LeadLimit
    BY <1>0, <1>9, EntriesAreFinite DEF ReadInv, LeadInv, ReadTypes, OneEntryEach, OfOneEach
  <2>2. IsFiniteSet(got \ {e}) /\ Cardinality(got \ {e}) = LeadLimit - 1
    BY <2>1, FS_RemoveElement
  <2>3. f \notin got \ {e}
    BY <1>5, <1>9 DEF OneEntryEach
  <2>4. Cardinality(got') = LeadLimit - 1 + 1
    BY <1>5, <2>2, <2>3, FS_AddElement
  <2> QED
    BY <2>4, ReadsAssumption
<1>12. PhaseInv' /\ FilterInv' /\ ShownInv' /\ ReportSaysPartial'
  <2>1. ~Chosen' /\ ~Filtered'
    BY <1>0, <1>1, SameQuestion DEF Chosen, Answered
  <2>2. PhaseInv'
    BY <1>0, <1>1, <2>1 DEF AnswerInv, PhaseInv
  <2>3. FilterInv' /\ ShownInv' /\ ReportSaysPartial'
    BY <1>0, <1>1, <2>1 DEF FilterInv, ShownInv, ReportSaysPartial, Answered
  <2> QED
    BY <2>2, <2>3
<1> QED
  BY <1>1, <1>6, <1>7, <1>8, <1>10, <1>11, <1>12, SameCrm DEF IndInv, ReadInv, AnswerInv

\* LEMMA: so does any row that is completed.
LEMMA CompleteRowKeeps ==
  ASSUME IndInv, NEW e \in got, CompleteRow(e)
  PROVE  IndInv'
<1> SUFFICES ASSUME question.kind # "lead_qualification"
             PROVE  IndInv'
  BY LeadCompleted
<1>0. reply = "none" /\ TypeOK /\ AnswerInv /\ pc = "rows"
  BY DEF IndInv, CompleteRow, TypeOK, AnswerTypes
<1>1. UNCHANGED <<crmVars, question, pc, pipes, pageVars, shown, assessed, failed, reply, glitched>>
  BY DEF CompleteRow, pageVars
<1>2. ReadInv'
  BY <1>0, <1>1, NothingRead DEF AnswerInv, PhaseInv
<1> USE DEF crmVars, pageVars, answerVars, AnswerInv
<1>3. TypeOK'
  <2>1. ReadTypes'
    BY <1>0, <1>1, SameTypes
  <2>2. (rows \subseteq {Key(x) : x \in got})'
    BY <1>0, <1>1 DEF CompleteRow, Key, TypeOK, AnswerTypes
  <2>3. AnswerTypes'
    BY <1>0, <1>1, <2>2 DEF TypeOK, AnswerTypes
  <2> QED
    BY <2>1, <2>3 DEF TypeOK
<1>4. PhaseInv'
  BY <1>0, <1>1, SameQuestion DEF PhaseInv, Chosen, Answered
<1>5. FilterInv'
  BY <1>0, <1>1, SameQuestion DEF FilterInv
<1>6. ShownInv'
  BY <1>0, <1>1, SameQuestion, ShownKept DEF Chosen, Answered
<1>7. ReportSaysPartial'
  BY <1>0, <1>1 DEF ReportSaysPartial, Answered
<1> QED
  BY <1>2, <1>3, <1>4, <1>5, <1>6, <1>7 DEF IndInv

\* LEMMA: so do the records of related ids.
LEMMA ReadBatchKeeps == IndInv /\ ReadBatch => IndInv'
<1> SUFFICES ASSUME IndInv, ReadBatch
             PROVE  IndInv'
  OBVIOUS
<1>0. /\ reply = "none" /\ TypeOK /\ ReadTypes /\ AnswerTypes /\ ReadInv /\ AnswerInv /\ CrmInv
      /\ pc = "batch" /\ shown = {} /\ rows = {} /\ assessed = {} /\ failed = {} /\ listed /\ ~more
      /\ question.kind \in Related /\ ~Searching /\ ~Single /\ ~Filtered
      /\ question.kind # "lead_qualification"
  BY DEF IndInv, ReadInv, ReadBatch, TypeOK, AnswerTypes, AnswerInv, PhaseInv, Searching, Filtering,
         Filtered, Single, StatusLists, Searches, Related, Details
<1>1. /\ UNCHANGED <<crmVars, question, pipes, after, seen, pages, listed, more, answerVars, reply,
                      glitched>>
      /\ pc' = "reading"
      /\ got' = {[page |-> 1, id |-> i, rec |-> crm[i]] : i \in {e.id : e \in got} \cap Live}
  BY DEF ReadBatch
<1>2. ASSUME NEW f \in got'
      PROVE  /\ f = [page |-> f.page, id |-> f.id, rec |-> f.rec]
             /\ f.page = 1 /\ f.id \in Ids /\ f.rec = crm[f.id] /\ f.rec \in past[f.id] \ {Gone}
             /\ \E e \in got : e.id = f.id
  <2>1. PICK i \in {e.id : e \in got} \cap Live : f = [page |-> 1, id |-> i, rec |-> crm[i]]
    BY <1>1
  <2> QED
    BY <1>0, <2>1 DEF Live, CrmInv
<1>3. TypeOK'
  <2>1. (\A e \in got : e.page \in 1 .. MaxLoops + 1 /\ e.id \in Ids)'
    BY <1>2, ReadsAssumption
  <2>2. ReadTypes'
    BY <1>0, <1>1, <2>1, SameCrm DEF ReadTypes, crmVars
  <2>3. AnswerTypes'
    BY <1>0, <1>1 DEF AnswerTypes, answerVars
  <2> QED
    BY <2>2, <2>3 DEF TypeOK
<1>4. (\A e \in got : EntryInv(e))'
  <2>1. \A f \in got' : EntryInv(f)
    BY <1>0, <1>2 DEF ReadInv, EntryInv, WasSo
  <2> QED
    BY <1>1, <2>1, SameQuestion DEF EntryInv, WasSo, crmVars
<1>5. SingleInv' /\ SearchInv' /\ BelongInv' /\ LeadInv'
  BY <1>0, <1>1, SameQuestion DEF SingleInv, SearchInv, BelongInv, LeadInv, Related
<1>6. ListInv'
  <2> SUFFICES ASSUME ~glitched
               PROVE  ListInv'
    BY <1>1 DEF ListInv
  <2>1. OneEntryEach'
    BY <1>2 DEF OneEntryEach
  <2>2. ASSUME NEW i \in Ids, Untouched(i), Linked(crm[i]), Belongs(crm[i])
        PROVE  \E e \in got' : e.id = i
    <3>1. PICK e \in got : e.id = i
      BY <1>0, <2>2 DEF ReadInv, ListInv
    <3>2. i \in {x.id : x \in got} \cap Live
      BY <2>2, <3>1 DEF Untouched, Live
    <3>3. [page |-> 1, id |-> i, rec |-> crm[i]] \in got'
      BY <1>1, <3>2
    <3> QED
      BY <3>3
  <2> QED
    BY <1>0, <1>1, <2>1, <2>2, SameQuestion DEF ListInv, Untouched, crmVars
<1>7. PhaseInv' /\ FilterInv' /\ ShownInv' /\ ReportSaysPartial'
  <2>1. ~Chosen' /\ ~Filtered'
    BY <1>0, <1>1, SameQuestion DEF Chosen, Answered
  <2> QED
    BY <1>0, <1>1, <2>1
    DEF AnswerInv, PhaseInv, FilterInv, ShownInv, ReportSaysPartial, Answered, answerVars
<1> QED
  BY <1>1, <1>3, <1>4, <1>5, <1>6, <1>7, SameCrm DEF IndInv, ReadInv, AnswerInv

\* LEMMA: so does a contact whose companies are looked at.
LEMMA RelateKeeps ==
  ASSUME IndInv, NEW e \in got, Relate(e)
  PROVE  IndInv'
<1>0. /\ reply = "none" /\ TypeOK /\ ReadTypes /\ AnswerTypes /\ ReadInv /\ AnswerInv
      /\ pc = "relating" /\ question.kind = "account_summary"
      /\ shown = {} /\ assessed = {} /\ failed = {} /\ listed /\ ~more
      /\ ~Searching /\ ~Single /\ ~Filtered /\ ~Chosen
  BY DEF IndInv, Relate, TypeOK, AnswerTypes, AnswerInv, PhaseInv, Searching, Filtering, Filtered,
         Single, StatusLists, Searches, Details, Chosen, Answered
<1>1. UNCHANGED <<crmVars, question, pc, pipes, after, seen, pages, listed, more, shown,
                  assessed, failed, reply, glitched>>
  BY DEF Relate
<1>2. /\ got' \subseteq got /\ rows \subseteq rows' /\ rows' \subseteq rows \cup {Key(e)}
      /\ got' # got => /\ got' = got \ {e} /\ rows' = rows /\ Key(e) \notin rows
                       /\ ~Belongs(crm[e.id])
      /\ rows' # rows => got' = got /\ Belongs(crm[e.id])
      /\ e.id \in Ids /\ crm[e.id] \in past[e.id] \ {Gone}
  BY <1>0 DEF Relate, Belongs, ReadTypes, ReadInv, CrmInv
<1>3. TypeOK'
  <2>1. (\A x \in got : x.page \in 1 .. MaxLoops + 1 /\ x.id \in Ids)'
    BY <1>0, <1>2 DEF ReadTypes
  <2>2. ReadTypes'
    BY <1>0, <1>1, <2>1, SameCrm DEF ReadTypes, crmVars
  <2>3. (rows \subseteq {Key(x) : x \in got})'
    <3>1. CASE got' = got
      BY <1>0, <1>2, <3>1 DEF AnswerTypes, Key
    <3>2. CASE got' # got
      <4>1. \A k \in rows' : \E x \in got : k = Key(x) /\ x # e
        BY <1>0, <1>2, <3>2 DEF AnswerTypes
      <4> QED
        BY <1>2, <3>2, <4>1 DEF Key
    <3> QED
      BY <3>1, <3>2
  <2>4. AnswerTypes'
    BY <1>0, <1>1, <2>3 DEF AnswerTypes
  <2> QED
    BY <2>2, <2>4 DEF TypeOK
<1>4. (\A x \in got : EntryInv(x))'
  BY <1>0, <1>1, <1>2, SameQuestion DEF ReadInv, EntryInv, WasSo, crmVars
<1>5. SingleInv' /\ SearchInv' /\ LeadInv'
  BY <1>0, <1>1, SameQuestion DEF SingleInv, SearchInv, LeadInv
<1>6. BelongInv'
  <2>1. ~Answered'
    BY <1>0, <1>1 DEF Answered
  <2>2. ASSUME NEW x \in got', Key(x) \in rows'
        PROVE  \E r \in past[x.id] \ {Gone} : Belongs(r)
    <3>1. CASE Key(x) \in rows
      BY <1>0, <1>2, <2>2, <3>1 DEF ReadInv, BelongInv
    <3>2. CASE Key(x) \notin rows
      <4>1. Key(x) = Key(e) /\ rows' # rows
        BY <1>2, <2>2, <3>2
      <4>2. x.id = e.id
        BY <4>1 DEF Key
      <4> QED
        BY <1>2, <4>1, <4>2
    <3> QED
      BY <3>1, <3>2
  <2> QED
    BY <1>1, <2>1, <2>2, SameQuestion DEF BelongInv, Key, crmVars
<1>7. ListInv'
  <2> SUFFICES ASSUME ~glitched
               PROVE  ListInv'
    BY <1>1 DEF ListInv
  <2>1. OneEntryEach'
    BY <1>0, <1>2 DEF ReadInv, ListInv, OneEntryEach
  <2>2. ASSUME NEW i \in Ids, Untouched(i), Linked(crm[i]), Belongs(crm[i])
        PROVE  \E x \in got' : x.id = i
    <3>1. PICK x \in got : x.id = i
      BY <1>0, <2>2 DEF ReadInv, ListInv
    <3>2. x \in got'
      BY <1>2, <2>2, <3>1
    <3> QED
      BY <3>1, <3>2
  <2> QED
    BY <1>0, <1>1, <2>1, <2>2, SameQuestion DEF ListInv, Untouched, crmVars
<1>8. PhaseInv' /\ FilterInv' /\ ShownInv' /\ ReportSaysPartial'
  <2>1. ~Chosen' /\ ~Filtered'
    BY <1>0, <1>1, SameQuestion DEF Chosen, Answered
  <2> QED
    BY <1>0, <1>1, <2>1 DEF AnswerInv, PhaseInv, FilterInv, ShownInv, ReportSaysPartial, Answered
<1> QED
  BY <1>1, <1>3, <1>4, <1>5, <1>6, <1>7, <1>8, SameCrm DEF IndInv, ReadInv, AnswerInv

\* LEMMA: so does the summary.
LEMMA SummarizeKeeps == IndInv /\ Summarize => IndInv'
<1> SUFFICES ASSUME IndInv, Summarize
             PROVE  IndInv'
  OBVIOUS
<1>0. /\ reply = "none" /\ TypeOK /\ AnswerInv /\ ReadInv
      /\ pc = "relating" /\ question.kind = "account_summary"
      /\ assessed = {} /\ failed = {} /\ listed /\ ~Filtered
  BY DEF IndInv, Summarize, TypeOK, AnswerTypes, AnswerInv, PhaseInv, Filtered, StatusLists
<1>1. /\ UNCHANGED <<crmVars, question, pipes, pageVars, rows, assessed, failed, glitched>>
      /\ shown' = got /\ reply' = "ok" /\ pc' = "done" /\ \A e \in got : Key(e) \in rows
  BY DEF Summarize, Answer
<1> USE DEF crmVars, pageVars
<1>2. TypeOK'
  <2>1. ReadTypes'
    BY <1>0, <1>1, SameTypes
  <2>2. AnswerTypes'
    BY <1>0, <1>1 DEF TypeOK, AnswerTypes, Replies, Key
  <2> QED
    BY <2>1, <2>2 DEF TypeOK
<1>3. CrmInv' /\ (\A e \in got : EntryInv(e))'
  BY <1>0, <1>1, SameCrm, SameQuestion DEF ReadInv, EntryInv, WasSo
<1>4. SingleInv' /\ LeadInv' /\ SearchInv'
  BY <1>0, <1>1, SameCrm, SameQuestion DEF ReadInv, SingleInv, LeadInv, SearchInv, OneEntryEach
<1>5. ListInv'
  BY <1>0, <1>1, SameCrm, SameQuestion DEF ReadInv, ListInv, OneEntryEach
<1>6. BelongInv'
  BY <1>0, <1>1, SameQuestion DEF ReadInv, BelongInv, Key
<1>7. PhaseInv' /\ FilterInv' /\ ReportSaysPartial'
  BY <1>0, <1>1, SameQuestion
  DEF AnswerInv, PhaseInv, FilterInv, ReportSaysPartial, Reports, Chosen, Answered
<1>8. ShownInv'
  <2>1. Selection = got
    BY <1>0 DEF Selection, Concerns, StatusLists
  <2>2. \A e \in got : Asked(e.rec)
    BY <1>0 DEF Asked
  <2> QED
    BY <1>0, <1>1, <2>1, <2>2, SameQuestion, SameSelection DEF ShownInv
<1> QED
  BY <1>2, <1>3, <1>4, <1>5, <1>6, <1>7, <1>8 DEF IndInv, ReadInv, AnswerInv

\* LEMMA: what others change keeps the invariant.
LEMMA ChangeKeeps ==
  ASSUME IndInv, NEW j \in Ids, Change(j)
  PROVE  IndInv'
<1>0. /\ reply = "none" /\ TypeOK /\ ReadTypes /\ AnswerTypes /\ ReadInv /\ AnswerInv /\ CrmInv
  BY DEF IndInv, ReadInv, Change, TypeOK, AnswerTypes
<1>1. UNCHANGED <<question, pc, pipes, pageVars, answerVars, reply, glitched>>
  BY DEF Change
<1>2. PICK r \in Records(j) \cup {Gone} :
        /\ r # crm[j]
        /\ crm' = [crm EXCEPT ![j] = r]
        /\ past' = [past EXCEPT ![j] = @ \cup {r}]
  BY DEF Change
<1>3. changes' = changes + 1 /\ changes < MaxChanges
  BY DEF Change
<1>4. /\ crm'[j] = r /\ past'[j] = past[j] \cup {r}
      /\ \A i \in Ids : i # j => crm'[i] = crm[i] /\ past'[i] = past[i]
      /\ \A i \in Ids : past[i] \subseteq past'[i]
  BY <1>0, <1>2 DEF ReadTypes
<1>5. TypeOK'
  <2>0. PICK V : V = (UNION {Records(i) : i \in Ids}) \cup {Gone}
    OBVIOUS
  <2>a. crm \in [Ids -> V] /\ past \in [Ids -> SUBSET V]
    BY <1>0, <2>0 DEF ReadTypes
  <2>b. r \in V
    <3>1. Records(j) \in {Records(i) : i \in Ids}
      OBVIOUS
    <3>2. \A x \in Records(j) : x \in UNION {Records(i) : i \in Ids}
      BY <3>1
    <3>3. r \in Records(j) \/ r = Gone
      BY <1>2
    <3>4. r \in (UNION {Records(i) : i \in Ids}) \cup {Gone}
      BY <3>2, <3>3, Zenon
    <3> QED
      BY <2>0, <3>4, Zenon
  <2>1. crm' \in [Ids -> (UNION {Records(i) : i \in Ids}) \cup {Gone}]
    BY <1>2, <2>0, <2>a, <2>b
  <2>2. past' \in [Ids -> SUBSET ((UNION {Records(i) : i \in Ids}) \cup {Gone})]
    BY <1>2, <2>0, <2>a, <2>b
  <2>3. (/\ crm \in [Ids -> (UNION {Records(i) : i \in Ids}) \cup {Gone}]
         /\ past \in [Ids -> SUBSET ((UNION {Records(i) : i \in Ids}) \cup {Gone})])'
    BY <1>1, <2>1, <2>2 DEF Records
  <2>4. changes' \in 0 .. MaxChanges
    BY <1>0, <1>3, ReadsAssumption DEF ReadTypes
  <2>5. (\A e \in got : e.page \in 1 .. MaxLoops + 1 /\ e.id \in Ids)'
    BY <1>0, <1>1 DEF ReadTypes, pageVars
  <2>6. ReadTypes'
    BY <1>0, <1>1, <2>3, <2>4, <2>5 DEF ReadTypes, pageVars
  <2>7. AnswerTypes'
    BY <1>0, <1>1 DEF AnswerTypes, pageVars, answerVars, Key
  <2> QED
    BY <2>6, <2>7 DEF TypeOK
<1>6. CrmInv'
  <2>1. ASSUME NEW i \in Ids
        PROVE  /\ crm'[i] \in past'[i]
               /\ past'[i] \subseteq Records(i) \cup {Gone}
    BY <1>0, <1>2, <1>4 DEF CrmInv
  <2>2. changes' # 0
    BY <1>0, <1>3 DEF ReadTypes
  <2> QED
    BY <1>1, <2>1, <2>2, SameQuestion DEF CrmInv
<1>7. (\A e \in got : EntryInv(e))'
  <2>1. ASSUME NEW e \in got
        PROVE  EntryInv(e)'
    <3>1. EntryInv(e) /\ e.id \in Ids
      BY <1>0 DEF ReadInv, ReadTypes
    <3>2. past[e.id] \subseteq past'[e.id]
      BY <1>4, <3>1
    <3> QED
      BY <1>1, <3>1, <3>2, SameQuestion DEF EntryInv, WasSo
  <2> QED
    BY <1>1, <2>1 DEF pageVars
<1>8. \A i \in Ids : Untouched(i)' => Untouched(i) /\ crm'[i] = crm[i]
  <2>1. ~Untouched(j)'
    BY <1>0, <1>2, <1>4 DEF Untouched, CrmInv
  <2> QED
    BY <1>4, <2>1 DEF Untouched
<1>9. ListInv'
  BY <1>0, <1>1, <1>8, SameQuestion DEF ReadInv, ListInv, OneEntryEach, pageVars
<1>10. SingleInv' /\ SearchInv' /\ LeadInv'
  <2>1. changes' # 0
    BY <1>0, <1>3 DEF ReadTypes
  <2> QED
    BY <1>0, <1>1, <2>1, SameQuestion DEF ReadInv, SingleInv, SearchInv, LeadInv, pageVars
<1>11. BelongInv'
  <2>1. ASSUME NEW e \in got
        PROVE  past[e.id] \subseteq past'[e.id]
    BY <1>0, <1>4 DEF ReadTypes
  <2> QED
    BY <1>0, <1>1, <2>1, SameQuestion DEF ReadInv, BelongInv, Key, Answered, pageVars, answerVars
<1>12. PhaseInv' /\ FilterInv' /\ ReportSaysPartial'
  BY <1>0, <1>1, SameQuestion
  DEF AnswerInv, PhaseInv, FilterInv, ReportSaysPartial, Chosen, Answered, pageVars, answerVars
<1>13. ShownInv'
  BY <1>0, <1>1, SameQuestion, ShownKept DEF AnswerInv, Chosen, Answered, pageVars, answerVars
<1> QED
  BY <1>5, <1>6, <1>7, <1>9, <1>10, <1>11, <1>12, <1>13 DEF IndInv, ReadInv, AnswerInv

\* LEMMA: and so does nothing at all.
LEMMA StutterKeeps == IndInv /\ UNCHANGED vars => IndInv'
<1> SUFFICES ASSUME IndInv, UNCHANGED vars
             PROVE  IndInv'
  OBVIOUS
<1> USE DEF vars, crmVars, pageVars, answerVars
<1>0. TypeOK /\ ReadInv /\ AnswerInv
  BY DEF IndInv
<1>1. TypeOK'
  BY <1>0, SameTypes DEF TypeOK, AnswerTypes, Key
<1>2. CrmInv' /\ (\A e \in got : EntryInv(e))'
  BY <1>0, SameCrm, SameQuestion DEF IndInv, ReadInv, EntryInv, WasSo
<1>3. SingleInv' /\ LeadInv' /\ SearchInv' /\ BelongInv'
  BY <1>0, SameCrm, SameQuestion
  DEF ReadInv, SingleInv, LeadInv, SearchInv, BelongInv, Key, Answered, OneEntryEach
<1>4. ListInv'
  BY <1>0, SameCrm, SameQuestion DEF ReadInv, ListInv, OneEntryEach
<1>5. PhaseInv' /\ FilterInv' /\ ReportSaysPartial'
  BY <1>0, SameQuestion DEF AnswerInv, PhaseInv, FilterInv, ReportSaysPartial, Chosen, Answered
<1>6. ShownInv'
  BY <1>0, ShownKept DEF AnswerInv, Chosen, Answered
<1> QED
  BY <1>1, <1>2, <1>3, <1>4, <1>5, <1>6 DEF IndInv, ReadInv, AnswerInv

-----------------------------------------------------------------------------
(* A page is read.                                                         *)

NewEntries(page) == {[page |-> pages + 1, id |-> i, rec |-> crm[i]] : i \in page.ids}

\* LEMMA: what the loop does with a page; E is what it has read then.
LEMMA TurnFacts ==
  ASSUME IndInv, Reading, NEW page, page.next \in Nat \cup {None}, page.ids \in SUBSET Live,
         Turn(page), NEW E, E = got \cup NewEntries(page)
  PROVE  /\ got' \in SUBSET E
         /\ ~Enough(E) => got' = E
         /\ Enough(E) =>
              /\ got' = ReadFirst(LeadLimit, E)
              /\ question.kind = "lead_qualification" /\ Cardinality(E) >= LeadLimit
         /\ more' \in BOOLEAN /\ (more' <=> Enough(E) /\ Beyond(page.next, E))
         /\ pages' \in 0 .. MaxLoops /\ (pages + 1 <= MaxLoops => pages' = pages + 1)
         /\ after' \in Nat /\ seen' \subseteq Nat
         /\ \/ /\ Enough(E) \/ page.next = None
               /\ listed' = TRUE /\ UNCHANGED <<after, seen, reply>>
               /\ \/ pc' = "rows" /\ question.kind = "lead_qualification"
                  \/ pc' = "batch" /\ question.kind \in Related
                  \/ pc' = "relating" /\ question.kind = "account_summary"
                  \/ pc' = "reading" /\ question.kind \notin {"lead_qualification", "account_summary"}
            \/ /\ ~Enough(E) /\ page.next # None
               /\ reply' = "unavailable" /\ pc' = "done" /\ listed' = FALSE
            \/ /\ ~Enough(E) /\ page.next # None
               /\ after' = page.next /\ listed' = (Filtering /\ pages + 1 = MaxPages)
               /\ UNCHANGED <<pc, reply>>
<1>0. /\ pc = "reading" /\ listed = FALSE /\ after \in Nat /\ seen \subseteq Nat /\ pages \in 0 .. MaxLoops
  BY DEF Reading, IndInv, TypeOK, ReadTypes
<1>1. pages' = Min({pages + 1, MaxLoops}) /\ pages' \in 0 .. MaxLoops /\ (pages + 1 <= MaxLoops => pages' = pages + 1)
  <2>1. pages' = Min({pages + 1, MaxLoops})
    BY DEF Turn
  <2>2. pages + 1 \in Int /\ MaxLoops \in Nat
    BY <1>0, ReadsAssumption
  <2>3. pages' = IF pages + 1 <= MaxLoops THEN pages + 1 ELSE MaxLoops
    BY <2>1, <2>2, MinOfTwo
  <2> QED
    BY <1>0, <2>1, <2>2, <2>3
<1>2. /\ got' = IF Enough(E)
              THEN ReadFirst(LeadLimit, E)
              ELSE E
      /\ more' = (Enough(E) /\ Beyond(page.next, E))
  BY DEF Turn, NewEntries
<1>3. \/ /\ Enough(E) \/ page.next = None
         /\ listed' = TRUE
         /\ ToNextStage
         /\ UNCHANGED <<after, seen, reply>>
      \/ /\ ~Enough(E) /\ page.next # None
         /\ reply' = "unavailable" /\ pc' = "done"
         /\ UNCHANGED <<after, seen, listed>>
      \/ /\ ~Enough(E) /\ page.next # None
         /\ seen' = seen \cup {page.next}
         /\ after' = page.next
         /\ listed' = (Filtering /\ pages + 1 = MaxPages)
         /\ UNCHANGED <<pc, reply>>
  BY DEF Turn, NewEntries, Last, Answer
<1>4. ToNextStage =>
        \/ pc' = "rows" /\ question.kind = "lead_qualification"
        \/ pc' = "batch" /\ question.kind \in Related
        \/ pc' = "relating" /\ question.kind = "account_summary"
        \/ pc' = "reading" /\ question.kind \notin {"lead_qualification", "account_summary"}
  BY <1>0 DEF ToNextStage, Related
<1>5. after' \in Nat /\ seen' \subseteq Nat
  BY <1>0, <1>3
<1>6. Enough(E) => question.kind = "lead_qualification" /\ Cardinality(E) >= LeadLimit
  BY DEF Enough
<1>7. got' \in SUBSET E
  BY <1>2 DEF ReadFirst
<1>8. more' \in BOOLEAN /\ (more' <=> Enough(E) /\ Beyond(page.next, E))
  BY <1>2 DEF Enough, Beyond
<1> QED
  BY <1>0, <1>1, <1>2, <1>3, <1>4, <1>5, <1>6, <1>7, <1>8

\* LEMMA: what is read of a page was so, and the answer is not touched.
LEMMA TurnKeeps ==
  ASSUME IndInv, Reading, NEW page, page.next \in Nat \cup {None}, page.ids \in SUBSET Live,
         Turn(page), UNCHANGED <<crmVars, question, pipes, answerVars>>, glitched' \in BOOLEAN,
         \A i \in page.ids : \E r \in past[i] \ {Gone} : Meant(r),
         Single => page.next = None /\ \A i, j \in page.ids : i = j
  PROVE  TypeOK' /\ CrmInv' /\ (\A e \in got : EntryInv(e))' /\ SingleInv' /\ BelongInv' /\ AnswerInv'
<1>0. /\ reply = "none" /\ TypeOK /\ ReadTypes /\ AnswerTypes /\ ReadInv /\ AnswerInv /\ CrmInv
      /\ pc = "reading" /\ shown = {} /\ rows = {} /\ assessed = {} /\ failed = {} /\ ~listed
      /\ Filtered => pipes
  BY DEF IndInv, ReadInv, Reading, TypeOK, AnswerTypes, AnswerInv, PhaseInv
<1>1. PICK E : E = got \cup NewEntries(page)
  OBVIOUS
<1>2. /\ got' \in SUBSET E
      /\ pages' \in 0 .. MaxLoops /\ after' \in Nat /\ seen' \subseteq Nat
      /\ more' \in BOOLEAN /\ (more' => Enough(E))
      /\ Enough(E) => question.kind = "lead_qualification"
      /\ \/ /\ Enough(E) \/ page.next = None
            /\ listed' = TRUE /\ reply' = "none"
            /\ \/ pc' = "rows" /\ question.kind = "lead_qualification"
               \/ pc' = "batch" /\ question.kind \in Related
               \/ pc' = "relating" /\ question.kind = "account_summary"
               \/ pc' = "reading" /\ question.kind # "account_summary"
         \/ /\ ~Enough(E) /\ page.next # None
            /\ listed' \in BOOLEAN /\ (listed' => Filtering)
            /\ (reply' = "unavailable" /\ pc' = "done") \/ (reply' = "none" /\ pc' = "reading")
  <2>1. Filtering \in BOOLEAN
    BY DEF Filtering, Filtered, UsesSearch
  <2> QED
    BY <1>0, <1>1, <2>1, TurnFacts
<1>3. ASSUME NEW e \in E
      PROVE  /\ EntryInv(e) /\ e.id \in Ids /\ e.page \in 1 .. MaxLoops + 1
             /\ e \notin got => \E i \in page.ids : e = [page |-> pages + 1, id |-> i, rec |-> crm[i]]
  <2>1. CASE e \in got
    BY <1>0, <2>1 DEF ReadInv, ReadTypes
  <2>2. CASE e \notin got
    <3>1. PICK i \in page.ids : e = [page |-> pages + 1, id |-> i, rec |-> crm[i]]
      BY <1>1, <2>2 DEF NewEntries
    <3>2. i \in Ids /\ crm[i] # Gone /\ crm[i] \in past[i] /\ crm[i] \in Records(i)
      BY <1>0 DEF Live, CrmInv
    <3>3. question.kind = "lead_qualification" => crm[i] = [crm[i] EXCEPT !.company = crm[i].company]
      BY <3>2, ReadsAssumption DEF Records, ObjectOf
    <3>4. e.page = pages + 1 /\ e.id = i /\ e.rec = crm[i] /\ IsEntry(e)
      BY <3>1 DEF IsEntry
    <3>5. WasSo(e)
      BY <3>2, <3>3, <3>4 DEF WasSo
    <3>6. EntryInv(e)
      BY <3>4, <3>5 DEF EntryInv, IsEntry
    <3>7. pages + 1 \in 1 .. MaxLoops + 1
      BY <1>0, ReadsAssumption DEF ReadTypes
    <3> QED
      BY <3>1, <3>2, <3>4, <3>6, <3>7
  <2> QED
    BY <2>1, <2>2
<1>4. TypeOK'
  <2>1. (\A e \in got : e.page \in 1 .. MaxLoops + 1 /\ e.id \in Ids)'
    BY <1>2, <1>3
  <2>2. ReadTypes'
    BY <1>0, <1>2, <2>1, SameCrm DEF ReadTypes, crmVars
  <2>3. AnswerTypes'
    BY <1>0, <1>2 DEF AnswerTypes, answerVars, Replies
  <2> QED
    BY <2>2, <2>3 DEF TypeOK
<1>5. CrmInv'
  BY SameCrm
<1>6. (\A e \in got : EntryInv(e))'
  <2>1. \A e \in got' : EntryInv(e)
    BY <1>2, <1>3
  <2> QED
    BY <2>1, SameQuestion DEF EntryInv, WasSo, crmVars
<1>7. SingleInv'
  <2> SUFFICES ASSUME Single
               PROVE  listed' /\ \A e, f \in got' : e = f
    BY SameQuestion DEF SingleInv
  <2>1. got = {} /\ question.kind # "lead_qualification"
    BY <1>0 DEF ReadInv, SingleInv, Single, Details
  <2>2. \A e, f \in got' : e = f
    BY <1>2, <1>3, <2>1
  <2> QED
    BY <1>2, <2>2
<1>8. BelongInv'
  BY <1>0, <1>2 DEF BelongInv, Answered, answerVars
<1>9. AnswerInv'
  <2>1. UNCHANGED <<pipes, shown, rows, assessed, failed, question>> /\ Filtered' = Filtered
    BY SameQuestion DEF answerVars
  <2>2. ~Chosen'
    BY <1>2, <2>1 DEF Chosen, Answered, Tables, StatusLists, Searches, Related, Details
  <2>a. Filtering => question.kind # "account_summary"
    BY DEF Filtering, Filtered, StatusLists
  <2>3. PhaseInv'
    <3>1. question.kind = "account_summary" =>
            pc' \in {"relating", "done"} \/ (pc' = "reading" /\ ~listed')
      BY <1>2, <2>a DEF Related
    <3>2. pc' # "asked" /\ (pc' # "reading" => listed' \/ pc' = "done")
      BY <1>2
    <3> QED
      BY <1>0, <1>2, <2>1, <2>2, <3>1, <3>2 DEF PhaseInv, Enough
  <2>4. FilterInv'
    BY <1>0, <1>2, <2>1 DEF AnswerInv, FilterInv
  <2>5. ShownInv' /\ ReportSaysPartial'
    BY <1>0, <1>2, <2>1, <2>2 DEF ShownInv, ReportSaysPartial, Answered
  <2> QED
    BY <2>3, <2>4, <2>5 DEF AnswerInv
<1> QED
  BY <1>4, <1>5, <1>6, <1>7, <1>8, <1>9

\* LEMMA: a listing misses nothing that stays as it is.
LEMMA ListTurn ==
  ASSUME IndInv, Reading, ~Searching, ~Single, ~glitched, NEW page \in ListPages, Turn(page),
         UNCHANGED <<crmVars, question, pipes, answerVars, glitched>>
  PROVE  ListInv' /\ LeadInv'
<1>0. /\ reply = "none" /\ TypeOK /\ ReadTypes /\ AnswerTypes /\ ReadInv /\ CrmInv
      /\ pc = "reading" /\ ~listed /\ ~Filtering
  BY DEF IndInv, ReadInv, Reading, TypeOK, AnswerTypes, Searching
<1>1. /\ page.ids \in SUBSET Live
      /\ \A i \in page.ids : i > after /\ Linked(crm[i])
      /\ page.next # None =>
           /\ page.next \in Nat /\ page.next >= after
           /\ \A i \in page.ids : i <= page.next
           /\ \A i \in Live : i > after /\ i <= page.next /\ Linked(crm[i]) => i \in page.ids
      /\ page.next = None => \A i \in Live : i > after /\ Linked(crm[i]) => i \in page.ids
  BY <1>0, ListPageFacts, AbsentAssumption DEF None
<1>a. page.next \in Nat \cup {None}
  BY <1>1
<1>2. PICK E : E = got \cup NewEntries(page)
  OBVIOUS
<1>3. /\ got \subseteq E /\ \A i \in page.ids : \E e \in E : e.id = i
      /\ \A e \in E : \/ e \in got
                     \/ \E i \in page.ids : e = [page |-> pages + 1, id |-> i, rec |-> crm[i]]
  <2>1. ASSUME NEW i \in page.ids
        PROVE  \E e \in E : e.id = i
    <3>1. [page |-> pages + 1, id |-> i, rec |-> crm[i]] \in E
      BY <1>2 DEF NewEntries
    <3> QED
      BY <3>1
  <2> QED
    BY <1>2, <2>1 DEF NewEntries
<1>4. OneEntryEach /\ \A e \in got : e.id <= after /\ e.id \in Ids /\ e.page \in Nat
  BY <1>0 DEF ReadInv, ListInv, ReadTypes
<1>5. OfOneEach(E) /\ \A e \in E : e.id \in Ids /\ e.page \in Nat
  <2>1. \A e \in E : e.id \in Ids /\ e.page \in Nat
    BY <1>0, <1>1, <1>3, <1>4 DEF Live, ReadTypes
  <2>2. ASSUME NEW e \in E, NEW f \in E, e.id = f.id
        PROVE  e = f
    <3>1. CASE e \in got /\ f \in got
      BY <1>4, <2>2, <3>1 DEF OneEntryEach
    <3>2. \A x \in E : x \notin got => x.id > after
      BY <1>1, <1>3
    <3>3. ASSUME NEW x \in got
          PROVE  ~(x.id > after)
      <4>1. x.id <= after /\ x.id \in Nat /\ after \in Nat
        BY <1>0, <1>4, LiveIsFinite DEF ReadTypes
      <4> QED
        BY <4>1
    <3>4. CASE e \notin got /\ f \notin got
      BY <1>3, <2>2, <3>4
    <3> QED
      BY <2>2, <3>1, <3>2, <3>3, <3>4
  <2> QED
    BY <2>1, <2>2 DEF OfOneEach
<1>6. /\ got' \in SUBSET E
      /\ ~Enough(E) => got' = E
      /\ Enough(E) =>
           /\ got' = ReadFirst(LeadLimit, E)
           /\ Cardinality(E) >= LeadLimit
      /\ more' <=> Enough(E) /\ Beyond(page.next, E)
      /\ \/ listed' /\ reply' = "none" /\ (Enough(E) \/ page.next = None)
         \/ reply' = "unavailable" /\ ~Enough(E)
         \/ ~listed' /\ reply' = "none" /\ after' = page.next /\ page.next # None /\ ~Enough(E)
  <2>1. \A x : x.next \in Nat \cup {None} /\ x.ids \in SUBSET Live /\ Turn(x) /\ x = page =>
          \/ listed' = TRUE /\ reply' = reply /\ (Enough(E) \/ page.next = None)
          \/ reply' = "unavailable" /\ ~Enough(E)
          \/ /\ listed' = (Filtering /\ pages + 1 = MaxPages) /\ reply' = reply
             /\ after' = page.next /\ page.next # None /\ ~Enough(E)
    BY <1>0, <1>2, TurnFacts
  <2>2. /\ got' \in SUBSET E
        /\ ~Enough(E) => got' = E
        /\ Enough(E) =>
             /\ got' = ReadFirst(LeadLimit, E)
             /\ Cardinality(E) >= LeadLimit
        /\ more' <=> Enough(E) /\ Beyond(page.next, E)
    BY <1>0, <1>1, <1>a, <1>2, TurnFacts
  <2> QED
    BY <1>0, <1>1, <1>a, <2>1, <2>2
<1>7. Enough(E) =>
        /\ Cardinality(got') = LeadLimit
        /\ Cardinality(E) <= LeadLimit => got' = E
  BY <1>5, <1>6, FirstRead, ReadsAssumption
<1>8. LeadInv'
  BY <1>6, <1>7 DEF LeadInv
<1>9. OneEntryEach'
  BY <1>5, <1>6 DEF OneEntryEach, OfOneEach
<1>10. ASSUME ~listed', reply' # "unavailable"
       PROVE  \A e \in got' : e.id <= after'
  <2>1. after' = page.next /\ page.next # None /\ got' \subseteq E
    BY <1>6, <1>10
  <2>2. ASSUME NEW e \in E
        PROVE  e.id <= page.next
    <3>1. CASE e \in got
      <4>1. e.id <= after /\ after <= page.next /\ e.id \in Nat /\ page.next \in Nat /\ after \in Nat
        BY <1>0, <1>1, <1>4, <2>1, <3>1, LiveIsFinite DEF ReadTypes
      <4> QED
        BY <4>1
    <3>2. CASE e \notin got
      BY <1>1, <1>3, <2>1, <3>2
    <3> QED
      BY <3>1, <3>2
  <2> QED
    BY <2>1, <2>2
<1>11. ASSUME NEW i \in Ids, Untouched(i), Linked(crm[i]), Belongs(crm[i]), reply' # "unavailable",
              IF listed' THEN ~more' ELSE i <= after'
       PROVE  \E e \in got' : e.id = i
  <2>1. i \in Live /\ i \in Nat /\ after \in Nat
    BY <1>0, <1>11, LiveIsFinite DEF Untouched, Live, ReadTypes
  <2>2. got' = E
    <3>1. CASE Enough(E)
      <4>1. listed' /\ ~more' /\ Cardinality(E) \in Nat
        BY <1>5, <1>6, <1>11, <3>1, EntriesAreFinite
      <4>2. ~(Cardinality(E) > LeadLimit)
        BY <1>6, <3>1, <4>1 DEF Beyond
      <4> QED
        BY <1>7, <3>1, <4>1, <4>2, ReadsAssumption
    <3> QED
      BY <1>6, <3>1
  <2>3. i > after => i \in page.ids
    <3>1. CASE page.next = None
      BY <1>1, <1>11, <2>1, <3>1
    <3>2. CASE page.next # None
      <4>1. ~Enough(E) \/ more'
        BY <1>6, <3>2 DEF Beyond
      <4>2. ~listed' /\ after' = page.next
        BY <1>6, <1>11, <3>2, <4>1
      <4> QED
        BY <1>1, <1>11, <2>1, <3>2, <4>2
    <3> QED
      BY <3>1, <3>2
  <2>4. i <= after => \E e \in got : e.id = i
    BY <1>0, <1>11 DEF ReadInv, ListInv
  <2> QED
    BY <1>3, <2>1, <2>2, <2>3, <2>4
<1> QED
  BY <1>8, <1>9, <1>10, <1>11, SameQuestion, SameCrm DEF ListInv, crmVars

\* LEMMA: the matches behind the offset are those not read yet.
LEMMA LeftIsUnread ==
  ASSUME NEW H \in SUBSET Ids, NEW G \in SUBSET H, NEW n \in Nat, Cardinality(G) = n,
         \A i \in G, j \in H \ G : i < j
  PROVE  {i \in H : Cardinality({j \in H : j < i}) >= n} = H \ G
<1>1. \A S \in SUBSET Ids : IsFiniteSet(S) /\ Cardinality(S) \in Nat
  BY LiveIsFinite
<1>2. ASSUME NEW i \in G
      PROVE  ~(Cardinality({j \in H : j < i}) >= n)
  <2>1. \A j \in H : j \in Nat /\ i \in Nat
    BY LiveIsFinite
  <2>2. \A j \in H : j < i => j \in G \ {i}
    BY <2>1
  <2>3. {j \in H : j < i} \in SUBSET (G \ {i})
    BY <2>2
  <2>4. IsFiniteSet(G \ {i}) /\ Cardinality(G \ {i}) = n - 1
    BY <1>1, FS_RemoveElement
  <2>5. Cardinality({j \in H : j < i}) <= n - 1 /\ {j \in H : j < i} \in SUBSET Ids
    BY <2>3, <2>4, FS_Subset
  <2> QED
    BY <1>1, <2>5
<1>3. ASSUME NEW i \in H \ G
      PROVE  Cardinality({j \in H : j < i}) >= n
  <2>1. G \in SUBSET {j \in H : j < i}
    OBVIOUS
  <2>2. Cardinality(G) <= Cardinality({j \in H : j < i}) /\ {j \in H : j < i} \in SUBSET Ids
    BY <1>1, <2>1, FS_Subset
  <2> QED
    BY <1>1, <2>2
<1> QED
  BY <1>2, <1>3

\* LEMMA: while nobody changes anything, a search's page holds the next matches.
LEMMA NextMatches ==
  ASSUME TypeOK, CrmInv, changes = 0, NEW page \in SearchPages,
         NEW G \in SUBSET Hits, Cardinality(G) = after, \A i \in G, j \in Hits \ G : i < j
  PROVE  /\ page.ids \in SUBSET (Hits \ G)
         /\ \A i \in page.ids, j \in (Hits \ G) \ page.ids : i < j
         /\ \/ page.next = None /\ page.ids = Hits \ G
            \/ page.next = after + Cardinality(page.ids)
<1> DEFINE ever == {i \in Live : \E r \in past[i] \ {Gone} : Hit(r)}
           Left(hits) == {i \in hits : Cardinality({j \in hits : j < i}) >= after}
<1>1. PICK hits \in {Hits, ever} : \E ids \in Prefixes(Left(hits)) :
        page = [ids |-> ids,
                next |-> IF ids = Left(hits) THEN None ELSE after + Cardinality(ids)]
  BY DEF SearchPages, Hits
<1>2. ever = Hits
  <2>1. \A i \in Live : past[i] \ {Gone} = {crm[i]}
    BY LiveIsFinite DEF CrmInv, Live
  <2> QED
    BY <2>1 DEF Hits
<1>3. hits = Hits
  BY <1>1, <1>2
<1>4. Left(Hits) = Hits \ G
  <2>1. Hits \in SUBSET Ids /\ after \in Nat
    BY LiveIsFinite DEF Hits, TypeOK, ReadTypes
  <2> QED
    BY <2>1, LeftIsUnread
<1> HIDE DEF ever, Left
<1>5. PICK ids \in Prefixes(Hits \ G) :
        page = [ids |-> ids,
                next |-> IF ids = Hits \ G THEN None ELSE after + Cardinality(ids)]
  BY <1>1, <1>3, <1>4
<1>6. ids \in SUBSET (Hits \ G) /\ \A i \in ids, j \in (Hits \ G) \ ids : i < j
  BY DEF Prefixes
<1>7. page.ids = ids /\ page.next = IF ids = Hits \ G THEN None ELSE after + Cardinality(ids)
  BY <1>5
<1> QED
  BY <1>6, <1>7

\* LEMMA: a search misses nothing while nobody changes anything.
LEMMA SearchTurn ==
  ASSUME IndInv, Reading, Searching, ~glitched, changes = 0, Filtering => ~Unbuildable(question.filter),
         NEW page \in SearchPages, Turn(page),
         UNCHANGED <<crmVars, question, pipes, answerVars, glitched>>
  PROVE  SearchInv'
<1>0. /\ reply = "none" /\ TypeOK /\ ReadTypes /\ AnswerTypes /\ ReadInv /\ CrmInv
      /\ pc = "reading" /\ ~listed /\ question.kind # "lead_qualification"
  BY DEF IndInv, ReadInv, Reading, TypeOK, AnswerTypes, Searching, Filtering, Filtered, StatusLists, Searches
<1>1. PICK G : G = {e.id : e \in got}
  OBVIOUS
<1>2. /\ OneEntryEach /\ G \in SUBSET Hits /\ Cardinality(G) = after
      /\ \A i \in G, j \in Hits \ G : i < j
  BY <1>0, <1>1 DEF ReadInv, SearchInv
<1>3. /\ page.ids \in SUBSET (Hits \ G)
      /\ \A i \in page.ids, j \in (Hits \ G) \ page.ids : i < j
      /\ \/ page.next = None /\ page.ids = Hits \ G
         \/ page.next = after + Cardinality(page.ids)
  BY <1>0, <1>2, NextMatches
<1>4. page.next \in Nat \cup {None} /\ page.ids \in SUBSET Live /\ Hits \in SUBSET Ids
  BY <1>0, SearchPageFacts, LiveIsFinite DEF Hits
<1>5. PICK E : E = got \cup NewEntries(page)
  OBVIOUS
<1>6. ~Enough(E)
  BY <1>0 DEF Enough
<1>7. /\ got' = E
      /\ pages' \in 0 .. MaxLoops /\ (pages + 1 <= MaxLoops => pages' = pages + 1)
      /\ \/ listed' = TRUE /\ page.next = None
         \/ reply' = "unavailable"
         \/ after' = page.next /\ page.next # None /\ listed' = (Filtering /\ pages + 1 = MaxPages)
  BY <1>4, <1>5, <1>6, TurnFacts
<1>8. {e.id : e \in E} = G \cup page.ids
  <2>1. \A e \in E : e.id \in G \cup page.ids
    BY <1>1, <1>5 DEF NewEntries
  <2>2. \A i \in G : \E e \in E : e.id = i
    BY <1>1, <1>5
  <2>3. ASSUME NEW i \in page.ids
        PROVE  \E e \in E : e.id = i
    <3>1. [page |-> pages + 1, id |-> i, rec |-> crm[i]] \in E
      BY <1>5 DEF NewEntries
    <3> QED
      BY <3>1
  <2> QED
    BY <2>1, <2>2, <2>3
<1>9. OneEntryEach'
  <2>1. ASSUME NEW e \in E, NEW f \in E, e.id = f.id
        PROVE  e = f
    <3>1. \A x \in E : \/ x \in got /\ x.id \in G
                       \/ x = [page |-> pages + 1, id |-> x.id, rec |-> crm[x.id]] /\ x.id \in page.ids
      BY <1>1, <1>5 DEF NewEntries
    <3> QED
      BY <1>2, <1>3, <2>1, <3>1 DEF OneEntryEach
  <2> QED
    BY <1>7, <2>1 DEF OneEntryEach
<1>10. Cardinality(G \cup page.ids) = after + Cardinality(page.ids)
  <2>1. IsFiniteSet(G) /\ IsFiniteSet(page.ids) /\ after \in Nat /\ Cardinality(page.ids) \in Nat
    BY <1>0, <1>2, <1>3, <1>4, LiveIsFinite DEF ReadTypes
  <2>2. G \cap page.ids = {}
    BY <1>3
  <2> QED
    <3>1. Cardinality(G \cap page.ids) = 0
      BY <2>2, FS_EmptySet
    <3>2. Cardinality(G \cup page.ids) = Cardinality(G) + Cardinality(page.ids) - Cardinality(G \cap page.ids)
      BY <2>1, FS_Union
    <3> QED
      BY <1>2, <2>1, <3>1, <3>2
<1>11. ASSUME reply' # "unavailable", ~listed'
       PROVE  /\ Cardinality(G \cup page.ids) = after'
              /\ \A i \in G \cup page.ids, j \in Hits \ (G \cup page.ids) : i < j
  BY <1>2, <1>3, <1>7, <1>10, <1>11
<1>12. ASSUME reply' # "unavailable", listed', Filtering => pages' < MaxPages
       PROVE  G \cup page.ids = Hits
  <2>1. page.next = None
    <3>1. ~(Filtering /\ pages + 1 = MaxPages)
      BY <1>7, <1>12, ReadsAssumption
    <3> QED
      BY <1>7, <1>12, <3>1
  <2>2. page.ids = Hits \ G
    BY <1>0, <1>3, <1>4, <2>1, LiveIsFinite, AbsentAssumption DEF None, ReadTypes
  <2> QED
    BY <1>2, <2>2
<1>13. {e.id : e \in got'} = G \cup page.ids /\ G \cup page.ids \subseteq Hits
  BY <1>2, <1>3, <1>7, <1>8
<1>14. Hits' = Hits
  BY SameCrm
<1> QED
  BY <1>9, <1>11, <1>12, <1>13, <1>14, SameQuestion DEF SearchInv

\* LEMMA: a page holds what is meant.
LEMMA PageIsMeant ==
  ASSUME IndInv, NEW page \in Pages
  PROVE  /\ \A i \in page.ids : \E r \in past[i] \ {Gone} : Meant(r)
         /\ Single => page \in TheRecord /\ ~Searching
         /\ Searching => page \in SearchPages
         /\ ~Single /\ ~Searching => page \in ListPages
<1>0. TypeOK /\ \A i \in Live : crm[i] \in past[i] \ {Gone}
  BY DEF IndInv, ReadInv, CrmInv, Live
<1>1. Single => ~Searching /\ question.kind \notin Related
  BY DEF Single, Searching, Filtering, Filtered, StatusLists, Searches, Details, Related
<1>2. Searching => question.kind \notin Related
  BY DEF Searching, Filtering, Filtered, StatusLists, Searches, Related
<1>3. /\ Single => page \in TheRecord
      /\ Searching => page \in SearchPages
      /\ ~Single /\ ~Searching => page \in ListPages
  BY <1>1 DEF Pages
<1>4. ASSUME NEW i \in page.ids
      PROVE  \E r \in past[i] \ {Gone} : Meant(r)
  <2>1. CASE Single
    <3>1. page.ids \in SUBSET Live
      BY <1>0, PageFacts
    <3> QED
      BY <1>0, <1>1, <2>1, <3>1 DEF Meant, Linked
  <2>2. CASE Searching
    <3>1. page.ids \in SUBSET Live /\ \E r \in past[i] \cup {crm[i]} : r # Gone /\ Hit(r)
      BY <1>0, <1>3, <2>2, SearchPageFacts
    <3>2. \E r \in past[i] \ {Gone} : Hit(r)
      BY <1>0, <3>1
    <3> QED
      BY <1>2, <2>2, <3>2 DEF Meant, Linked
  <2>3. CASE ~Single /\ ~Searching
    <3>1. page.ids \in SUBSET Live /\ Linked(crm[i])
      BY <1>0, <1>3, <2>3, ListPageFacts
    <3> QED
      BY <1>0, <2>3, <3>1 DEF Meant
  <2> QED
    BY <2>1, <2>2, <2>3
<1> QED
  BY <1>1, <1>3, <1>4

\* LEMMA: reading a page keeps the invariant.
LEMMA ReadPageKeeps == IndInv /\ ReadPage => IndInv'
<1> SUFFICES ASSUME IndInv, ReadPage
             PROVE  IndInv'
  OBVIOUS
<1>1. PICK page \in Pages : Turn(page)
  BY DEF ReadPage
<1>2. /\ Reading /\ UNCHANGED <<crmVars, question, pipes, answerVars, glitched>>
      /\ TypeOK /\ glitched' \in BOOLEAN
  BY DEF ReadPage, IndInv, TypeOK, ReadTypes
<1>3. page.ids \in SUBSET Live /\ page.next \in Nat \cup {None}
  BY <1>2, PageFacts
<1>4. Single => page.next = None /\ \A i, j \in page.ids : i = j
  BY PageIsMeant DEF TheRecord
<1>5. TypeOK' /\ CrmInv' /\ (\A e \in got : EntryInv(e))' /\ SingleInv' /\ BelongInv' /\ AnswerInv'
  BY <1>1, <1>2, <1>3, <1>4, PageIsMeant, TurnKeeps
<1>6. /\ Searching' = Searching /\ Filtering' = Filtering /\ Single' = Single /\ glitched' = glitched
      /\ changes' = changes /\ question' = question
  BY <1>2, SameQuestion DEF crmVars
<1>7. ListInv' /\ LeadInv'
  <2>1. CASE glitched
    BY <1>6, <2>1 DEF ListInv, LeadInv
  <2>2. CASE ~glitched /\ ~Searching /\ ~Single
    BY <1>1, <1>2, <2>2, PageIsMeant, ListTurn
  <2>3. CASE Searching \/ Single
    <3>1. question.kind # "lead_qualification"
      BY <2>3 DEF Searching, Single, Filtering, Filtered, StatusLists, Searches, Details
    <3> QED
      BY <1>6, <2>3, <3>1 DEF ListInv, LeadInv
  <2> QED
    BY <2>1, <2>2, <2>3
<1>8. SearchInv'
  <2>1. CASE /\ Searching /\ ~glitched /\ changes = 0
             /\ Filtering => ~Unbuildable(question.filter)
    BY <1>1, <1>2, <2>1, PageIsMeant, SearchTurn
  <2>2. CASE ~(/\ Searching /\ ~glitched /\ changes = 0
               /\ Filtering => ~Unbuildable(question.filter))
    BY <1>6, <2>2 DEF SearchInv
  <2> QED
    BY <2>1, <2>2
<1> QED
  BY <1>5, <1>7, <1>8 DEF IndInv, ReadInv

\* LEMMA: so does a page with a cursor of HubSpot's choice.
LEMMA ReadGlitchKeeps == IndInv /\ ReadGlitch => IndInv'
<1> SUFFICES ASSUME IndInv, ReadGlitch
             PROVE  IndInv'
  OBVIOUS
<1>1. PICK page \in Pages, next \in Ids : Turn([page EXCEPT !.next = next])
  BY DEF ReadGlitch
<1>2. /\ Reading /\ UNCHANGED <<crmVars, question, pipes, answerVars>>
      /\ TypeOK /\ glitched' = TRUE /\ ~Single
  BY DEF ReadGlitch, IndInv
<1>3. /\ page.ids \in SUBSET Live
      /\ page = [ids |-> page.ids, next |-> page.next]
  BY <1>2, PageFacts
<1>4. PICK p : p = [page EXCEPT !.next = next]
  OBVIOUS
<1>5. p.ids = page.ids /\ p.next = next
  BY <1>3, <1>4
<1>6. p.next \in Nat \cup {None} /\ Turn(p)
  BY <1>1, <1>4, <1>5, LiveIsFinite
<1>7. TypeOK' /\ CrmInv' /\ (\A e \in got : EntryInv(e))' /\ SingleInv' /\ BelongInv' /\ AnswerInv'
  BY <1>2, <1>3, <1>5, <1>6, PageIsMeant, TurnKeeps
<1>8. ListInv' /\ SearchInv' /\ LeadInv'
  BY <1>2 DEF ListInv, SearchInv, LeadInv
<1> QED
  BY <1>7, <1>8 DEF IndInv, ReadInv

-----------------------------------------------------------------------------
(* The invariant, and what follows from it.                                *)

\* LEMMA: it holds when the question is asked.
LEMMA InitHolds == Init => IndInv
<1> SUFFICES ASSUME Init
             PROVE  IndInv
  OBVIOUS
<1> USE DEF Init
<1>1. \A i \in Ids : crm[i] \in Records(i) \cup {Gone}
  OBVIOUS
<1>2. ReadTypes
  <2>1. past \in [Ids -> SUBSET ((UNION {Records(i) : i \in Ids}) \cup {Gone})]
    OBVIOUS
  <2>2. crm \in [Ids -> (UNION {Records(i) : i \in Ids}) \cup {Gone}]
    OBVIOUS
  <2>3. 0 \in 0 .. MaxChanges /\ 0 \in 0 .. MaxLoops
    BY ReadsAssumption
  <2> QED
    BY <2>1, <2>2, <2>3 DEF ReadTypes
<1>3. AnswerTypes
  BY DEF AnswerTypes, Replies
<1>4. CrmInv
  BY <1>1 DEF CrmInv
<1>5. ReadInv
  <2>1. SingleInv /\ ListInv /\ LeadInv /\ BelongInv
    <3>1. \A i \in Ids : ~(i <= after)
      BY ReadsAssumption
    <3> QED
      BY <3>1 DEF SingleInv, ListInv, LeadInv, BelongInv, OneEntryEach
  <2>2. SearchInv
    BY FS_EmptySet DEF SearchInv, OneEntryEach
  <2> QED
    BY <1>4, <2>1, <2>2 DEF ReadInv
<1>6. ~Chosen /\ (Filtered => ~pipes)
  BY DEF Chosen, Answered, Filtered, StatusLists
<1>7. AnswerInv
  BY <1>6 DEF AnswerInv, PhaseInv, FilterInv, ShownInv, ReportSaysPartial, Answered
<1> QED
  BY <1>2, <1>3, <1>5, <1>7 DEF IndInv, TypeOK

\* THEOREM: whatever HubSpot answers and whoever changes it, what is read and what is
\* made of it stays as IndInv says.
THEOREM IndInvHolds == Spec => []IndInv
<1>1. IndInv /\ [Next]_vars => IndInv'
  <2> SUFFICES ASSUME IndInv, [Next]_vars
               PROVE  IndInv'
    OBVIOUS
  <2>1. CASE Begin
    BY <2>1, BeginKeeps
  <2>2. CASE CallFails
    BY <2>2, CallFailsKeeps
  <2>3. CASE ReadPipelines
    BY <2>3, ReadPipelinesKeeps
  <2>4. CASE ReadPage
    BY <2>4, ReadPageKeeps
  <2>5. CASE ReadGlitch
    BY <2>5, ReadGlitchKeeps
  <2>6. CASE ReadBatch
    BY <2>6, ReadBatchKeeps
  <2>7. CASE Choose
    BY <2>7, ChooseKeeps
  <2>8. CASE Link
    BY <2>8, LinkKeeps
  <2>9. CASE Conclude
    BY <2>9, ConcludeKeeps
  <2>10. CASE \E e \in got : CompleteRow(e)
    BY <2>10, CompleteRowKeeps
  <2>11. CASE \E e \in got : RowRaises(e)
    BY <2>11, RowRaisesKeeps
  <2>12. CASE \E e \in got : Assess(e)
    BY <2>12, AssessKeeps
  <2>13. CASE \E i \in Ids : Change(i)
    BY <2>13, ChangeKeeps
  <2>14. CASE \E e \in got : Relate(e)
    BY <2>14, RelateKeeps
  <2>15. CASE Summarize
    BY <2>15, SummarizeKeeps
  <2>16. CASE UNCHANGED vars
    BY <2>16, StutterKeeps
  <2> QED
    BY <2>1, <2>2, <2>3, <2>4, <2>5, <2>6, <2>7, <2>8, <2>9, <2>10, <2>11, <2>12, <2>13, <2>14,
       <2>15, <2>16
    DEF Next, Reader
<1> QED
  BY <1>1, InitHolds, PTL DEF Spec

\* THEOREM: the variables keep their types, and nothing is shown that was not read.
THEOREM TypeCorrect == Spec => []TypeOK
<1>1. IndInv => TypeOK
  BY DEF IndInv
<1> QED
  BY <1>1, IndInvHolds, PTL

\* THEOREM: a report without the AI's word on one of its entries says so.
THEOREM PartialIsSaid == Spec => []ReportSaysPartial
<1>1. IndInv => ReportSaysPartial
  BY DEF IndInv, AnswerInv
<1> QED
  BY <1>1, IndInvHolds, PTL

\* THEOREM: an answer shows only what was so since it was asked for, and was asked for.
THEOREM AnswersAreTrue == Spec => []RowsWereTrue
<1>1. ASSUME IndInv
      PROVE  RowsWereTrue
  <2>1. shown \subseteq got /\ \A e \in got : EntryInv(e)
    BY <1>1 DEF IndInv, TypeOK, AnswerTypes, ReadInv
  <2>2. \A e \in shown : Asked(e.rec)
    BY <1>1 DEF IndInv, AnswerInv, ShownInv
  <2>3. ASSUME NEW e \in shown, Answered
        PROVE  \E r \in past[e.id] \ {Gone} : Belongs(r)
    <3>1. CASE question.kind = "account_summary"
      BY <1>1, <2>1, <2>3, <3>1 DEF IndInv, ReadInv, BelongInv
    <3>2. CASE question.kind # "account_summary"
      BY <2>1, <2>3, <3>2 DEF EntryInv, Belongs
    <3> QED
      BY <3>1, <3>2
  <2> QED
    BY <2>1, <2>2, <2>3 DEF RowsWereTrue, EntryInv
<1> QED
  BY <1>1, IndInvHolds, PTL

\* THEOREM: a filter that cannot be applied as a whole is refused.
THEOREM FiltersAreWhole == Spec => []RefusedUnasked
<1>1. ASSUME IndInv, Filtered
      PROVE  LET f == question.filter
                 readable == ~f.unsupported /\ \A c \in f.conditions : c.value \notin {Absent, Invalid} IN
             /\ ~readable => pages = 0 /\ ~pipes
             /\ Answered => /\ readable
                            /\ \A name \in f.stages : \E s \in Stages : name \in {s, StageLabel[s]}
  <2> DEFINE f == question.filter
             readable == ~f.unsupported /\ \A c \in f.conditions : c.value \notin {Absent, Invalid}
  <2>1. FilterInv /\ PhaseInv /\ TypeOK
    BY <1>1 DEF IndInv, AnswerInv
  <2>2. ~readable => Unbuildable(f)
    BY DEF Unbuildable, Unreadable, IsNumber
  <2>3. ASSUME Answered
        PROVE  pipes /\ ~Unbuildable(f) /\ ~UnclearStage(f)
    BY <1>1, <2>1, <2>3 DEF FilterInv, PhaseInv, Chosen, Answered, TypeOK, AnswerTypes
  <2>4. ASSUME ~UnclearStage(f), NEW name \in f.stages
        PROVE  \E s \in Stages : name \in {s, StageLabel[s]}
    <3>1. Cardinality(Named(name)) = 1
      BY <2>4 DEF UnclearStage
    <3>2. Named(name) # {}
      BY <3>1, FS_EmptySet
    <3> QED
      BY <3>2 DEF Named
  <2> QED
    BY <1>1, <2>1, <2>2, <2>3, <2>4 DEF FilterInv
<1>2. IndInv => RefusedUnasked
  BY <1>1 DEF RefusedUnasked
<1> QED
  BY <1>2, IndInvHolds, PTL

\* LEMMA: of a record that nobody touched, an entry says what it is.
LEMMA EntryOfUntouched ==
  ASSUME IndInv, NEW e \in got, Untouched(e.id)
  PROVE  e.rec = crm[e.id]
<1>1. WasSo(e) /\ e.id \in Ids /\ past[e.id] = {crm[e.id]} /\ crm[e.id] # Gone
      /\ crm[e.id] \in Records(e.id)
  BY DEF IndInv, ReadInv, CrmInv, TypeOK, ReadTypes, EntryInv, Untouched
<1>2. CASE question.kind = "lead_qualification"
  <2>1. crm[e.id] = [crm[e.id] EXCEPT !.company = crm[e.id].company]
    BY <1>1, <1>2, ReadsAssumption DEF Records, ObjectOf
  <2> QED
    BY <1>1, <1>2, <2>1 DEF WasSo
<1>3. CASE question.kind # "lead_qualification"
  BY <1>1, <1>3 DEF WasSo
<1> QED
  BY <1>2, <1>3

\* LEMMA: when the paging went well, all untouched records that are meant are read, once.
LEMMA AllAreRead ==
  ASSUME IndInv, Answered, Pageable, ~Single, ~more, NEW i \in Ids, Untouched(i), Meant(crm[i]),
         Belongs(crm[i])
  PROVE  OneEntryEach /\ \E e \in got : e.id = i
<1>1. ReadInv /\ FilterInv /\ PhaseInv /\ listed /\ reply # "unavailable" /\ reply # "invalid_filter"
      /\ pc = "done"
  BY DEF IndInv, AnswerInv, PhaseInv, Chosen, Answered, TypeOK, AnswerTypes
<1>2. CASE Searching
  <2>1. i \in Hits
    BY <1>2 DEF Hits, Live, Untouched, Meant
  <2>2. Filtering => ~Unbuildable(question.filter)
    BY <1>1 DEF FilterInv, Filtering
  <2>3. OneEntryEach /\ {e.id : e \in got} = Hits
    BY <1>1, <1>2, <2>2 DEF ReadInv, SearchInv, Pageable
  <2>4. i \in {e.id : e \in got}
    BY <2>1, <2>3
  <2> QED
    BY <2>3, <2>4
<1>3. CASE ~Searching
  BY <1>1, <1>3 DEF ReadInv, ListInv, Pageable, Meant
<1> QED
  BY <1>2, <1>3

\* THEOREM: a list, or the sum of the revenue, has every record it is about that nobody
\* touched, once, whatever is changed, created or deleted between the pages.
THEOREM ListsAreWhole == Spec => []NothingMissed
<1>1. ASSUME IndInv, Answered, Pageable,
             question.kind \in (Tables \ Details) \cup {"closed_won_revenue", "account_summary"},
             Filtered => question.filter.limit = Absent,
             NEW i \in Ids, Untouched(i), Concerns(crm[i]), Meant(crm[i]), Belongs(crm[i])
      PROVE  Cardinality({e \in shown : e.id = i}) = 1
  <2>1. ~Single /\ ~more /\ question.kind \notin {"lead_qualification", "deal_follow_up", "deal_analysis"}
    BY <1>1 DEF Single, Tables, StatusLists, Searches, Related, Details, IndInv, AnswerInv, PhaseInv
  <2>2. OneEntryEach
    BY <1>1, <2>1, AllAreRead
  <2>3. PICK e \in got : e.id = i
    BY <1>1, <2>1, AllAreRead
  <2>4. e.rec = crm[i]
    BY <1>1, <2>3, EntryOfUntouched
  <2>5. shown = {x \in got : Concerns(x.rec)}
    BY <1>1, <2>1 DEF IndInv, AnswerInv, ShownInv, Chosen, Selection
  <2>6. {x \in shown : x.id = i} = {e}
    BY <1>1, <2>2, <2>3, <2>4, <2>5 DEF OneEntryEach
  <2> QED
    BY <2>6, FS_Singleton
<1>2. IndInv => NothingMissed
  BY <1>1 DEF NothingMissed
<1> QED
  BY <1>2, IndInvHolds, PTL

\* THEOREM: a report of leads that does not speak of more contacts is about all of them.
THEOREM MoreContactsAreSaid == Spec => []MoreIsSaid
<1>1. ASSUME IndInv, Answered, ~glitched, question.kind = "lead_qualification", ~more,
             NEW i \in Ids, Untouched(i)
      PROVE  \E e \in got : e.id = i
  <2>1. ~Searching /\ ~Single /\ question.kind \notin Related /\ ~Filtering
    BY <1>1 DEF Searching, Filtering, Filtered, StatusLists, Searches, Single, Details, Related
  <2> QED
    BY <1>1, <2>1, AllAreRead DEF Pageable, Meant, Linked, Belongs
<1>2. IndInv => MoreIsSaid
  BY <1>1 DEF MoreIsSaid, IndInv, ReadInv, LeadInv
<1> QED
  BY <1>2, IndInvHolds, PTL

-----------------------------------------------------------------------------
(* What is cut.  Before is an order of the entries that may be shown.      *)

\* The records can be compared as the question compares them.
Comparable(r) ==
  CASE question.kind = "deal_follow_up" -> r.idle \in Int
    [] question.kind = "lead_qualification" -> Score(r) \in Int
    [] OTHER -> Filtered => {r.amount, r.close} \subseteq Int \cup {Absent, Invalid}

\* LEMMA: the score of a lead is a number.
LEMMA ScoreIsNumber == ASSUME NEW c PROVE Score(c) \in Int
<1>1. LifecyclePoints(c) \in Int
  BY DEF LifecyclePoints
<1>2. StatusPoints(c) \in Int
  BY DEF StatusPoints
<1>3. TitlePoints(c) \in Int
  BY DEF TitlePoints
<1>4. ActivityPoints(c) \in Int
  BY DEF ActivityPoints
<1>5. CompanyPoints(c) \in Int
  BY DEF CompanyPoints
<1> QED
  BY <1>1, <1>2, <1>3, <1>4, <1>5 DEF Score

\* LEMMA: what is better than something is better, or it is not, than anything else.
LEMMA BetterIsOrder ==
  ASSUME NEW r, NEW s, NEW t, Comparable(r), Comparable(s), Comparable(t)
  PROVE  /\ ~Better(r, r)
         /\ Better(r, s) => ~Better(s, r)
         /\ Better(r, s) /\ Better(s, t) => Better(r, t)
         /\ ~Better(r, s) /\ ~Better(s, t) => ~Better(r, t)
<1>1. CASE question.kind = "deal_follow_up"
  BY <1>1 DEF Better, Comparable, MoreUrgent
<1>2. CASE question.kind = "lead_qualification"
  BY <1>2, ScoreIsNumber DEF Better
<1>3. CASE question.kind \notin {"deal_follow_up", "lead_qualification"}
  <2>1. \A x, y : Better(x, y) <=> Filtered /\ Sorted(question.filter, x, y)
    BY <1>3 DEF Better
  <2>2. CASE ~Filtered
    BY <2>1, <2>2
  <2>3. CASE Filtered /\ question.filter.sort = Absent
    BY <2>1, <2>3 DEF Sorted
  <2>4. CASE Filtered /\ question.filter.sort # Absent
    <3> DEFINE K(x) == SortKey(question.filter, x)
    <3>1. \A x : Comparable(x) => K(x) \in Int \/ ~IsNumber(K(x))
      BY <1>3, <2>4 DEF Comparable, SortKey, IsNumber
    <3>2. \A x, y : Better(x, y) <=>
            /\ IsNumber(K(x))
            /\ IsNumber(K(y)) =>
                 IF question.filter.sort.direction = "desc" THEN K(x) > K(y) ELSE K(x) < K(y)
      BY <2>1, <2>4 DEF Sorted
    <3> HIDE DEF K
    <3> QED
      BY <3>1, <3>2
  <2> QED
    BY <2>2, <2>3, <2>4
<1> QED
  BY <1>1, <1>2, <1>3

\* LEMMA: the first n that can be compared are n, or all there are, and none is better.
LEMMA FirstIsBest ==
  ASSUME NEW S, \A e \in S : e.id \in Ids /\ e.page \in Nat /\ Comparable(e.rec), OfOneEach(S),
         NEW n \in Nat, NEW F, F = First(n, S)
  PROVE  /\ F \subseteq S
         /\ F # S => Cardinality(F) = n
         /\ \A x \in F, y \in S \ F : ~Better(y.rec, x.rec)
<1> DEFINE R == {p \in S \X S : Before(p[1], p[2])}
<1>1. \A e, f \in S : <<e, f>> \in R <=> Before(e, f)
  OBVIOUS
<1>2. \A e \in S : e.id \in Nat /\ e.page \in Nat
  BY LiveIsFinite
<1> HIDE DEF R
<1>3. /\ \A e \in S : ~Earlier(e, e)
      /\ \A e, f, g \in S : Earlier(e, f) /\ Earlier(f, g) => Earlier(e, g)
  BY <1>2 DEF Earlier, ReadBefore
<1>4. ASSUME NEW e \in S, NEW f \in S, e # f
      PROVE  Earlier(e, f) \/ Earlier(f, e)
  <2>1. e.id # f.id
    BY <1>4 DEF OfOneEach
  <2> QED
    BY <1>2, <2>1 DEF Earlier, ReadBefore
<1>5. Orders(R, S)
  <2>1. \A e \in S : ~Before(e, e)
    BY <1>3, BetterIsOrder DEF Before
  <2>2. ASSUME NEW e \in S, NEW f \in S, NEW g \in S, Before(e, f), Before(f, g)
        PROVE  Before(e, g)
    <3>1. Comparable(e.rec) /\ Comparable(f.rec) /\ Comparable(g.rec)
      OBVIOUS
    <3>2. CASE Better(e.rec, f.rec) /\ Better(f.rec, g.rec)
      BY <3>1, <3>2, BetterIsOrder DEF Before
    <3>3. CASE Better(e.rec, f.rec) /\ ~Better(g.rec, f.rec)
      BY <3>1, <3>3, BetterIsOrder DEF Before
    <3>4. CASE ~Better(f.rec, e.rec) /\ Better(f.rec, g.rec)
      BY <3>1, <3>4, BetterIsOrder DEF Before
    <3>5. CASE ~Better(f.rec, e.rec) /\ Earlier(e, f) /\ ~Better(g.rec, f.rec) /\ Earlier(f, g)
      BY <1>3, <3>1, <3>5, BetterIsOrder DEF Before
    <3> QED
      BY <2>2, <3>2, <3>3, <3>4, <3>5 DEF Before
  <2> QED
    BY <1>1, <2>1, <2>2 DEF Orders
<1>6. \A e, f \in S : e = f \/ <<e, f>> \in R \/ <<f, e>> \in R
  <2>1. ASSUME NEW e \in S, NEW f \in S, e # f
        PROVE  Before(e, f) \/ Before(f, e)
    BY <1>4, <2>1 DEF Before
  <2> QED
    BY <1>1, <2>1
<1>7. \A e \in S : Below(e, S, R) = {f \in S : Before(f, e)}
  BY <1>1 DEF Below
<1>8. F \in SUBSET S /\ \A e \in S : e \in F <=> Cardinality(Below(e, S, R)) < n
  BY <1>7 DEF First
<1>9. IsFiniteSet(S) /\ Cardinality(S) \in Nat
  BY EntriesAreFinite
<1>10. /\ Cardinality(S) <= n => F = S
       /\ Cardinality(S) >= n => Cardinality(F) = n
       /\ \A x \in F, y \in S \ F : <<x, y>> \in R
  BY <1>5, <1>6, <1>8, <1>9, FirstOnes
<1>11. ASSUME NEW x \in F, NEW y \in S \ F
       PROVE  ~Better(y.rec, x.rec)
  <2>1. Before(x, y) /\ x \in S
    BY <1>1, <1>8, <1>10
  <2>2. Comparable(x.rec) /\ Comparable(y.rec)
    BY <2>1
  <2> QED
    BY <2>1, <2>2, BetterIsOrder DEF Before
<1> QED
  BY <1>8, <1>9, <1>10, <1>11

Concerned == {e \in got : Concerns(e.rec)}

\* LEMMA: what concerns the question can be compared.
LEMMA ReadIsComparable ==
  ASSUME IndInv, NEW e \in got, question.kind = "lead_qualification" \/ Concerns(e.rec)
  PROVE  Comparable(e.rec) /\ e.id \in Ids /\ e.page \in Nat
<1>1. WasSo(e) /\ e.id \in Ids /\ e.page \in Nat /\ past[e.id] \subseteq Records(e.id) \cup {Gone}
  BY ReadsAssumption DEF IndInv, ReadInv, CrmInv, TypeOK, ReadTypes, EntryInv
<1>2. CASE question.kind = "lead_qualification"
  BY <1>1, <1>2, ScoreIsNumber DEF Comparable
<1>3. CASE question.kind = "deal_follow_up"
  <2>1. e.rec \in RecordsOf["deals"][e.id]
    BY <1>1, <1>3 DEF WasSo, Records, ObjectOf
  <2>2. e.rec.idle \in Int \cup {Absent, Invalid} /\ e.rec.idle # Invalid
    BY <1>1, <2>1, ReadsAssumption
  <2>3. e.rec.idle # Absent
    <3>1. Concerns(e.rec)
      BY <1>3
    <3>2. Due(e.rec)
      BY <1>3, <3>1 DEF Concerns, StatusLists
    <3> QED
      BY <3>2 DEF Due
  <2> QED
    BY <1>1, <1>3, <2>2, <2>3 DEF Comparable
<1>4. CASE question.kind \notin {"lead_qualification", "deal_follow_up"}
  <2>1. ASSUME Filtered
        PROVE  {e.rec.amount, e.rec.close} \subseteq Int \cup {Absent, Invalid}
    <3>1. e.rec \in RecordsOf["deals"][e.id]
      BY <1>1, <1>4, <2>1 DEF WasSo, Records, ObjectOf, Filtered, StatusLists
    <3> QED
      BY <1>1, <3>1, ReadsAssumption
  <2> QED
    BY <1>1, <1>4, <2>1 DEF Comparable
<1> QED
  BY <1>2, <1>3, <1>4

\* THEOREM: a list or a report that is cut shows the first of those it is about.
THEOREM CutsAreFair == Spec => []MostUrgentShown
<1>1. ASSUME IndInv, Answered, Pageable, NEW i \in Ids, Untouched(i), Concerns(crm[i]),
             \A e \in shown : e.id # i,
             ~more, question.kind # "deal_analysis", ~Single, Meant(crm[i]), Belongs(crm[i])
      PROVE  OfOneEach(got) /\ shown = Selection /\ \E e \in got : e.id = i /\ e.rec = crm[i] /\ e \notin shown
  <2>1. PICK e \in got : e.id = i
    BY <1>1, AllAreRead
  <2>2. e.rec = crm[i]
    BY <1>1, <2>1, EntryOfUntouched
  <2>3. OfOneEach(got)
    BY <1>1, AllAreRead DEF OneEntryEach, OfOneEach
  <2>4. shown = Selection
    BY <1>1 DEF IndInv, AnswerInv, ShownInv, Chosen
  <2> QED
    BY <1>1, <2>1, <2>2, <2>3, <2>4
<1>2. ASSUME IndInv, Answered, Pageable, NEW i \in Ids, Untouched(i), Concerns(crm[i]),
             \A e \in shown : e.id # i, NEW n \in Nat,
             Selection = First(n, Concerned),
             question.kind = "deal_follow_up" \/ Filtered
      PROVE  DealOut(crm[i], n)
  <2>1. /\ ~more /\ question.kind # "deal_analysis" /\ ~Single /\ question.kind \notin Related \cup Searches
    BY <1>2 DEF IndInv, AnswerInv, PhaseInv, Filtered, StatusLists, Single, Details, Related, Searches
  <2>a. Belongs(crm[i])
    BY <1>2 DEF Belongs, Filtered, StatusLists
  <2>2. Meant(crm[i])
    <3>1. CASE Searching
      BY <1>2, <2>1, <3>1 DEF Searching, Filtering, Filtered, Meant, Linked, Hit, Concerns, Passes, StatusLists
    <3>2. CASE ~Searching
      BY <2>1, <3>2 DEF Meant, Linked
    <3> QED
      BY <3>1, <3>2
  <2>3. OfOneEach(got) /\ shown = Selection
    BY <1>1, <1>2, <2>1, <2>2, <2>a
  <2>4. PICK e \in got : e.id = i /\ e.rec = crm[i] /\ e \notin shown
    BY <1>1, <1>2, <2>1, <2>2, <2>a
  <2>5. PICK S : S = Concerned
    OBVIOUS
  <2>6. \A x \in S : x.id \in Ids /\ x.page \in Nat /\ Comparable(x.rec)
    BY <1>2, <2>5, ReadIsComparable DEF Concerned
  <2>7. OfOneEach(S)
    BY <2>3, <2>5 DEF OfOneEach, Concerned
  <2>8. /\ shown # S => Cardinality(shown) = n
        /\ \A x \in shown, y \in S \ shown : ~Better(y.rec, x.rec)
    BY <1>2, <2>3, <2>5, <2>6, <2>7, FirstIsBest
  <2>9. e \in S \ shown
    BY <1>2, <2>4, <2>5 DEF Concerned
  <2> QED
    BY <2>4, <2>8, <2>9 DEF DealOut
<1>3. ASSUME IndInv, Answered, Pageable, NEW i \in Ids, Untouched(i),
             \A e \in shown : e.id # i, question.kind = "lead_qualification", ~more
      PROVE  LeadOut(crm[i])
  <2>1. /\ ~Single /\ ~Searching /\ question.kind \notin Related
        /\ question.kind # "deal_analysis" /\ ~Filtered /\ question.kind \notin StatusLists
    BY <1>3 DEF Searching, Filtering, Filtered, StatusLists, Searches, Single, Details, Related
  <2>2. Concerns(crm[i]) /\ Meant(crm[i]) /\ Belongs(crm[i])
    BY <1>3, <2>1 DEF Concerns, Meant, Linked, Belongs
  <2>3. OfOneEach(got) /\ shown = BestLeads
    BY <1>1, <1>3, <2>1, <2>2 DEF Selection
  <2>4. PICK e \in got : e.id = i /\ e.rec = crm[i] /\ e \notin shown
    BY <1>1, <1>3, <2>1, <2>2
  <2>5. PICK W : W = {x \in got : Priority(x.rec) # "Low"}
    OBVIOUS
  <2>6. \A r : WorthAsking(r) <=> Priority(r) # "Low"
    <3>1. \A r : Score(r) \in Int
      BY ScoreIsNumber
    <3> QED
      BY <3>1 DEF WorthAsking, Priority
  <2>7. \A x \in got : WorthAsking(x.rec) <=> x \in W
    BY <2>5, <2>6
  <2>8. CASE W = {}
    <3>1. shown \subseteq got
      BY <1>3 DEF IndInv, TypeOK, AnswerTypes
    <3>2. ~WorthAsking(crm[i]) /\ \A x \in shown : ~WorthAsking(x.rec)
      BY <2>4, <2>7, <2>8, <3>1
    <3> QED
      BY <3>2 DEF LeadOut
  <2>9. CASE W # {}
    <3>1. shown = First(LeadBatch, W)
      BY <2>3, <2>5, <2>9 DEF BestLeads
    <3>2. \A x \in W : x.id \in Ids /\ x.page \in Nat /\ Comparable(x.rec)
      BY <1>3, <2>5, ReadIsComparable
    <3>3. OfOneEach(W)
      BY <2>3, <2>5 DEF OfOneEach
    <3>4. /\ shown \subseteq W
          /\ shown # W => Cardinality(shown) = LeadBatch
          /\ \A x \in shown, y \in W \ shown : ~Better(y.rec, x.rec)
      BY <3>1, <3>2, <3>3, FirstIsBest, ReadsAssumption
    <3>5. \A x \in shown : WorthAsking(x.rec)
      BY <2>5, <2>7, <3>4
    <3>6. ASSUME WorthAsking(crm[i])
          PROVE  /\ Cardinality(shown) = LeadBatch
                 /\ \A x \in shown : Score(crm[i]) <= Score(x.rec)
      <4>1. e \in W \ shown
        BY <2>4, <2>7, <3>6
      <4>2. ASSUME NEW x \in shown
            PROVE  Score(crm[i]) <= Score(x.rec)
        <5>1. ~(Score(crm[i]) > Score(x.rec))
          BY <1>3, <2>4, <3>4, <4>1 DEF Better
        <5>2. Score(crm[i]) \in Int /\ Score(x.rec) \in Int
          BY ScoreIsNumber
        <5> QED
          BY <5>1, <5>2
      <4> QED
        BY <3>4, <4>1, <4>2
    <3> QED
      BY <3>5, <3>6 DEF LeadOut
  <2> QED
    BY <2>8, <2>9
<1>4. ASSUME IndInv, Answered, Pageable, NEW i \in Ids, Untouched(i), Concerns(crm[i]),
             \A e \in shown : e.id # i
      PROVE  /\ question.kind = "lead_qualification" => more \/ LeadOut(crm[i])
             /\ question.kind = "deal_follow_up" => DealOut(crm[i], DealBatch)
             /\ Filtered /\ question.filter.limit # Absent => DealOut(crm[i], question.filter.limit)
  <2>1. CASE question.kind = "lead_qualification"
    BY <1>3, <1>4, <2>1 DEF Filtered, StatusLists
  <2>2. CASE question.kind = "deal_follow_up"
    <3>1. Selection = First(DealBatch, Concerned) /\ ~Filtered
      BY <2>2 DEF Selection, Concerned, Filtered, StatusLists
    <3> QED
      BY <1>2, <1>4, <2>2, <3>1, ReadsAssumption
  <2>3. CASE Filtered /\ question.filter.limit # Absent
    <3>1. question.kind \notin {"lead_qualification", "deal_follow_up"}
      BY <2>3 DEF Filtered, StatusLists
    <3>2. Selection = First(question.filter.limit, Concerned)
      BY <2>3, <3>1 DEF Selection, Concerned
    <3>3. question.filter.limit \in Nat
      BY <1>4, <2>3, ReadsAssumption DEF IndInv, TypeOK, ReadTypes, Filtered
    <3> QED
      BY <1>2, <1>4, <2>3, <3>1, <3>2, <3>3
  <2> QED
    BY <2>1, <2>2, <2>3
<1>5. IndInv => MostUrgentShown
  BY <1>4 DEF MostUrgentShown
<1> QED
  BY <1>5, IndInvHolds, PTL

-----------------------------------------------------------------------------
(* The reader goes on. *)

\* LEMMA: a page's cursor is an id, or an offset that the matches have room for.
LEMMA CursorsAreFew ==
  ASSUME TypeOK, NEW page \in Pages
  PROVE  page.next \in Cursors \cup {None}
<1>1. CASE page \in TheRecord
  BY <1>1 DEF TheRecord
<1>2. CASE page \in ListPages
  BY <1>2, ListPageFacts DEF Cursors
<1>3. CASE page \in SearchPages
  <2> DEFINE now == {i \in Live : Hit(crm[i])}
             ever == {i \in Live : \E r \in past[i] \ {Gone} : Hit(r)}
             Left(hits) == {i \in hits : Cardinality({j \in hits : j < i}) >= after}
  <2>1. PICK hits \in {now, ever} : \E ids \in Prefixes(Left(hits)) :
          page = [ids |-> ids,
                  next |-> IF ids = Left(hits) THEN None ELSE after + Cardinality(ids)]
    BY <1>3 DEF SearchPages
  <2>2. PICK ids \in Prefixes(Left(hits)) :
          page = [ids |-> ids,
                  next |-> IF ids = Left(hits) THEN None ELSE after + Cardinality(ids)]
    BY <2>1
  <2>3. hits \in SUBSET Ids /\ ids \in SUBSET Ids /\ Cardinality(ids) <= PageSize
        /\ (ids = {} => Left(hits) = {})
    BY LiveIsFinite DEF Prefixes
  <2>4. CASE ids = Left(hits)
    BY <2>2, <2>4
  <2>5. CASE ids # Left(hits)
    <3>1. PICK i \in ids : i \in Left(hits)
      BY <2>3, <2>5 DEF Prefixes
    <3>2. Cardinality({j \in hits : j < i}) >= after
      BY <3>1
    <3>3. /\ {j \in hits : j < i} \in SUBSET Ids /\ IsFiniteSet(Ids) /\ Cardinality(Ids) \in Nat
          /\ Cardinality({j \in hits : j < i}) \in Nat /\ Cardinality(ids) \in Nat
      BY <2>3, LiveIsFinite
    <3>4. Cardinality({j \in hits : j < i}) <= Cardinality(Ids)
      BY <3>3, FS_Subset
    <3>5. after \in Nat /\ PageSize \in Nat
      BY ReadsAssumption DEF TypeOK, ReadTypes
    <3>6. page.next = after + Cardinality(ids)
      BY <2>2, <2>5
    <3> HIDE DEF Left, now, ever
    <3>7. after + Cardinality(ids) \in 0 .. Cardinality(Ids) + PageSize
      BY <2>3, <3>2, <3>3, <3>4, <3>5
    <3> QED BY <3>6, <3>7 DEF Cursors
  <2> QED BY <2>4, <2>5
<1> QED BY <1>1, <1>2, <1>3 DEF Pages

\* LEMMA: what a function makes of finitely many is finite.
LEMMA ImageIsFinite ==
  ASSUME NEW S, IsFiniteSet(S), NEW f, f = [x \in S |-> f[x]]
  PROVE  IsFiniteSet({f[x] : x \in S})
<1> DEFINE T == {f[x] : x \in S}
<1>1. f \in [S -> T] /\ \A y \in T : \E x \in S : f[x] = y
  OBVIOUS
<1> HIDE DEF T
<1>2. f \in Surjection(S, T)
  BY <1>1 DEF Surjection
<1>3. IsFiniteSet(T)
  BY <1>2, FS_Surjection
<1> QED BY <1>3 DEF T

\* LEMMA: a page adds finitely many entries.
LEMMA TurnIsFinite ==
  ASSUME IsFiniteSet(got), NEW page, page.ids \in SUBSET Live, Turn(page)
  PROVE  IsFiniteSet(got')
<1> DEFINE entry == [i \in page.ids |-> [page |-> pages + 1, id |-> i, rec |-> crm[i]]]
           new == {[page |-> pages + 1, id |-> i, rec |-> crm[i]] : i \in page.ids}
<1>1. IsFiniteSet(page.ids)
  BY LiveIsFinite
<1>2. new = {entry[i] : i \in page.ids}
  OBVIOUS
<1>3. IsFiniteSet(new)
  <2> HIDE DEF new
  <2>1. entry = [i \in page.ids |-> entry[i]]
    OBVIOUS
  <2> HIDE DEF entry
  <2> QED BY <1>1, <1>2, <2>1, ImageIsFinite
<1>4. IsFiniteSet(got \cup new)
  BY <1>3, FS_Union
<1>5. got' \in SUBSET (got \cup new)
  BY DEF Turn, ReadFirst
<1> HIDE DEF new
<1> QED BY <1>4, <1>5, FS_Subset

\* LEMMA: only finitely much is read, even when the same page comes again.
LEMMA ReadIsFinite == Spec => []IsFiniteSet(got)
<1>1. Init => IsFiniteSet(got)
  BY FS_EmptySet DEF Init
<1>2. IndInv /\ IsFiniteSet(got) /\ [Next]_vars => IsFiniteSet(got)'
  <2> SUFFICES ASSUME IndInv, IsFiniteSet(got), [Next]_vars
               PROVE  IsFiniteSet(got')
    OBVIOUS
  <2>1. CASE ReadPage
    <3>1. PICK page \in Pages : Turn(page)
      BY <2>1 DEF ReadPage
    <3>2. page.ids \in SUBSET Live
      BY PageFacts DEF IndInv
    <3> QED BY <3>1, <3>2, TurnIsFinite
  <2>2. CASE ReadGlitch
    <3>1. PICK page \in Pages, next \in Ids : Turn([page EXCEPT !.next = next])
      BY <2>2 DEF ReadGlitch
    <3>2. page = [ids |-> page.ids, next |-> page.next] /\ page.ids \in SUBSET Live
      BY PageFacts DEF IndInv
    <3>3. PICK p : p = [page EXCEPT !.next = next]
      OBVIOUS
    <3>4. p.ids = page.ids /\ Turn(p)
      BY <3>1, <3>2, <3>3
    <3> QED BY <3>2, <3>4, TurnIsFinite
  <2>3. CASE ReadBatch
    <3> DEFINE ids == {e.id : e \in got} \cap Live
               entry == [i \in ids |-> [page |-> 1, id |-> i, rec |-> crm[i]]]
    <3>1. IsFiniteSet(ids)
      BY LiveIsFinite
    <3>2. got' = {entry[i] : i \in ids}
      BY <2>3 DEF ReadBatch
    <3>3. entry = [i \in ids |-> entry[i]]
      OBVIOUS
    <3> HIDE DEF ids, entry
    <3> QED BY <3>1, <3>2, <3>3, ImageIsFinite
  <2>4. CASE \E e \in got : Relate(e)
    <3>1. got' \in SUBSET got
      BY <2>4 DEF Relate
    <3> QED BY <3>1, FS_Subset
  <2>5. CASE \E e \in got : CompleteRow(e)
    <3>1. PICK e \in got : CompleteRow(e)
      BY <2>5
    <3>2. PICK f : f = [e EXCEPT !.rec.company = crm[e.id].company]
      OBVIOUS
    <3>3. got' \in SUBSET (got \cup {f})
      BY <3>1, <3>2 DEF CompleteRow
    <3>4. IsFiniteSet(got \cup {f})
      BY FS_AddElement
    <3> QED BY <3>3, <3>4, FS_Subset
  <2>6. CASE UNCHANGED got
    BY <2>6
  <2> QED
    BY <2>1, <2>2, <2>3, <2>4, <2>5, <2>6 DEF Next, Reader, Begin, CallFails, ReadPipelines,
       Summarize, Choose, Link, Conclude, RowRaises, Assess, Change, pageVars, vars
<1> QED BY <1>1, <1>2, IndInvHolds, PTL DEF Spec

\* LEMMA: so what is left of a part is finite.
LEMMA ToDoIsFinite ==
  ASSUME IndInv, IsFiniteSet(got)
  PROVE  IsFiniteSet(ToDo)
<1>1. IsFiniteSet({<<"page", c>> : c \in Cursors \ seen})
  <2> DEFINE item == [c \in Cursors \ seen |-> <<"page", c>>]
  <2>1. Cardinality(Ids) + PageSize \in Int
    BY LiveIsFinite, ReadsAssumption
  <2>2. IsFiniteSet(Cursors \ seen)
    <3>1. IsFiniteSet(0 .. Cardinality(Ids) + PageSize)
      BY <2>1, FS_Interval
    <3>2. IsFiniteSet(Cursors)
      BY <3>1, LiveIsFinite, FS_Union DEF Cursors
    <3> QED BY <3>2, FS_Difference
  <2>3. item = [c \in Cursors \ seen |-> item[c]]
        /\ {<<"page", c>> : c \in Cursors \ seen} = {item[c] : c \in Cursors \ seen}
    OBVIOUS
  <2> HIDE DEF item
  <2> QED BY <2>2, <2>3, ImageIsFinite
<1>2. IsFiniteSet({<<"pipelines">>}) /\ IsFiniteSet({})
  BY FS_Singleton, FS_EmptySet
<1>3. IsFiniteSet({e \in got : Key(e) \notin rows})
  BY FS_Subset
<1>4. IsFiniteSet(shown \ assessed)
  <2>1. shown \ assessed \in SUBSET got
    BY DEF IndInv, TypeOK, AnswerTypes
  <2> QED BY <2>1, FS_Subset
<1>5. CASE pc = "reading"
  <2>1. ToDo = {<<"page", c>> : c \in Cursors \ seen} \cup (IF pipes THEN {} ELSE {<<"pipelines">>})
    BY <1>5 DEF ToDo
  <2> QED BY <1>1, <1>2, <2>1, FS_Union
<1>6. CASE pc # "reading"
  BY <1>2, <1>3, <1>4, <1>6 DEF ToDo
<1> QED BY <1>5, <1>6

\* LEMMA: a page leads on, or leaves one cursor fewer to follow.
LEMMA TurnAdvances ==
  ASSUME IndInv, Reading, NEW page, page.next \in Cursors \cup {None}, Turn(page),
         UNCHANGED <<question, pipes>>
  PROVE  Stage' > Stage \/ (Stage' = Stage /\ ToDo' \subseteq ToDo /\ ToDo' # ToDo)
<1>1. pc = "reading" /\ listed = FALSE /\ Stage = 1
  BY DEF Reading, IndInv, TypeOK, ReadTypes, Stage
<1>2. CASE listed' = TRUE /\ (ToNextStage \/ pc' = pc)
  <2>1. pc' \in {"rows", "batch", "relating", "reading"}
    BY <1>1, <1>2 DEF ToNextStage
  <2> QED BY <1>1, <1>2, <2>1 DEF Stage
<1>3. CASE pc' = "done"
  BY <1>1, <1>3 DEF Stage
<1>4. CASE page.next # None /\ ~Repeats(page.next) /\ seen' = seen \cup {page.next}
           /\ pc' = pc /\ listed' = FALSE
  <2>1. Stage' = Stage
    BY <1>1, <1>4 DEF Stage
  <2> DEFINE Left(cs) == {<<"page", c>> : c \in cs}
             Pipes == IF pipes THEN {} ELSE {<<"pipelines">>}
  <2>2. /\ ToDo = Left(Cursors \ seen) \cup Pipes
        /\ ToDo' = Left(Cursors \ seen') \cup Pipes
    BY <1>1, <1>4 DEF ToDo, Cursors
  <2>3. page.next \in Cursors \ seen /\ page.next \notin Cursors \ seen'
    BY <1>4 DEF Repeats
  <2>4. <<"page", page.next>> \notin Left(Cursors \ seen') \cup Pipes
    BY <2>3
  <2>5. ToDo' \subseteq ToDo
    BY <1>4, <2>2
  <2> QED BY <2>1, <2>2, <2>3, <2>4, <2>5
<1> QED
  BY <1>1, <1>2, <1>3, <1>4 DEF Turn, Last, Answer, Filtering

\* LEMMA: every step of the reader goes on.
LEMMA ReaderGoesOn ==
  ASSUME IndInv, Reader
  PROVE  /\ changes' = changes /\ Stage \in 0 .. 7
         /\ Stage' > Stage \/ (Stage' = Stage /\ ToDo' \subseteq ToDo /\ ToDo' # ToDo)
<1> DEFINE GoesOn == Stage' > Stage \/ (Stage' = Stage /\ ToDo' \subseteq ToDo /\ ToDo' # ToDo)
<1>1. changes' = changes
  BY DEF Reader, Begin, CallFails, ReadPipelines, ReadPage, ReadGlitch, ReadBatch, Summarize,
     Choose, Link, Conclude, Relate, CompleteRow, RowRaises, Assess, crmVars
<1>2. pc \in {"asked", "reading", "batch", "relating", "rows", "links", "assessing"}
  BY DEF Reader, Begin, CallFails, ReadPipelines, ReadPage, ReadGlitch, Reading, ReadBatch,
     Summarize, Choose, Link, Conclude, Relate, CompleteRow, RowRaises, Assess
<1>3. Stage \in 0 .. 7 /\ listed \in BOOLEAN
  BY <1>2 DEF Stage, IndInv, TypeOK, ReadTypes
<1>4. ASSUME pc' \in {"done", "raised"}
      PROVE  GoesOn
  <2>1. Stage' = 8
    BY <1>4 DEF Stage
  <2> QED BY <1>3, <2>1
<1> SUFFICES GoesOn
  BY <1>1, <1>3
<1>5. CASE Begin
  <2>1. CASE pc' = "done"
    BY <1>4, <2>1
  <2>2. CASE pc' = "reading"
    <3>1. Stage = 0 /\ Stage' \in {1, 3}
      BY <1>5, <2>2 DEF Begin, Stage
    <3> QED BY <3>1
  <2> QED BY <1>5, <2>1, <2>2 DEF Begin, Answer
<1>6. CASE CallFails \/ Summarize \/ \E e \in got : RowRaises(e)
  <2>1. pc' \in {"done", "raised"}
    BY <1>6 DEF CallFails, Summarize, RowRaises, Answer
  <2> QED BY <1>4, <2>1
<1>7. CASE ReadPipelines
  <2>1. CASE pc' = "done"
    BY <1>4, <2>1
  <2>2. CASE pc' = pc
    <3>1. pc = "reading" /\ pipes = FALSE /\ pipes' = TRUE /\ UNCHANGED <<seen, listed, question>>
      BY <1>7 DEF ReadPipelines, pageVars, IndInv, TypeOK, AnswerTypes
    <3>2. Stage' = Stage
      BY <2>2, <3>1 DEF Stage
    <3>3. /\ ToDo = {<<"page", c>> : c \in Cursors \ seen} \cup {<<"pipelines">>}
          /\ ToDo' = {<<"page", c>> : c \in Cursors \ seen}
      BY <2>2, <3>1 DEF ToDo, Cursors
    <3>4. \A c : <<"page", c>> # <<"pipelines">>
      OBVIOUS
    <3> QED BY <3>2, <3>3, <3>4
  <2> QED BY <1>7, <2>1, <2>2 DEF ReadPipelines, Answer
<1>8. CASE ReadPage
  <2>1. PICK page \in Pages : Turn(page)
    BY <1>8 DEF ReadPage
  <2>2. Reading /\ UNCHANGED <<question, pipes>> /\ TypeOK
    BY <1>8 DEF ReadPage, IndInv
  <2> QED BY <2>1, <2>2, CursorsAreFew, TurnAdvances
<1>9. CASE ReadGlitch
  <2>1. PICK page \in Pages, next \in Ids : Turn([page EXCEPT !.next = next])
    BY <1>9 DEF ReadGlitch
  <2>2. Reading /\ UNCHANGED <<question, pipes>> /\ TypeOK
    BY <1>9 DEF ReadGlitch, IndInv
  <2>3. page = [ids |-> page.ids, next |-> page.next]
    BY <2>2, PageFacts
  <2>4. PICK p : p = [page EXCEPT !.next = next]
    OBVIOUS
  <2>5. p.next = next /\ next \in Cursors /\ Turn(p)
    BY <2>1, <2>3, <2>4 DEF Cursors
  <2> QED BY <2>2, <2>5, TurnAdvances
<1>10. CASE ReadBatch
  <2>1. pc = "batch" /\ listed = TRUE /\ pc' = "reading" /\ listed' = TRUE
    BY <1>10 DEF ReadBatch, IndInv, AnswerInv, PhaseInv, TypeOK, ReadTypes
  <2> QED BY <2>1 DEF Stage
<1>11. CASE \E e \in got : Relate(e) \/ CompleteRow(e)
  <2>1. PICK e \in got : Relate(e) \/ CompleteRow(e)
    BY <1>11
  <2>2. /\ pc \in {"relating", "rows"} /\ pc' = pc /\ Key(e) \notin rows
        /\ UNCHANGED <<listed, question>>
    BY <2>1 DEF Relate, CompleteRow
  <2>3. Stage' = Stage
    BY <2>2 DEF Stage
  <2>4. /\ ToDo = {f \in got : Key(f) \notin rows}
        /\ ToDo' = {f \in got' : Key(f) \notin rows'}
    BY <2>2 DEF ToDo
  <2>5. CASE Relate(e)
    <3>1. \/ rows' = rows \cup {Key(e)} /\ got' = got
          \/ got' = got \ {e} /\ rows' = rows
      BY <2>5 DEF Relate
    <3> QED BY <2>2, <2>3, <2>4, <3>1
  <2>6. CASE CompleteRow(e)
    <3>1. rows' = rows \cup {Key(e)}
      BY <2>6 DEF CompleteRow
    <3>2. PICK f : f = [e EXCEPT !.rec.company = crm[e.id].company]
      OBVIOUS
    <3>3. EntryInv(e)
      BY DEF IndInv, ReadInv
    <3>4. Key(f) = Key(e)
      BY <3>2, <3>3 DEF Key, EntryInv
    <3>5. got' = got \/ got' = (got \ {e}) \cup {f}
      BY <2>6, <3>2 DEF CompleteRow
    <3>6. ToDo' \subseteq ToDo /\ e \notin ToDo' /\ e \in ToDo
      BY <2>2, <2>4, <3>1, <3>4, <3>5
    <3> QED BY <2>3, <3>6
  <2> QED BY <2>1, <2>5, <2>6
<1>12. CASE Choose
  <2>1. CASE pc' = "done"
    BY <1>4, <2>1
  <2>2. CASE question.kind = "deal_analysis" /\ pc' = "assessing"
    <3>1. Stage \in {3, 4} /\ Stage' = 6
      BY <1>12, <2>2 DEF Choose, Stage
    <3> QED BY <3>1
  <2>3. CASE question.kind # "deal_analysis" /\ pc' # "done"
    <3>1. Stage = IF question.kind = "lead_qualification" THEN 4 ELSE 3
      BY <1>12 DEF Choose, Stage
    <3>2. pc' = CASE question.kind \in Tables -> "rows"
                  [] question.kind \notin Tables /\ NeedsLinks -> "links"
                  [] OTHER -> "assessing"
      BY <1>12, <2>3 DEF Choose, Answer
    <3>3. /\ question.kind \in Tables => pc' = "rows"
          /\ question.kind \notin Tables => pc' \in {"links", "assessing"}
      BY <3>2
    <3>4. question' = question
      BY <1>12 DEF Choose
    <3>5. question.kind = "lead_qualification" => question.kind \notin Tables
      BY DEF Tables, StatusLists, Searches, Related, Details
    <3>6. Stage' = IF question.kind \in Tables THEN 4 ELSE IF pc' = "links" THEN 5 ELSE 6
      BY <2>3, <3>3, <3>4 DEF Stage
    <3> QED BY <3>1, <3>5, <3>6
  <2> QED BY <1>12, <2>1, <2>2, <2>3 DEF Choose, Answer
<1>13. CASE Link
  <2>1. CASE pc' = "done"
    BY <1>4, <2>1
  <2>2. CASE question.kind \in Reports /\ pc' = "assessing"
    <3>1. question.kind \notin Tables \cup {"deal_analysis"}
      BY <2>2 DEF Reports, Tables, StatusLists, Searches, Related, Details
    <3>2. Stage = 5 /\ Stage' = 6
      BY <1>13, <2>2, <3>1 DEF Link, Stage
    <3> QED BY <3>2
  <2> QED BY <1>13, <2>1, <2>2 DEF Link, Answer
<1>14. CASE Conclude
  <2>1. CASE pc' = "done"
    BY <1>4, <2>1
  <2>2. CASE question.kind = "deal_analysis" /\ pc' = "links"
    <3>1. Stage = 6 /\ Stage' = 7
      BY <1>14, <2>2 DEF Conclude, Stage
    <3> QED BY <3>1
  <2> QED BY <1>14, <2>1, <2>2 DEF Conclude, Answer
<1>15. CASE \E e \in got : Assess(e)
  <2>1. PICK e \in got : Assess(e)
    BY <1>15
  <2>2. CASE pc' = "done"
    BY <1>4, <2>2
  <2>3. CASE pc' = pc
    <3>1. /\ pc = "assessing" /\ e \in shown \ assessed /\ shown' = shown
          /\ assessed' = assessed \cup {e}
      BY <2>1 DEF Assess
    <3>2. Stage = 6 /\ Stage' = 6
      BY <2>3, <3>1 DEF Stage
    <3>3. ToDo = shown \ assessed /\ ToDo' = shown' \ assessed'
      BY <2>3, <3>1 DEF ToDo
    <3> QED BY <3>1, <3>2, <3>3
  <2> QED BY <2>1, <2>2, <2>3 DEF Assess, Answer
<1> QED
  BY <1>1, <1>3, <1>5, <1>6, <1>7, <1>8, <1>9, <1>10, <1>11, <1>12, <1>13, <1>14, <1>15 DEF Reader

\* THEOREM: whatever cursors HubSpot returns and whatever others change, the reader
\* goes through its parts in order and has finitely much to do in each.
THEOREM AnswersAdvance == Spec => ReaderAdvances
<1> DEFINE Advance ==
      IF changes' = changes
      THEN /\ Stage \in 0 .. 7 /\ IsFiniteSet(ToDo)
           /\ Stage' > Stage \/ (Stage' = Stage /\ ToDo' \subseteq ToDo /\ ToDo' # ToDo)
      ELSE UNCHANGED <<Stage, ToDo>>
<1>1. IndInv /\ IsFiniteSet(got) /\ [Next]_vars => [Advance]_vars
  <2> SUFFICES ASSUME IndInv, IsFiniteSet(got), Next
               PROVE  Advance
    OBVIOUS
  <2>1. CASE Reader
    BY <2>1, ReaderGoesOn, ToDoIsFinite
  <2>2. CASE \E i \in Ids : Change(i)
    <3>1. /\ changes' = changes + 1 /\ changes \in Nat
          /\ UNCHANGED <<pc, listed, question, seen, pipes, got, rows, shown, assessed>>
      BY <2>2 DEF Change, pageVars, answerVars, IndInv, TypeOK, ReadTypes
    <3>2. changes' # changes
      BY <3>1
    <3>3. UNCHANGED <<Stage, ToDo>>
      BY <3>1 DEF Stage, ToDo, Cursors
    <3> QED BY <3>2, <3>3
  <2> QED BY <2>1, <2>2 DEF Next
<1>2. Spec => [][Advance]_vars
  BY <1>1, IndInvHolds, ReadIsFinite, PTL DEF Spec
<1>3. [Advance]_vars =>
        [IF changes' = changes
         THEN /\ Stage \in 0 .. 7 /\ IsFiniteSet(ToDo)
              /\ Stage' > Stage \/ (Stage' = Stage /\ ToDo' \subseteq ToDo /\ ToDo' # ToDo)
         ELSE UNCHANGED <<Stage, ToDo>>]_vars
  OBVIOUS
<1> QED
  BY <1>2, <1>3, PTL DEF ReaderAdvances
=============================================================================
