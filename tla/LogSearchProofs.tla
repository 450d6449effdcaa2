-------------------------- MODULE LogSearchProofs ---------------------------
(***************************************************************************)
(* Proofs about LogSearch, for any logs, forms, accounts and page size.    *)
(***************************************************************************)
EXTENDS LogSearch, FiniteSetTheorems, SequenceTheorems, TLAPS

\* The blocked button admits one request or one answer at a time, and both
\* belong to the search clicked last.
TurnInv ==
    /\ flight # {} \/ answers # {} => loading
    /\ loading => list = {}
    /\ flight \subseteq {Len(asked)}
    /\ answers # {} => flight = {}
    /\ \A a, b \in answers : a = b
    /\ flight # {} \/ answers # {} => asked # <<>>

\* The logs an answer brings are wanted by the search clicked last, all that
\* could be found are there, and they are for the configured account.
AnswerInv ==
    /\ \A a \in answers :
         a.code = 200 => /\ a.data \subseteq Wanted(Last.query)
                         /\ Last.account = Configured
    /\ asked # <<>> => Last.known \subseteq index

IInv == DataOK /\ PageOK /\ TurnInv /\ AnswerInv /\ CompletePage /\ ShownAnswersLastSearch

-----------------------------------------------------------------------------
(* Facts about the query *)

\* The access check accepts the configured account only.
LEMMA AllowsConfigured ==
    ASSUME NEW a \in Account, Allows(a)
    PROVE  a = Configured
  BY SearchAssumption DEF Allows

\* The query selects what the form's user wants.
LEMMA SelectsWanted ==
    ASSUME NEW q \in Filling(Nat)
    PROVE  {d \in Log : Selects(q, d)} = Wanted(q)
  <1>1. q.values \in [1..3 -> Value \cup {Empty}] /\ q.start \in Nat /\ q.end \in Nat
        BY DEF Filling
  <1> SUFFICES ASSUME NEW d \in Log
               PROVE  Selects(q, d) <=>
                        /\ {v \in Value : \E i \in 1..3 : q.values[i] = v}
                             \subseteq {v \in Value : \E f \in Field : <<d, f, v>> \in Found}
                        /\ TimeOf[d] \in q.start..q.end
      BY DEF Wanted
  <1>2. TimeOf[d] \in q.start..q.end <=> q.start <= TimeOf[d] /\ TimeOf[d] <= q.end
        BY <1>1, SearchAssumption
  <1>3. ASSUME \A i \in 1..3 : q.values[i] # Empty => MatchesAnyField(d, q.values[i]),
               NEW v \in Value, NEW i \in 1..3, q.values[i] = v
        PROVE  \E f \in Field : <<d, f, v>> \in Found
        BY <1>3, SearchAssumption DEF MatchesAnyField
  <1>4. ASSUME \A v \in Value : (\E i \in 1..3 : q.values[i] = v)
                                  => \E f \in Field : <<d, f, v>> \in Found,
               NEW i \in 1..3, q.values[i] # Empty
        PROVE  MatchesAnyField(d, q.values[i])
        BY <1>1, <1>4 DEF MatchesAnyField
  <1> QED BY <1>2, <1>3, <1>4 DEF Selects

\* selectLog leaves no time empty.
LEMMA FilledTimes ==
    ASSUME NEW f \in Filling(Nat \cup {Empty})
    PROVE  Filled(f) \in Filling(Nat) /\ Filled(f) \in Filling(Nat \cup {Empty})
  BY DEF Filled, Filling

LEMMA BlankForm == Blank \in Filling(Nat \cup {Empty})
  BY DEF Blank, Filling

-----------------------------------------------------------------------------

LEMMA InitInv == Init => IInv
  <1> SUFFICES ASSUME Init PROVE IInv
      OBVIOUS
  <1> USE DEF Init
  <1>1. Cardinality({}) = 0
        BY FS_EmptySet
  <1>2. PageOK
    <2>1. flight \in SUBSET (1..Len(asked))
          OBVIOUS
    <2>2. Cardinality(list) <= PageSize
          BY <1>1, SearchAssumption
    <2> QED BY <2>1, <2>2 DEF PageOK
  <1>3. DataOK
        BY BlankForm DEF DataOK
  <1> QED BY <1>2, <1>3
          DEF IInv, TurnInv, AnswerInv, CompletePage, ShownAnswersLastSearch

\* A page of hits has at most PageSize logs.
LEMMA PageFits ==
    ASSUME NEW hits \in SUBSET Log, NEW H \in Pages(hits)
    PROVE  /\ H \in SUBSET hits
           /\ Cardinality(H) <= PageSize
           /\ H = hits \/ Cardinality(H) = PageSize
  <1>1. H \in SUBSET hits /\ H \in SUBSET Log
        BY DEF Pages
  <1>2. IsFiniteSet(H)
        BY <1>1, FS_Subset, SearchAssumption
  <1>3. Cardinality(H) \in Nat
        BY <1>2, FS_CardinalityType
  <1> QED BY <1>1, <1>3, SearchAssumption DEF Pages

\* There is always a page to answer with: the hits themselves or as many of them
\* as fit.
LEMMA SomePage ==
    ASSUME NEW hits \in SUBSET Log
    PROVE  Pages(hits) # {}
  <1>1. IsFiniteSet(hits)
        BY FS_Subset, SearchAssumption
  <1>2. Cardinality(hits) \in Nat /\ PageSize \in Nat
        BY <1>1, FS_CardinalityType, SearchAssumption
  <1>3. CASE Cardinality(hits) < PageSize
        BY <1>3 DEF Pages
  <1>4. CASE PageSize <= Cardinality(hits)
    <2>1. PICK f \in Bijection(1..Cardinality(hits), hits) : TRUE
          BY <1>1, FS_CardinalityType DEF ExistsBijection
    <2> DEFINE H == {f[i] : i \in 1..PageSize}
               g == [i \in 1..PageSize |-> f[i]]
    <2>2. 1..PageSize \subseteq 1..Cardinality(hits)
          BY <1>2, <1>4
    <2>3. H \in SUBSET hits /\ g \in Bijection(1..PageSize, H)
          BY <2>1, <2>2 DEF Bijection, Injection, Surjection, IsInjective
    <2> HIDE DEF H, g
    <2>4. ExistsBijection(1..PageSize, H)
          BY <2>3 DEF ExistsBijection
    <2>5. Cardinality(H) = PageSize
          BY <1>2, <2>4, FS_CountingElements
    <2> QED BY <2>3, <2>5 DEF Pages
  <1> QED BY <1>2, <1>3, <1>4

\* The last search is well-formed.
LEMMA LastQuery ==
    ASSUME DataOK, asked # <<>>
    PROVE  /\ Len(asked) \in Nat \ {0}
           /\ Last \in Query
           /\ Last = asked[Len(asked)]
  BY DEF DataOK, Last

-----------------------------------------------------------------------------
(* One lemma for each action that is not trivial *)

LEMMA SelectLogInv ==
    ASSUME IInv, SelectLog
    PROVE  IInv'
  <1> DEFINE new == [query |-> form', account |-> stored, known |-> index]
  <1> USE DEF SelectLog
  <1>0. PageOK /\ DataOK /\ TurnInv
        BY DEF IInv
  <1>1. flight = {} /\ answers = {} /\ loading = FALSE
        BY <1>0 DEF TurnInv, PageOK, CanClick
  <1>2. form' \in Filling(Nat) /\ form' \in Filling(Nat \cup {Empty})
        BY <1>0, FilledTimes DEF DataOK
  <1>3. new \in Query
        BY <1>0, <1>2 DEF Query, PageOK
  <1>4. asked' = Append(asked, new) /\ asked \in Seq(Query)
        BY <1>0 DEF DataOK
  <1>5. /\ asked' \in Seq(Query) /\ asked' # <<>>
        /\ Len(asked') = Len(asked) + 1 /\ Len(asked') \in Nat \ {0}
        /\ Last' = new
        BY <1>3, <1>4 DEF Last
  <1>6. flight' = {Len(asked')} /\ answers' = {} /\ list' = {} /\ loading' = TRUE
        BY <1>1
  <1>7. Cardinality({}) = 0
        BY FS_EmptySet
  <1>8. PageOK'
    <2>1. flight' \in SUBSET (1..Len(asked'))
          BY <1>5, <1>6
    <2>2. Cardinality(list') <= PageSize
          BY <1>6, <1>7, SearchAssumption
    <2> QED BY <1>0, <1>6, <2>1, <2>2 DEF PageOK
  <1>9. DataOK'
        BY <1>2, <1>5, <1>6 DEF DataOK
  <1>10. TurnInv'
        BY <1>5, <1>6 DEF TurnInv
  <1>11. AnswerInv'
        BY <1>5, <1>6 DEF AnswerInv
  <1> QED BY <1>6, <1>8, <1>9, <1>10, <1>11
          DEF IInv, CompletePage, ShownAnswersLastSearch

LEMMA DenyInv ==
    ASSUME IInv, NEW n \in 1..MaxSearch, Deny(n)
    PROVE  IInv'
  <1>0. PageOK /\ DataOK /\ TurnInv /\ AnswerInv
        BY DEF IInv
  <1>1. /\ flight' = {} /\ answers' = {[code |-> 440, data |-> {}]}
        /\ loading /\ list = {} /\ asked # <<>>
        BY <1>0 DEF TurnInv, Deny
  <1>2. Cardinality({}) = 0
        BY FS_EmptySet
  <1>3. UNCHANGED <<index, stored, form, loading, list, asked, broken>>
        BY DEF Deny, page
  <1>4. PageOK'
        BY <1>0, <1>1, <1>3 DEF PageOK
  <1>5. DataOK'
    <2>1. 0 <= PageSize
          BY SearchAssumption
    <2>2. ASSUME NEW a \in answers' PROVE Cardinality(a.data) <= PageSize
      <3>1. a = [code |-> 440, data |-> {}]
            BY <1>1
      <3> QED BY <1>2, <2>1, <3>1
    <2> QED BY <1>0, <1>3, <2>2 DEF DataOK
  <1>6. TurnInv'
        BY <1>1, <1>3 DEF TurnInv
  <1>7. AnswerInv' /\ CompletePage' /\ ShownAnswersLastSearch'
        BY <1>0, <1>1, <1>3 DEF AnswerInv, CompletePage, ShownAnswersLastSearch, Last
  <1> QED BY <1>4, <1>5, <1>6, <1>7 DEF IInv

LEMMA SearchInv ==
    ASSUME IInv, NEW n \in 1..MaxSearch, Search(n)
    PROVE  IInv'
  <1>0. PageOK /\ DataOK /\ TurnInv /\ AnswerInv
        BY DEF IInv
  <1>1. /\ flight = {n} /\ n = Len(asked) /\ answers = {} /\ flight' = {}
        /\ loading /\ list = {} /\ asked # <<>>
        BY <1>0 DEF TurnInv, Search
  <1>2. /\ Last \in Query /\ Last = asked[n]
        BY <1>0, <1>1, LastQuery
  <1>3. Last.query \in Filling(Nat) /\ Last.account \in Account
        BY <1>2 DEF Query
  <1> DEFINE hits == {d \in index : Selects(Last.query, d)}
  <1>4. PICK H \in Pages(hits) : answers' = {[code |-> 200, data |-> H]}
    <2>1. PICK H \in Pages({d \in index : Selects(asked[n].query, d)}) :
            answers' = answers \cup {[code |-> 200, data |-> H]}
          BY DEF Search
    <2>2. {d \in index : Selects(asked[n].query, d)} = hits
          BY <1>2
    <2>3. answers' = {[code |-> 200, data |-> H]}
          BY <1>1, <2>1
    <2> HIDE DEF hits
    <2> QED BY <2>1, <2>2, <2>3
  <1>5. index \in SUBSET Log /\ hits \in SUBSET Log
        BY <1>0 DEF PageOK
  <1>6. hits = index \cap Wanted(Last.query)
    <2>1. {d \in Log : Selects(Last.query, d)} = Wanted(Last.query)
          BY <1>3, SelectsWanted
    <2> QED BY <1>5, <2>1
  <1>7. H \in SUBSET hits /\ Cardinality(H) <= PageSize
          /\ (H = hits \/ Cardinality(H) = PageSize)
        BY <1>4, <1>5, PageFits
  <1>8. Last.account = Configured
        BY <1>2, <1>3, AllowsConfigured DEF Search
  <1>9. UNCHANGED <<index, stored, form, loading, list, asked, broken>>
        BY DEF Search, page
  <1>10. Last' = Last
        BY <1>9 DEF Last
  <1>11. Last.known \subseteq index
        BY <1>0, <1>1 DEF AnswerInv
  <1> HIDE DEF hits
  <1>12. PageOK'
        BY <1>0, <1>1, <1>4, <1>5, <1>7, <1>9 DEF PageOK
  <1>13. DataOK'
        BY <1>0, <1>4, <1>7, <1>9 DEF DataOK
  <1>14. TurnInv'
        BY <1>1, <1>4, <1>9 DEF TurnInv
  <1>15. H \subseteq Wanted(Last.query)
        BY <1>6, <1>7
  <1>16. AnswerInv'
    <2>1. \A a \in answers' : a.data \subseteq Wanted(Last.query)
          BY <1>4, <1>15
    <2> QED BY <1>0, <1>8, <1>9, <1>10, <1>11, <2>1 DEF AnswerInv, Wanted
  <1>17. CompletePage'
    <2>1. Last.known \cap Wanted(Last.query) \subseteq H \/ Cardinality(H) = PageSize
          BY <1>6, <1>7, <1>11
    <2> QED BY <1>4, <1>10, <2>1 DEF CompletePage, Wanted
  <1>18. ShownAnswersLastSearch'
        BY <1>1, <1>9 DEF ShownAnswersLastSearch
  <1> QED BY <1>12, <1>13, <1>14, <1>16, <1>17, <1>18 DEF IInv

LEMMA ReceiveInv ==
    ASSUME IInv, NEW a \in answers, Receive(a)
    PROVE  IInv'
  <1>0. PageOK /\ DataOK /\ TurnInv /\ AnswerInv
        BY DEF IInv
  <1>1. /\ flight = {} /\ answers = {a} /\ answers' = {}
        /\ loading /\ list = {} /\ asked # <<>> /\ loading' = FALSE
        BY <1>0 DEF TurnInv, Receive
  <1>2. UNCHANGED <<index, stored, form, asked, flight, broken>>
        BY DEF Receive
  <1>3. Last' = Last
        BY <1>2 DEF Last
  <1>4. list' \in SUBSET Log /\ Cardinality(list') <= PageSize
        BY <1>0 DEF PageOK, DataOK, Receive
  <1>5. list' # {} => list' \subseteq Wanted(Last.query) /\ Last.account = Configured
        BY <1>0, <1>1 DEF AnswerInv, Receive
  <1>6. PageOK'
        BY <1>0, <1>1, <1>2, <1>4 DEF PageOK
  <1>7. DataOK' /\ TurnInv'
        BY <1>0, <1>1, <1>2 DEF DataOK, TurnInv
  <1>8. AnswerInv' /\ CompletePage'
        BY <1>0, <1>1, <1>2, <1>3 DEF AnswerInv, CompletePage
  <1>9. ShownAnswersLastSearch'
        BY <1>3, <1>5 DEF ShownAnswersLastSearch, Wanted
  <1> QED BY <1>6, <1>7, <1>8, <1>9 DEF IInv

LEMMA ReloadInv ==
    ASSUME IInv, Reload
    PROVE  IInv'
  <1> USE DEF Reload
  <1>0. PageOK /\ DataOK /\ AnswerInv
        BY DEF IInv
  <1>1. Cardinality({}) = 0
        BY FS_EmptySet
  <1>2. PageOK'
    <2>1. Cardinality(list') <= PageSize
          BY <1>1, SearchAssumption
    <2>2. flight' \in SUBSET (1..Len(asked'))
          OBVIOUS
    <2> QED BY <1>0, <2>1, <2>2 DEF PageOK
  <1>3. DataOK' /\ TurnInv'
        BY <1>0, BlankForm DEF DataOK, TurnInv
  <1>4. AnswerInv' /\ CompletePage' /\ ShownAnswersLastSearch'
        BY <1>0 DEF AnswerInv, CompletePage, ShownAnswersLastSearch, Last
  <1> QED BY <1>2, <1>3, <1>4 DEF IInv

-----------------------------------------------------------------------------

LEMMA NextInv == IInv /\ [Next]_vars => IInv'
  <1> SUFFICES ASSUME IInv, [Next]_vars PROVE IInv'
      OBVIOUS
  <1> USE DEF page, vars
  <1>0. PageOK /\ DataOK /\ TurnInv /\ AnswerInv /\ CompletePage /\ ShownAnswersLastSearch
        BY DEF IInv
  <1>1. ASSUME NEW d \in Log, Index(d) PROVE IInv'
    <2>1. UNCHANGED <<stored, form, loading, list, flight, answers, asked, broken>>
            /\ index' = index \cup {d}
          BY <1>1 DEF Index
    <2>2. PageOK' /\ DataOK' /\ TurnInv'
          BY <1>0, <2>1 DEF PageOK, DataOK, TurnInv
    <2>3. AnswerInv' /\ CompletePage' /\ ShownAnswersLastSearch'
          BY <1>0, <2>1 DEF AnswerInv, CompletePage, ShownAnswersLastSearch, Last, Wanted
    <2> QED BY <2>2, <2>3 DEF IInv
  <1>2. ASSUME NEW a \in Account, SaveUser(a) PROVE IInv'
    <2>1. UNCHANGED <<index, form, loading, list, flight, answers, asked, broken>>
            /\ stored' \in Account
          BY <1>2 DEF SaveUser
    <2>2. PageOK' /\ DataOK' /\ TurnInv'
          BY <1>0, <2>1 DEF PageOK, DataOK, TurnInv
    <2>3. AnswerInv' /\ CompletePage' /\ ShownAnswersLastSearch'
          BY <1>0, <2>1 DEF AnswerInv, CompletePage, ShownAnswersLastSearch, Last, Wanted
    <2> QED BY <2>2, <2>3 DEF IInv
  <1>3. ASSUME NEW f \in Form, Edit(f) PROVE IInv'
    <2>1. UNCHANGED <<index, stored, loading, list, flight, answers, asked, broken>>
            /\ form' \in Filling(Nat \cup {Empty})
          BY <1>3, SearchAssumption DEF Edit
    <2>2. PageOK' /\ DataOK' /\ TurnInv'
          BY <1>0, <2>1 DEF PageOK, DataOK, TurnInv
    <2>3. AnswerInv' /\ CompletePage' /\ ShownAnswersLastSearch'
          BY <1>0, <2>1 DEF AnswerInv, CompletePage, ShownAnswersLastSearch, Last, Wanted
    <2> QED BY <2>2, <2>3 DEF IInv
  <1>4. ASSUME NEW n \in 1..MaxSearch, Reject(n) PROVE IInv'
    <2>1. UNCHANGED <<index, stored, form, loading, list, answers, asked>>
            /\ flight' = flight \ {n} /\ broken' = TRUE
          BY <1>4 DEF Reject
    <2>2. PageOK' /\ DataOK' /\ TurnInv'
          BY <1>0, <2>1 DEF PageOK, DataOK, TurnInv
    <2>3. AnswerInv' /\ CompletePage' /\ ShownAnswersLastSearch'
          BY <1>0, <2>1 DEF AnswerInv, CompletePage, ShownAnswersLastSearch, Last, Wanted
    <2> QED BY <2>2, <2>3 DEF IInv
  <1>5. ASSUME UNCHANGED vars PROVE IInv'
    <2>1. UNCHANGED <<index, stored, form, loading, list, flight, answers, asked, broken>>
          BY <1>5
    <2>2. PageOK' /\ DataOK' /\ TurnInv'
          BY <1>0, <2>1 DEF PageOK, DataOK, TurnInv
    <2>3. AnswerInv' /\ CompletePage' /\ ShownAnswersLastSearch'
          BY <1>0, <2>1 DEF AnswerInv, CompletePage, ShownAnswersLastSearch, Last, Wanted
    <2> QED BY <2>2, <2>3 DEF IInv
  <1> QED BY <1>1, <1>2, <1>3, <1>4, <1>5,
             SelectLogInv, DenyInv, SearchInv, ReceiveInv, ReloadInv DEF Next

LEMMA Invariance == Spec => []IInv
  BY InitInv, NextInv, PTL DEF Spec

\* The form, the searches, the requests and the answers hold values of their
\* types, and selectLog never shows more than one page.
THEOREM TypeCorrect == Spec => []TypeOK
  <1>1. IInv => TypeOK
        BY DEF IInv, TypeOK
  <1> QED BY <1>1, Invariance, PTL

\* What selectLog's page shows answers the search clicked last, asked for with
\* the configured account, whatever is typed, saved or indexed meanwhile.
THEOREM ShownAnswersLastSearchHolds == Spec => []ShownAnswersLastSearch
  <1>1. IInv => ShownAnswersLastSearch
        BY DEF IInv
  <1> QED BY <1>1, Invariance, PTL

\* An answer of LogService.search lacks no wanted log that could be found when
\* the button was clicked, unless it fills a page.
THEOREM CompletePageHolds == Spec => []CompletePage
  <1>1. IInv => CompletePage
        BY DEF IInv
  <1> QED BY <1>1, Invariance, PTL

-----------------------------------------------------------------------------
(* Liveness: what is left to TLC is that the guards of the fair actions      *)
(* enable them (NothingIsStuck).                                             *)

\* LogService.search can answer every request: it is one of those that the
\* server looks at, and there is a page of its hits.
RequestsAreServable ==
    \A n \in flight :
        n \in 1..MaxSearch /\ Pages({d \in index : Selects(asked[n].query, d)}) # {}

\* The guards behind NothingIsStuck hold for all constants, also when no request
\* fails: the server never lacks an answer to a request that is on its way.
THEOREM RequestsAreServableHolds == Spec => []RequestsAreServable
  <1> DEFINE Bounded == Len(asked) <= MaxSearch
  <1>1. Init => Bounded
        BY SearchAssumption DEF Init
  <1>2. IInv /\ Bounded /\ [Next]_vars => Bounded'
    <2>1. ASSUME IInv, Bounded, SelectLog PROVE Bounded'
      <3>1. asked \in Seq(Query) /\ Len(asked) < MaxSearch /\ Len(asked') = Len(asked) + 1
            BY <2>1 DEF IInv, DataOK, SelectLog
      <3> QED BY <3>1, LenProperties, SearchAssumption
    <2>2. SelectLog \/ asked' = asked \/ ~[Next]_vars
          BY DEF Next, vars, page, Index, SaveUser, Edit, Reload, Deny, Search, Reject, Receive
    <2> QED BY <2>1, <2>2
  <1>3. IInv /\ Bounded => RequestsAreServable
    <2> SUFFICES ASSUME IInv, Bounded, NEW n \in flight
                 PROVE  /\ n \in 1..MaxSearch
                        /\ Pages({d \in index : Selects(asked[n].query, d)}) # {}
        BY DEF RequestsAreServable
    <2>1. n \in 1..Len(asked) /\ Len(asked) \in Nat /\ index \in SUBSET Log
          BY DEF IInv, PageOK, DataOK
    <2>2. n \in 1..MaxSearch
          BY <2>1, SearchAssumption
    <2>3. {d \in index : Selects(asked[n].query, d)} \in SUBSET Log
          BY <2>1
    <2> QED BY <2>2, <2>3, SomePage
  <1> QED BY <1>1, <1>2, <1>3, Invariance, PTL DEF Spec

\* While the button is blocked something is on its way, unless it was rejected.
Busy == loading /\ ~broken
BusyInv == Busy => flight # {} \/ answers # {}

LEMMA NextBusy == BusyInv /\ [Next]_vars => BusyInv'
  <1> SUFFICES ASSUME BusyInv, [Next]_vars PROVE BusyInv'
      OBVIOUS
  <1> USE DEF BusyInv, Busy, page
  <1>1. ASSUME NEW d \in Log, Index(d) PROVE BusyInv'
        BY <1>1 DEF Index
  <1>2. ASSUME NEW a \in Account, SaveUser(a) PROVE BusyInv'
        BY <1>2 DEF SaveUser
  <1>3. ASSUME NEW f \in Form, Edit(f) PROVE BusyInv'
        BY <1>3 DEF Edit
  <1>4. CASE SelectLog
        BY <1>4 DEF SelectLog
  <1>5. CASE Reload
        BY <1>5 DEF Reload
  <1>6. ASSUME NEW n \in 1..MaxSearch, Deny(n) \/ Search(n) \/ Reject(n) PROVE BusyInv'
        BY <1>6 DEF Deny, Search, Reject
  <1>7. ASSUME NEW a \in answers, Receive(a) PROVE BusyInv'
        BY <1>7 DEF Receive
  <1>8. CASE UNCHANGED vars
        BY <1>8 DEF vars
  <1> QED BY <1>1, <1>2, <1>3, <1>4, <1>5, <1>6, <1>7, <1>8 DEF Next

\* A request stays on its way until it is handled, and then there is an answer
\* or the request was rejected.
LEMMA RequestStep ==
    ASSUME Busy, flight # {}, [Next]_vars
    PROVE  /\ (Busy /\ flight # {})' \/ (Busy /\ answers # {})' \/ ~Busy'
           /\ HandleRequest => (Busy /\ answers # {})' \/ ~Busy'
  <1> USE DEF Busy, page
  <1>1. CASE HandleRequest
        BY <1>1 DEF HandleRequest, Deny, Search, Reject
  <1>2. CASE ~HandleRequest
        BY <1>2 DEF Next, vars, Index, SaveUser, Edit, SelectLog, CanClick, Reload, Receive,
             HandleRequest
  <1> QED BY <1>1, <1>2

\* An answer stays on its way until the page takes it and releases the button.
LEMMA AnswerStep ==
    ASSUME Busy, answers # {}, [Next]_vars
    PROVE  /\ (Busy /\ answers # {})' \/ ~Busy'
           /\ ReceiveAnswer => ~Busy'
  <1> USE DEF Busy, page
  <1>1. CASE ReceiveAnswer
        BY <1>1 DEF ReceiveAnswer, Receive
  <1>2. CASE ~ReceiveAnswer
        BY <1>2 DEF Next, vars, Index, SaveUser, Edit, SelectLog, CanClick, Reload, Deny,
             Search, Reject, ReceiveAnswer
  <1> QED BY <1>1, <1>2

\* The blocked button is released or a request was rejected, in every order of
\* requests, edits, index updates and reloads.
THEOREM LoadingEndsHolds == FairSpec /\ []NothingIsStuck => LoadingEnds
  <1>1. Init => BusyInv
        BY DEF Init, BusyInv, Busy
  <1>2. Busy /\ flight # {} /\ [Next]_vars =>
          (Busy /\ flight # {})' \/ (Busy /\ answers # {})' \/ ~Busy'
        BY RequestStep
  <1>3. Busy /\ flight # {} /\ <<Next /\ HandleRequest>>_vars =>
          (Busy /\ answers # {})' \/ ~Busy'
        BY RequestStep
  <1>4. Busy /\ answers # {} /\ [Next]_vars => (Busy /\ answers # {})' \/ ~Busy'
        BY AnswerStep
  <1>5. Busy /\ answers # {} /\ <<Next /\ ReceiveAnswer>>_vars => ~Busy'
        BY AnswerStep
  <1>6. NothingIsStuck =>
          /\ flight # {} => ENABLED <<HandleRequest>>_vars
          /\ answers # {} => ENABLED <<ReceiveAnswer>>_vars
        BY DEF NothingIsStuck
  <1>7. BusyInv => (Busy => flight # {} \/ answers # {})
        BY DEF BusyInv
  <1>8. Busy <=> loading /\ ~broken
        BY DEF Busy
  <1> QED BY <1>1, <1>2, <1>3, <1>4, <1>5, <1>6, <1>7, <1>8, NextBusy, PTL
          DEF FairSpec, Spec, Fairness, LoadingEnds
=============================================================================
