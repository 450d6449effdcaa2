----------------------------- MODULE LogSearch ------------------------------
(***************************************************************************)
(* Searching the logs: a page of the console (selectLog in the compiled    *)
(* js/app.b824fffb.js), the access check of ApiInterceptor and the query   *)
(* that LogService.search builds, next to logs that are being indexed and  *)
(* a user who edits the form and the account while a search is under way.  *)
(***************************************************************************)
EXTENDS Integers, Sequences, FiniteSets

CONSTANTS
    Log,            \* the logs that may be indexed
    Value,          \* the wildcard values that may be searched for
    Found,          \* the <<log, field, value>> with a term that matches
    TimeOf,         \* TimeOf[d]: the time of log d
    Form,           \* the contents the form may have: three values, start, end
    Account,        \* [user, pwd] pairs that may be saved in the console
    Configured,     \* the account of application.properties
    Empty,          \* a value, start or end that was left empty
    PageSize,       \* hits that Elasticsearch returns at most
    MaxSearch       \* (bound) searches per run

Field == {"tag", "content", "note", "host", "file"}

\* What the form holds, and what is left of it when the times are filled in.
Filling(Times) == [values : [1..3 -> Value \cup {Empty}], start : Times, end : Times]

ASSUME SearchAssumption ==
    /\ IsFiniteSet(Log)
    /\ Found \subseteq Log \X Field \X Value
    /\ TimeOf \in [Log -> Nat]
    /\ Empty \notin Value
    /\ Form \subseteq Filling(Nat \cup {Empty})
    /\ Configured \in Account
    /\ \A a, b \in Account : a.user = b.user /\ a.pwd = b.pwd => a = b
    /\ PageSize \in Nat \ {0} /\ MaxSearch \in Nat

VARIABLES
    index,          \* the logs that Elasticsearch can find
    stored,         \* the account in the browser's local storage
    form,           \* what the form holds
    loading,        \* is the button blocked
    list,           \* the logs the page shows
    flight,         \* requests on their way to the server, as positions in asked
    answers,        \* answers on their way to the page
    asked,          \* all searches: query and account, (history) logs known then
    broken          \* (history) was a request of this page rejected

page == <<stored, form, loading, list, asked>>
vars == <<index, page, flight, answers, broken>>

\* data() of the page
Blank == [values |-> <<Empty, Empty, Empty>>, start |-> Empty, end |-> Empty]

Init ==
    /\ index = {}
    /\ stored \in Account
    /\ form = Blank
    /\ loading = FALSE
    /\ list = {}
    /\ flight = {}
    /\ answers = {}
    /\ asked = <<>>
    /\ broken = FALSE

-----------------------------------------------------------------------------
(* The account that is checked, the query that is sent *)

\* selectLog puts 0 for a start or an end that is empty, also into the form.
Filled(f) == [f EXCEPT !.start = IF @ = Empty THEN 0 ELSE @,
                       !.end = IF @ = Empty THEN 0 ELSE @]

-----------------------------------------------------------------------------
(* Definitions with a plausible bug, for the mutation runs only. *)

\* must in place of should: every field has to match.
MatchesAllFields(d, v) == \A f \in Field : <<d, f, v>> \in Found

\* The number of hits is not limited.
AllHits(hits) == {hits}

\* The button takes clicks while a search is under way.
ClickAlways == TRUE

\* The error answer is never written.
DenyInSilence(n) ==
    /\ n \in flight /\ asked[n].account # Configured
    /\ flight' = flight \ {n}
    /\ UNCHANGED <<index, page, answers, broken>>

-----------------------------------------------------------------------------
(* ApiInterceptor.preHandle for a POST, and LogService.search: one must for  *)
(* each value that is given, and the time range.                             *)

Allows(a) == a.user = Configured.user /\ a.pwd = Configured.pwd

MatchesAnyField(d, v) == \E f \in Field : <<d, f, v>> \in Found

Selects(q, d) ==
    /\ \A i \in 1..3 : q.values[i] # Empty => MatchesAnyField(d, q.values[i])
    /\ q.start <= TimeOf[d] /\ TimeOf[d] <= q.end

\* Elasticsearch returns the best hits, at most PageSize; which are the best
\* is not modelled.
Pages(hits) ==
    {H \in SUBSET hits : Cardinality(H) = PageSize \/ (H = hits /\ Cardinality(H) < PageSize)}

-----------------------------------------------------------------------------
(* Actions *)

\* KafkaServer saves a log and Elasticsearch refreshes its index.
Index(d) ==
    /\ d \notin index
    /\ index' = index \cup {d}
    /\ UNCHANGED <<page, flight, answers, broken>>

\* save() and clean() write the account to the local storage.
SaveUser(a) ==
    /\ stored' = a
    /\ UNCHANGED <<index, form, loading, list, asked, flight, answers, broken>>

Edit(f) ==
    /\ form' = f
    /\ UNCHANGED <<index, stored, loading, list, asked, flight, answers, broken>>

\* The button takes no click while it shows that it is loading.
CanClick == ~loading

SelectLog ==
    /\ CanClick /\ Len(asked) < MaxSearch
    /\ loading' = TRUE
    /\ list' = {}
    /\ form' = Filled(form)
    /\ asked' = Append(asked, [query |-> form', account |-> stored, known |-> index])
    /\ flight' = flight \cup {Len(asked')}
    /\ UNCHANGED <<index, stored, answers, broken>>

\* returnErrorResponse: code 440
Deny(n) ==
    /\ n \in flight /\ ~Allows(asked[n].account)
    /\ flight' = flight \ {n}
    /\ answers' = answers \cup {[code |-> 440, data |-> {}]}
    /\ UNCHANGED <<index, page, broken>>

\* LogController.search and LogService.search: code 200
Search(n) ==
    /\ n \in flight /\ Allows(asked[n].account)
    /\ flight' = flight \ {n}
    /\ \E H \in Pages({d \in index : Selects(asked[n].query, d)}) :
         answers' = answers \cup {[code |-> 200, data |-> H]}
    /\ UNCHANGED <<index, page, broken>>

\* The network or Elasticsearch fails: postform rejects, nobody catches.
Reject(n) ==
    /\ n \in flight
    /\ flight' = flight \ {n}
    /\ broken' = TRUE
    /\ UNCHANGED <<index, page, answers>>

\* The then() of selectLog
Receive(a) ==
    /\ a \in answers
    /\ answers' = answers \ {a}
    /\ list' = IF a.code = 200 THEN a.data ELSE list
    /\ loading' = FALSE
    /\ UNCHANGED <<index, stored, form, asked, flight, broken>>

\* The user loads the page again: it starts empty, takes its account from the
\* local storage and hears nothing of the requests of the old page.
Reload ==
    /\ form' = Blank
    /\ loading' = FALSE
    /\ list' = {}
    /\ flight' = {}
    /\ answers' = {}
    /\ broken' = FALSE
    /\ UNCHANGED <<index, stored, asked>>

Next ==
    \/ \E d \in Log : Index(d)
    \/ \E a \in Account : SaveUser(a)
    \/ \E f \in Form : Edit(f)
    \/ SelectLog
    \/ Reload
    \/ \E n \in 1..MaxSearch : Deny(n) \/ Search(n) \/ Reject(n)
    \/ \E a \in answers : Receive(a)

Spec == Init /\ [][Next]_vars

\* The server handles its requests, and answers reach the page.
HandleRequest == \E n \in 1..MaxSearch : Deny(n) \/ Search(n) \/ Reject(n)
ReceiveAnswer == \E a \in answers : Receive(a)

Fairness == WF_vars(HandleRequest) /\ WF_vars(ReceiveAnswer)

FairSpec == Spec /\ Fairness

-----------------------------------------------------------------------------
(* Properties *)

Last == asked[Len(asked)]

\* A search as it was asked: the times are filled in.
Query == [query : Filling(Nat), account : Account, known : SUBSET Log]

\* The data that the page and the server exchange.
DataOK ==
    /\ form \in Filling(Nat \cup {Empty})
    /\ asked \in Seq(Query)
    /\ \A a \in answers : Cardinality(a.data) <= PageSize

\* The states of the page and of what is on its way.
PageOK ==
    /\ index \in SUBSET Log
    /\ stored \in Account
    /\ loading \in BOOLEAN
    /\ list \in SUBSET Log /\ Cardinality(list) <= PageSize
    /\ flight \in SUBSET (1..Len(asked))
    /\ \A a \in answers : a.code \in {200, 440} /\ a.data \in SUBSET Log
    /\ broken \in BOOLEAN

\* Every variable holds a value of its type; no search is asked with a time left
\* empty, and neither an answer nor the page has more than one page of logs.
TypeOK == DataOK /\ PageOK

\* What README.md tells the user of the form: a value that is empty does not
\* count, and the others are searched in five fields. A log is wanted when each
\* value that is given occurs in one of them and its time lies in the range.
Wanted(q) == {d \in Log :
    /\ {v \in Value : \E i \in 1..3 : q.values[i] = v}
         \subseteq {v \in Value : \E f \in Field : <<d, f, v>> \in Found}
    /\ TimeOf[d] \in q.start..q.end}

\* What the page shows answers the search clicked last, as the form was at
\* that moment, although the user may have changed it since; and it was asked
\* for with the configured account, although the user may have changed that.
ShownAnswersLastSearch ==
    list # {} => /\ list \subseteq Wanted(Last.query)
                 /\ Last.account = Configured

\* An answer of LogService.search is complete: each wanted log that could be
\* found when the button was clicked is in it, unless the answer fills a page.
CompletePage ==
    \A a \in answers :
        a.code = 200 =>
            \/ Last.known \cap Wanted(Last.query) \subseteq a.data
            \/ Cardinality(a.data) = PageSize

\* The hypothesis of the liveness theorem, which is about ENABLED: whatever is
\* on its way can be handled.
NothingIsStuck ==
    /\ flight # {} => ENABLED <<HandleRequest>>_vars
    /\ answers # {} => ENABLED <<ReceiveAnswer>>_vars

\* The button that selectLog blocks is released, by the answer with the logs or
\* by the one that denies them, unless a request was rejected: nothing catches
\* that, and only loading the page again helps.
LoadingEnds == loading ~> (~loading \/ broken)
=============================================================================
