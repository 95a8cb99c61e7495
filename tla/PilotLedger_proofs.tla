------------------------ MODULE PilotLedger_proofs ------------------------
(***************************************************************************)
(* Proofs about PilotLedger, for every set of recommendations, queues and  *)
(* recorders and every bound: the file tells one story of each             *)
(* recommendation, whoever wrote to it from whatever had been seen, nothing *)
(* is written behind half a line, and a case lives as CaseLifecycle says.  *)
(***************************************************************************)
EXTENDS PilotLedger, WellFoundedInduction, TLAPS

-----------------------------------------------------------------------------
(* What is true of a case whatever it came from (workflow.py,              *)
(* RecommendationCase.__post_init__).                                      *)

\* An event is about this recommendation, at its site.
About(r, event) == event.rec = r /\ event.site = SiteOf[r]

CaseSound(r, c) ==
    /\ c \in Cases
    /\ c.response # None => About(r, c.response) /\ c.response.at >= c.issuedAt
    /\ c.request # None =>
         /\ c.response # None /\ c.response.kind # "reject"
         /\ About(r, c.request) /\ c.request.effective = Effective(r, c)
         /\ c.request.at >= c.response.at
    /\ c.acknowledgement # None =>
         /\ c.request # None /\ c.acknowledgement.request = c.request
         /\ About(r, c.acknowledgement) /\ c.acknowledgement.effective = Effective(r, c)
         /\ c.acknowledgement.at >= c.request.at
    /\ c.outcome # None =>
         /\ c.response # None
         /\ About(r, c.outcome) /\ c.outcome.effective = Effective(r, c)
         /\ c.outcome.at >= LatestTime(c)
         /\ c.outcome.start # None =>
              /\ c.response.kind # "reject"
              /\ c.acknowledgement # None /\ c.outcome.start >= c.acknowledgement.at

\* The event is a field of the case.
Holds(c, event) ==
    /\ event \in Issuances => event.at = c.issuedAt
    /\ event \in Responses => event = c.response
    /\ event \in Requests => event = c.request
    /\ event \in Acknowledgements => event = c.acknowledgement
    /\ event \in Outcomes => event = c.outcome

Fields(c) == {c.response, c.request, c.acknowledgement, c.outcome} \ {None}

(* The cases of a file and the file.                                       *)
CasesFit(events, cases) ==
    /\ cases \in [Recommendations -> Cases \union {None}]
    /\ \A r \in Recommendations : cases[r] # None =>
         /\ CaseSound(r, cases[r])
         /\ \A event \in Fields(cases[r]) : \E i \in 1..Len(events) : events[i] = event
    /\ \A i \in 1..Len(events) :
         cases[events[i].rec] # None /\ Holds(cases[events[i].rec], events[i])

Place(event) ==
    IF event \in Issuances THEN 0
    ELSE IF event \in Responses THEN 1
    ELSE IF event \in Requests THEN 2
    ELSE IF event \in Acknowledgements THEN 3
    ELSE 4

\* The events of a recommendation come in the order of a life, and of time.
InOrder(events) ==
    \A i, j \in 1..Len(events) :
      i < j /\ events[i].rec = events[j].rec =>
        Place(events[i]) < Place(events[j]) /\ events[i].at <= events[j].at

\* What a queue looks at is of its own site.
ViewsInScope ==
    \A q \in Queues : seen[q] # None => Scope[q] = None \/ SiteOf[seen[q].rec] = Scope[q]

LedgerInv ==
    /\ LedgerTypeOK
    /\ CasesFit(file, Replay(file)) /\ InOrder(file)
    /\ ViewsInScope /\ DeferralsInScope

-----------------------------------------------------------------------------
(* Replay: the cases after a prefix of the file.                           *)

LEMMA LeastNatural ==
  ASSUME NEW T, T \subseteq Nat, T # {}
  PROVE  \E x \in T : \A y \in T : x <= y
<1>1. PICK x \in T : \A y \in T : ~ (<<y, x>> \in OpToRel(<, Nat))
  BY NatLessThanWellFounded, WFMin
<1>2. ASSUME NEW y \in T PROVE x <= y
  <2>1. x \in Nat /\ y \in Nat
    OBVIOUS
  <2>2. y < x => <<y, x>> \in OpToRel(<, Nat)
    BY <2>1 DEF OpToRel
  <2>3. ~ (<<y, x>> \in OpToRel(<, Nat))
    BY <1>1
  <2>4. ~ (y < x)
    BY <2>2, <2>3
  <2> QED
    BY <2>1, <2>4
<1> QED
  BY <1>2

\* f is what replaying the first n events computes, after each of them.
Replays(f, events, n) ==
  f = [i \in 0..n |-> IF i = 0 THEN NoCases ELSE ApplyEvent(f[i - 1], events[i])]

LEMMA ReplayIsChosen ==
  ASSUME NEW events
  PROVE  Replay(events) = (CHOOSE f : Replays(f, events, Len(events)))[Len(events)]
BY DEF Replay, Replays

LEMMA ReplayValues ==
  ASSUME NEW f, NEW events, NEW n \in Nat, Replays(f, events, n)
  PROVE  /\ f[0] = NoCases
         /\ \A i \in 1..n : f[i] = ApplyEvent(f[i - 1], events[i])
<1>1. \A i \in 0..n : f[i] = IF i = 0 THEN NoCases ELSE ApplyEvent(f[i - 1], events[i])
  BY SMT DEF Replays
<1>2. 0 \in 0..n /\ \A i \in 1..n : i \in 0..n /\ i # 0
  OBVIOUS
<1> QED
  BY <1>1, <1>2

LEMMA ReplayExists ==
  ASSUME NEW events, NEW n \in Nat
  PROVE  \E f : Replays(f, events, n)
<1> DEFINE Without == {m \in Nat : ~ \E f : Replays(f, events, m)}
<1>1. SUFFICES ASSUME Without # {} PROVE FALSE
  OBVIOUS
<1>2. PICK m \in Without : \A k \in Without : m <= k
  BY <1>1, LeastNatural
<1>3. CASE m = 0
  <2> DEFINE f == [i \in 0..0 |-> NoCases]
  <2>1. f = [i \in 0..0 |-> IF i = 0 THEN NoCases ELSE ApplyEvent(f[i - 1], events[i])]
    OBVIOUS
  <2>2. Replays(f, events, 0)
    BY <2>1 DEF Replays
  <2> QED
    BY <1>3, <2>2
<1>4. CASE m # 0
  <2>1. m \in Nat /\ m - 1 \in Nat /\ m - 1 \notin Without
    BY <1>2, <1>4
  <2>2. PICK g : Replays(g, events, m - 1)
    BY <2>1
  <2>3. g[0] = NoCases /\ \A i \in 1..(m - 1) : g[i] = ApplyEvent(g[i - 1], events[i])
    BY <2>1, <2>2, ReplayValues
  <2> DEFINE f == [i \in 0..m |-> IF i = m THEN ApplyEvent(g[m - 1], events[m]) ELSE g[i]]
  <2>4. \A i \in 0..m : f[i] = IF i = 0 THEN NoCases ELSE ApplyEvent(f[i - 1], events[i])
    <3> SUFFICES ASSUME NEW i \in 0..m
                 PROVE  f[i] = IF i = 0 THEN NoCases ELSE ApplyEvent(f[i - 1], events[i])
      OBVIOUS
    <3>1. CASE i = 0
      BY <1>4, <2>3, <3>1
    <3>2. CASE i = m
      <4>1. i # 0 /\ m - 1 \in 0..m /\ m - 1 # m
        BY <1>4, <2>1, <3>2
      <4>2. f[m - 1] = g[m - 1] /\ f[m] = ApplyEvent(g[m - 1], events[m])
        BY <2>1, <4>1
      <4> QED
        BY <3>2, <4>1, <4>2
    <3>3. CASE i # 0 /\ i # m
      <4>1. i \in 1..(m - 1) /\ i - 1 \in 0..m /\ i - 1 # m
        BY <2>1, <3>3
      <4>2. f[i - 1] = g[i - 1] /\ f[i] = g[i]
        BY <3>3, <4>1
      <4> QED
        BY <2>3, <3>3, <4>1, <4>2
    <3> QED
      BY <3>1, <3>2, <3>3
  <2>5. Replays(f, events, m)
    <3>1. f = [i \in 0..m |-> f[i]]
      OBVIOUS
    <3> QED
      BY <2>4, <3>1 DEF Replays
  <2> QED
    BY <1>2, <2>5
<1> QED
  BY <1>3, <1>4

\* Two replays agree as long as the events do.
LEMMA ReplaysAgree ==
  ASSUME NEW s, NEW t, NEW m \in Nat, NEW n \in Nat, NEW f, NEW g,
         Replays(f, s, m), Replays(g, t, n),
         NEW k \in Nat, k <= m, k <= n, \A i \in 1..k : s[i] = t[i]
  PROVE  f[k] = g[k]
<1>1. f[0] = NoCases /\ \A i \in 1..m : f[i] = ApplyEvent(f[i - 1], s[i])
  BY ReplayValues
<1>2. g[0] = NoCases /\ \A i \in 1..n : g[i] = ApplyEvent(g[i - 1], t[i])
  BY ReplayValues
<1> DEFINE Apart == {i \in 0..k : f[i] # g[i]}
<1>3. SUFFICES ASSUME Apart # {} PROVE FALSE
  OBVIOUS
<1>4. PICK i \in Apart : \A j \in Apart : i <= j
  <2>1. Apart \subseteq Nat
    OBVIOUS
  <2> HIDE DEF Apart
  <2> QED
    BY <1>3, <2>1, LeastNatural
<1>5. i # 0
  BY <1>1, <1>2, <1>4
<1>6. i \in 1..k /\ i \in 1..m /\ i \in 1..n /\ i - 1 \in 0..k /\ i - 1 < i
  BY <1>4, <1>5
<1>7. f[i - 1] = g[i - 1]
  BY <1>4, <1>6
<1>8. f[i] = g[i]
  BY <1>1, <1>2, <1>6, <1>7
<1> QED
  BY <1>4, <1>8

\* An empty file has no cases.
LEMMA ReplayOfNothing == Replay(<< >>) = NoCases
<1> DEFINE f == CHOOSE f : Replays(f, << >>, Len(<< >>))
<1>1. Len(<< >>) = 0
  OBVIOUS
<1>2. \E g : Replays(g, << >>, 0)
  BY ReplayExists
<1>3. Replays(f, << >>, 0)
  BY <1>1, <1>2
<1>4. f[0] = NoCases
  BY <1>3, ReplayValues
<1> QED
  BY <1>1, <1>4, ReplayIsChosen

\* An event more in the file is the event applied to the cases.
LEMMA ReplayOfAppend ==
  ASSUME NEW events \in Seq(Events), NEW event \in Events
  PROVE  Replay(Append(events, event)) = ApplyEvent(Replay(events), event)
<1> DEFINE n == Len(events)
           more == Append(events, event)
           f == CHOOSE f : Replays(f, events, n)
           g == CHOOSE g : Replays(g, more, n + 1)
<1>1. n \in Nat /\ Len(more) = n + 1 /\ more[n + 1] = event /\ \A i \in 1..n : more[i] = events[i]
  OBVIOUS
<1>2. Replays(f, events, n)
  BY <1>1, ReplayExists
<1>3. Replays(g, more, n + 1)
  <2>1. n + 1 \in Nat
    BY <1>1
  <2> HIDE DEF more, n
  <2> QED
    BY <2>1, ReplayExists
<1>4. f[n] = Replay(events) /\ g[n + 1] = Replay(more)
  BY <1>1, ReplayIsChosen
<1> HIDE DEF f, g, more, n
<1>5. f[n] = g[n]
  <2>1. n <= n /\ n <= n + 1 /\ n + 1 \in Nat
    BY <1>1
  <2> QED
    BY <1>1, <1>2, <1>3, <2>1, ReplaysAgree
<1>6. g[n + 1] = ApplyEvent(g[n], more[n + 1])
  <2>1. n + 1 \in Nat /\ n + 1 \in 1..(n + 1) /\ n + 1 - 1 = n
    BY <1>1
  <2>2. \A i \in 1..(n + 1) : g[i] = ApplyEvent(g[i - 1], more[i])
    <3>1. n + 1 \in Nat
      BY <2>1
    <3> QED
      BY <1>3, <3>1, ReplayValues
  <2> QED
    BY <1>1, <2>1, <2>2
<1> QED
  BY <1>1, <1>4, <1>5, <1>6 DEF more

-----------------------------------------------------------------------------
(* One event more, one case changed.                                       *)

LEMMA TimesAreNumbers == Times \subseteq Nat /\ None \notin Times
BY LedgerAssumption DEF Times

LEMMA EventFacts ==
  ASSUME NEW e \in Events
  PROVE  /\ e # None /\ e.rec \in Recommendations /\ e.site \in Sites /\ e.at \in Times
         /\ e \in Issuances <=> e.type = "recommendation_issued"
         /\ e \in Responses <=> e.type = "recommendation_response"
         /\ e \in Requests <=> e.type = "execution_requested"
         /\ e \in Acknowledgements <=> e.type = "execution_acknowledged"
         /\ e \in Outcomes <=> e.type = "recommendation_outcome"
<1>1. e # None
  BY LedgerAssumption
<1>2. CASE e \in Issuances
  BY <1>1, <1>2 DEF Issuances, Responses, Requests, Acknowledgements, Outcomes
<1>3. CASE e \in Responses
  BY <1>1, <1>3 DEF Issuances, Responses, Requests, Acknowledgements, Outcomes
<1>4. CASE e \in Requests
  BY <1>1, <1>4 DEF Issuances, Responses, Requests, Acknowledgements, Outcomes
<1>5. CASE e \in Acknowledgements
  BY <1>1, <1>5 DEF Issuances, Responses, Requests, Acknowledgements, Outcomes
<1>6. CASE e \in Outcomes
  BY <1>1, <1>6 DEF Issuances, Responses, Requests, Acknowledgements, Outcomes
<1> QED
  BY <1>2, <1>3, <1>4, <1>5, <1>6 DEF Events

\* The kinds of event have nothing in common.
LEMMA KindsDiffer ==
  /\ Issuances \cap Responses = {} /\ Issuances \cap Requests = {}
  /\ Issuances \cap Acknowledgements = {} /\ Issuances \cap Outcomes = {}
  /\ Responses \cap Requests = {} /\ Responses \cap Acknowledgements = {} /\ Responses \cap Outcomes = {}
  /\ Requests \cap Acknowledgements = {} /\ Requests \cap Outcomes = {}
  /\ Acknowledgements \cap Outcomes = {}
  /\ None \notin Events /\ None \notin Cases
BY EventFacts, LedgerAssumption DEF Events

LEMMA CaseFacts ==
  ASSUME NEW c \in Cases
  PROVE  /\ c # None /\ c.issuedAt \in Times
         /\ c.response \in Responses \union {None} /\ c.request \in Requests \union {None}
         /\ c.acknowledgement \in Acknowledgements \union {None} /\ c.outcome \in Outcomes \union {None}
         /\ c = [issuedAt |-> c.issuedAt, response |-> c.response, request |-> c.request,
                 acknowledgement |-> c.acknowledgement, outcome |-> c.outcome]
BY KindsDiffer DEF Cases

\* The case that an event makes of a case.
Changed(c, e) ==
    CASE e.type = "recommendation_issued" -> NewCase(e)
      [] e.type = "recommendation_response" -> [c EXCEPT !.response = e]
      [] e.type = "execution_requested" -> [c EXCEPT !.request = e]
      [] e.type = "execution_acknowledged" -> [c EXCEPT !.acknowledgement = e]
      [] e.type = "recommendation_outcome" -> [c EXCEPT !.outcome = e]

LEMMA ApplyFacts ==
  ASSUME NEW cases \in [Recommendations -> Cases \union {None}], NEW e \in Events
  PROVE  /\ ApplyEvent(cases, e) = [cases EXCEPT ![e.rec] = Changed(cases[e.rec], e)]
         /\ ApplyEvent(cases, e)[e.rec] = Changed(cases[e.rec], e)
         /\ \A r \in Recommendations : r # e.rec => ApplyEvent(cases, e)[r] = cases[r]
<1>1. e.rec \in Recommendations
  BY EventFacts
<1>2. ApplyEvent(cases, e) = [cases EXCEPT ![e.rec] = Changed(cases[e.rec], e)]
  BY DEF ApplyEvent, Changed
<1> QED
  BY <1>1, <1>2

LEMMA ChangedFacts ==
  ASSUME NEW c \in Cases \union {None}, NEW e \in Events
  PROVE  /\ e \in Issuances => Changed(c, e) = NewCase(e)
         /\ e \in Responses => Changed(c, e) = [c EXCEPT !.response = e]
         /\ e \in Requests => Changed(c, e) = [c EXCEPT !.request = e]
         /\ e \in Acknowledgements => Changed(c, e) = [c EXCEPT !.acknowledgement = e]
         /\ e \in Outcomes => Changed(c, e) = [c EXCEPT !.outcome = e]
BY EventFacts DEF Changed

\* The ledger accepts an event of each kind only where its case is ready for it.
May(c, e) ==
    /\ e \in Responses => MayRespond(c, e)
    /\ e \in Requests => MayRequest(c, e)
    /\ e \in Acknowledgements => MayAcknowledge(c, e)
    /\ e \in Outcomes => MayConclude(c, e)

LEMMA AdmissibleFacts ==
  ASSUME NEW cases, NEW e \in Events, Admissible(cases, e)
  PROVE  /\ e \in Issuances => cases[e.rec] = None
         /\ e \notin Issuances => /\ cases[e.rec] # None /\ e.site = SiteOf[e.rec]
                                  /\ May(cases[e.rec], e)
<1>1. CASE e \in Issuances
  BY <1>1, EventFacts DEF Admissible
<1>2. CASE e \in Responses
  BY <1>2, EventFacts, KindsDiffer DEF Admissible, May
<1>3. CASE e \in Requests
  BY <1>3, EventFacts, KindsDiffer DEF Admissible, May
<1>4. CASE e \in Acknowledgements
  BY <1>4, EventFacts, KindsDiffer DEF Admissible, May
<1>5. CASE e \in Outcomes
  BY <1>5, EventFacts, KindsDiffer DEF Admissible, May
<1> QED
  BY <1>1, <1>2, <1>3, <1>4, <1>5 DEF Events

LEMMA PlaceFacts ==
  ASSUME NEW e \in Events
  PROVE  /\ e \in Issuances <=> Place(e) = 0
         /\ e \in Responses <=> Place(e) = 1
         /\ e \in Requests <=> Place(e) = 2
         /\ e \in Acknowledgements <=> Place(e) = 3
         /\ e \in Outcomes <=> Place(e) = 4
         /\ Place(e) \in 0..4
BY KindsDiffer DEF Place, Events

\* No field of a sound case is later than the latest, and none comes without
\* those before it.
LEMMA Latest ==
  ASSUME NEW r, NEW c, CaseSound(r, c), c.response # None
  PROVE  /\ LatestTime(c) \in Nat /\ c.issuedAt \in Nat /\ c.issuedAt <= LatestTime(c)
         /\ c.response.at \in Nat /\ c.issuedAt <= c.response.at /\ c.response.at <= LatestTime(c)
         /\ c.request # None => /\ c.request.at \in Nat
                                /\ c.response.at <= c.request.at /\ c.request.at <= LatestTime(c)
         /\ c.acknowledgement # None => /\ c.acknowledgement.at \in Nat /\ c.acknowledgement.at = LatestTime(c)
                                        /\ c.request.at <= c.acknowledgement.at
<1>1. /\ c \in Cases /\ c.issuedAt \in Times /\ c.response \in Responses
      /\ c.request # None => c.request \in Requests
      /\ c.acknowledgement # None => c.acknowledgement \in Acknowledgements /\ c.request # None
  BY CaseFacts DEF CaseSound
<1>2. /\ c.issuedAt \in Nat /\ c.response.at \in Nat
      /\ c.request # None => c.request.at \in Nat
      /\ c.acknowledgement # None => c.acknowledgement.at \in Nat
  BY <1>1, TimesAreNumbers DEF Responses, Requests, Acknowledgements
<1>3. /\ c.response.at >= c.issuedAt
      /\ c.request # None => c.request.at >= c.response.at
      /\ c.acknowledgement # None => c.acknowledgement.at >= c.request.at
  BY DEF CaseSound
<1>4. LatestTime(c) = IF c.acknowledgement # None THEN c.acknowledgement.at
                      ELSE IF c.request # None THEN c.request.at ELSE c.response.at
  BY DEF LatestTime
<1> QED
  BY <1>1, <1>2, <1>3, <1>4

-----------------------------------------------------------------------------
(* What each kind of event makes of the case it is about.                  *)

\* The event is all that is new about the case, and it is the last of it.
Grows(r, c, d, e) ==
    /\ CaseSound(r, d)
    /\ d.response # None => d.response = e \/ (c # None /\ d.response = c.response)
    /\ d.request # None => d.request = e \/ (c # None /\ d.request = c.request)
    /\ d.acknowledgement # None => d.acknowledgement = e \/ (c # None /\ d.acknowledgement = c.acknowledgement)
    /\ d.outcome # None => d.outcome = e \/ (c # None /\ d.outcome = c.outcome)
    /\ Holds(d, e)
    /\ c # None => \A x \in Events : Holds(c, x) =>
                     Holds(d, x) /\ Place(x) < Place(e) /\ x.at <= e.at

LEMMA IssuanceGrows ==
  ASSUME NEW e \in Issuances
  PROVE  Grows(e.rec, None, NewCase(e), e)
<1> DEFINE d == NewCase(e)
<1>1. /\ d = [issuedAt |-> e.at, response |-> None, request |-> None, acknowledgement |-> None, outcome |-> None]
      /\ e \in Events /\ e.at \in Times
  BY EventFacts DEF NewCase, Events
<1>2. d \in Cases
  BY <1>1 DEF Cases
<1>3. d.issuedAt = e.at /\ d.response = None /\ d.request = None /\ d.acknowledgement = None /\ d.outcome = None
  BY <1>1
<1> HIDE DEF d
<1>4. CaseSound(e.rec, d)
  BY <1>2, <1>3 DEF CaseSound
<1>5. Holds(d, e)
  BY <1>1, <1>3, KindsDiffer DEF Holds
<1> QED
  BY <1>3, <1>4, <1>5 DEF Grows, d

LEMMA ResponseGrows ==
  ASSUME NEW r, NEW c, CaseSound(r, c), NEW e \in Responses, About(r, e), MayRespond(c, e)
  PROVE  Grows(r, c, [c EXCEPT !.response = e], e)
<1> DEFINE d == [c EXCEPT !.response = e]
<1>1. c \in Cases /\ e \in Events /\ e # None /\ e.at \in Times /\ e.at \in Nat /\ c.issuedAt \in Times /\ c.issuedAt \in Nat
  BY CaseFacts, EventFacts, TimesAreNumbers DEF CaseSound, Events
<1>2. c.response = None /\ c.request = None /\ c.acknowledgement = None /\ c.outcome = None /\ e.at >= c.issuedAt
  BY DEF MayRespond, CaseSound
<1>3. /\ d \in Cases /\ d.issuedAt = c.issuedAt /\ d.response = e /\ d.request = None
      /\ d.acknowledgement = None /\ d.outcome = None
  BY <1>1, <1>2 DEF Cases
<1> HIDE DEF d
<1>4. CaseSound(r, d)
  BY <1>2, <1>3 DEF CaseSound
<1>5. Holds(d, e)
  BY <1>1, <1>3, KindsDiffer DEF Holds
<1>6. ASSUME NEW x \in Events, Holds(c, x)
      PROVE  Holds(d, x) /\ Place(x) < Place(e) /\ x.at <= e.at
  <2>1. x \in Issuances /\ x.at = c.issuedAt
    BY <1>2, <1>6, KindsDiffer DEF Holds, Events
  <2>2. Holds(d, x)
    BY <1>3, <2>1, KindsDiffer DEF Holds
  <2>3. Place(x) = 0 /\ Place(e) = 1
    BY <1>1, <2>1, PlaceFacts
  <2> QED
    BY <1>1, <1>2, <2>1, <2>2, <2>3
<1> QED
  BY <1>2, <1>3, <1>4, <1>5, <1>6 DEF Grows, d

LEMMA RequestGrows ==
  ASSUME NEW r, NEW c, CaseSound(r, c), NEW e \in Requests, About(r, e), e.rec = r, MayRequest(c, e)
  PROVE  Grows(r, c, [c EXCEPT !.request = e], e)
<1> DEFINE d == [c EXCEPT !.request = e]
<1>1. c \in Cases /\ e \in Events /\ e # None /\ e.at \in Nat
  BY EventFacts, TimesAreNumbers DEF CaseSound, Events
<1>2. /\ c.response # None /\ c.response.kind # "reject" /\ c.request = None /\ c.acknowledgement = None
      /\ c.outcome = None /\ e.effective = Effective(r, c) /\ e.at >= c.response.at
  BY DEF MayRequest, CaseSound
<1>3. /\ d \in Cases /\ d.issuedAt = c.issuedAt /\ d.response = c.response /\ d.request = e
      /\ d.acknowledgement = None /\ d.outcome = None
  BY <1>1, <1>2 DEF Cases
<1> HIDE DEF d
<1>4. Effective(r, d) = Effective(r, c)
  BY <1>3 DEF Effective
<1>5. CaseSound(r, d)
  BY <1>2, <1>3, <1>4 DEF CaseSound
<1>6. Holds(d, e)
  BY <1>1, <1>3, KindsDiffer DEF Holds
<1>7. ASSUME NEW x \in Events, Holds(c, x)
      PROVE  Holds(d, x) /\ Place(x) < Place(e) /\ x.at <= e.at
  <2>1. (x \in Issuances /\ x.at = c.issuedAt) \/ (x \in Responses /\ x = c.response)
    BY <1>2, <1>7, KindsDiffer DEF Holds, Events
  <2>2. Holds(d, x)
    BY <1>3, <2>1, KindsDiffer DEF Holds
  <2>3. Place(x) < 2 /\ Place(e) = 2
    BY <1>1, <2>1, PlaceFacts
  <2>4. x.at <= e.at
    BY <1>1, <1>2, <2>1, Latest
  <2> QED
    BY <2>2, <2>3, <2>4
<1>8. c # None
  BY <1>1, KindsDiffer
<1> QED
  BY <1>2, <1>3, <1>5, <1>6, <1>7, <1>8 DEF Grows, d

LEMMA AcknowledgementGrows ==
  ASSUME NEW r, NEW c, CaseSound(r, c), NEW e \in Acknowledgements, About(r, e), e.rec = r, MayAcknowledge(c, e)
  PROVE  Grows(r, c, [c EXCEPT !.acknowledgement = e], e)
<1> DEFINE d == [c EXCEPT !.acknowledgement = e]
<1>1. c \in Cases /\ e \in Events /\ e # None /\ e.at \in Nat
  BY EventFacts, TimesAreNumbers DEF CaseSound, Events
<1>2. /\ c.request # None /\ c.response # None /\ c.acknowledgement = None /\ c.outcome = None
      /\ e.effective = Effective(r, c) /\ e.request = c.request /\ e.at >= c.request.at
  BY DEF MayAcknowledge, CaseSound
<1>3. /\ d \in Cases /\ d.issuedAt = c.issuedAt /\ d.response = c.response /\ d.request = c.request
      /\ d.acknowledgement = e /\ d.outcome = None
  BY <1>1, <1>2 DEF Cases
<1> HIDE DEF d
<1>4. Effective(r, d) = Effective(r, c)
  BY <1>3 DEF Effective
<1>5. CaseSound(r, d)
  BY <1>2, <1>3, <1>4 DEF CaseSound
<1>6. Holds(d, e)
  BY <1>1, <1>3, KindsDiffer DEF Holds
<1>7. ASSUME NEW x \in Events, Holds(c, x)
      PROVE  Holds(d, x) /\ Place(x) < Place(e) /\ x.at <= e.at
  <2>1. \/ x \in Issuances /\ x.at = c.issuedAt
        \/ x \in Responses /\ x = c.response
        \/ x \in Requests /\ x = c.request
    BY <1>2, <1>7, KindsDiffer DEF Holds, Events
  <2>2. Holds(d, x)
    BY <1>3, <2>1, KindsDiffer DEF Holds
  <2>3. Place(x) < 3 /\ Place(e) = 3
    BY <1>1, <2>1, PlaceFacts
  <2>4. x.at <= e.at
    BY <1>1, <1>2, <2>1, Latest
  <2> QED
    BY <2>2, <2>3, <2>4
<1>8. c # None
  BY <1>1, KindsDiffer
<1> QED
  BY <1>2, <1>3, <1>5, <1>6, <1>7, <1>8 DEF Grows, d

LEMMA OutcomeGrows ==
  ASSUME NEW r, NEW c, CaseSound(r, c), NEW e \in Outcomes, About(r, e), e.rec = r, MayConclude(c, e)
  PROVE  Grows(r, c, [c EXCEPT !.outcome = e], e)
<1> DEFINE d == [c EXCEPT !.outcome = e]
<1>1. c \in Cases /\ e \in Events /\ e # None /\ e.at \in Nat
  BY EventFacts, TimesAreNumbers DEF CaseSound, Events
<1>2. /\ c.response # None /\ c.outcome = None
      /\ e.effective = Effective(r, c) /\ e.at >= LatestTime(c)
      /\ e.start # None => c.response.kind # "reject" /\ c.acknowledgement # None /\ e.start >= c.acknowledgement.at
  BY DEF MayConclude
<1>3. /\ d \in Cases /\ d.issuedAt = c.issuedAt /\ d.response = c.response /\ d.request = c.request
      /\ d.acknowledgement = c.acknowledgement /\ d.outcome = e
  BY <1>1, <1>2 DEF Cases
<1> HIDE DEF d
<1>4. Effective(r, d) = Effective(r, c) /\ LatestTime(d) = LatestTime(c)
  BY <1>3 DEF Effective, LatestTime
<1>5. CaseSound(r, d)
  BY <1>2, <1>3, <1>4 DEF CaseSound
<1>6. Holds(d, e)
  BY <1>1, <1>3, KindsDiffer DEF Holds
<1>7. ASSUME NEW x \in Events, Holds(c, x)
      PROVE  Holds(d, x) /\ Place(x) < Place(e) /\ x.at <= e.at
  <2>1. \/ x \in Issuances /\ x.at = c.issuedAt
        \/ x \in Responses /\ x = c.response
        \/ x \in Requests /\ x = c.request
        \/ x \in Acknowledgements /\ x = c.acknowledgement
    BY <1>2, <1>7, KindsDiffer DEF Holds, Events
  <2>2. Holds(d, x)
    BY <1>3, <2>1, KindsDiffer DEF Holds
  <2>3. Place(x) < 4 /\ Place(e) = 4
    BY <1>1, <2>1, PlaceFacts
  <2>4. x # None
    BY EventFacts
  <2>5. x.at <= e.at
    BY <1>1, <1>2, <2>1, <2>4, Latest
  <2> QED
    BY <2>2, <2>3, <2>5
<1>8. c # None
  BY <1>1, KindsDiffer
<1> QED
  BY <1>2, <1>3, <1>5, <1>6, <1>7, <1>8 DEF Grows, d

\* An admissible event makes a sound case of a sound case.
LEMMA CaseGrows ==
  ASSUME NEW cases \in [Recommendations -> Cases \union {None}], NEW e \in Events, Admissible(cases, e),
         cases[e.rec] # None => CaseSound(e.rec, cases[e.rec])
  PROVE  Grows(e.rec, cases[e.rec], Changed(cases[e.rec], e), e)
<1> DEFINE c == cases[e.rec]
<1>1. c \in Cases \union {None}
  BY EventFacts
<1>2. CASE e \in Issuances
  BY <1>1, <1>2, AdmissibleFacts, ChangedFacts, IssuanceGrows
<1>3. CASE e \notin Issuances
  <2>1. c # None /\ CaseSound(e.rec, c) /\ About(e.rec, e) /\ May(c, e)
    BY <1>3, AdmissibleFacts DEF About
  <2>2. CASE e \in Responses
    <3>1. Changed(c, e) = [c EXCEPT !.response = e]
      BY <1>1, <2>2, ChangedFacts
    <3>2. Grows(e.rec, c, [c EXCEPT !.response = e], e)
      <4> HIDE DEF c
      <4> QED
        BY <2>1, <2>2, ResponseGrows DEF May
    <3> QED
      BY <3>1, <3>2
  <2>3. CASE e \in Requests
    <3>1. Changed(c, e) = [c EXCEPT !.request = e]
      BY <1>1, <2>3, ChangedFacts
    <3>2. Grows(e.rec, c, [c EXCEPT !.request = e], e)
      <4> HIDE DEF c
      <4> QED
        BY <2>1, <2>3, RequestGrows DEF May
    <3> QED
      BY <3>1, <3>2
  <2>4. CASE e \in Acknowledgements
    <3>1. Changed(c, e) = [c EXCEPT !.acknowledgement = e]
      BY <1>1, <2>4, ChangedFacts
    <3>2. Grows(e.rec, c, [c EXCEPT !.acknowledgement = e], e)
      <4> HIDE DEF c
      <4> QED
        BY <2>1, <2>4, AcknowledgementGrows DEF May
    <3> QED
      BY <3>1, <3>2
  <2>5. CASE e \in Outcomes
    <3>1. Changed(c, e) = [c EXCEPT !.outcome = e]
      BY <1>1, <2>5, ChangedFacts
    <3>2. Grows(e.rec, c, [c EXCEPT !.outcome = e], e)
      <4> HIDE DEF c
      <4> QED
        BY <2>1, <2>5, OutcomeGrows DEF May
    <3> QED
      BY <3>1, <3>2
  <2> QED
    BY <1>3, <2>2, <2>3, <2>4, <2>5 DEF c, Events
<1> QED
  BY <1>2, <1>3

-----------------------------------------------------------------------------
(* The cases of the file fit the file, and its events are in order.        *)

LEMMA AppendFacts ==
  ASSUME NEW events \in Seq(Events), NEW e \in Events
  PROVE  /\ Len(events) \in Nat
         /\ Append(events, e) \in Seq(Events) /\ Len(Append(events, e)) = Len(events) + 1
         /\ \A i \in 1..Len(events) : Append(events, e)[i] = events[i] /\ events[i] \in Events
         /\ Append(events, e)[Len(events) + 1] = e
         /\ \A i \in 1..Len(Append(events, e)) : i \in 1..Len(events) \/ i = Len(events) + 1
OBVIOUS

LEMMA FitKept ==
  ASSUME NEW events \in Seq(Events), NEW cases, CasesFit(events, cases), InOrder(events),
         NEW e \in Events, Admissible(cases, e)
  PROVE  CasesFit(Append(events, e), ApplyEvent(cases, e)) /\ InOrder(Append(events, e))
<1> DEFINE more == Append(events, e)
           after == ApplyEvent(cases, e)
           n == Len(events)
           c == cases[e.rec]
           d == Changed(c, e)
<1>1. /\ n \in Nat /\ more \in Seq(Events) /\ Len(more) = n + 1
      /\ \A i \in 1..n : more[i] = events[i] /\ events[i] \in Events
      /\ more[n + 1] = e /\ \A i \in 1..Len(more) : i \in 1..n \/ i = n + 1
  BY AppendFacts
<1>2. cases \in [Recommendations -> Cases \union {None}] /\ e.rec \in Recommendations
      /\ (c # None => CaseSound(e.rec, c))
  BY EventFacts DEF CasesFit
<1>3. Grows(e.rec, c, d, e)
  BY <1>2, CaseGrows
<1>4. after = [cases EXCEPT ![e.rec] = d] /\ after[e.rec] = d
      /\ \A r \in Recommendations : r # e.rec => after[r] = cases[r]
  BY <1>2, ApplyFacts
<1>5. d \in Cases /\ d # None
  BY <1>3, KindsDiffer DEF Grows, CaseSound
<1>6. /\ \A r \in Recommendations : cases[r] # None =>
           /\ CaseSound(r, cases[r])
           /\ \A event \in Fields(cases[r]) : \E i \in 1..n : events[i] = event
      /\ \A i \in 1..n : cases[events[i].rec] # None /\ Holds(cases[events[i].rec], events[i])
  BY DEF CasesFit
<1> HIDE DEF more, after, n, c, d
<1>7. after \in [Recommendations -> Cases \union {None}]
  BY <1>2, <1>4, <1>5
<1>8. ASSUME NEW r \in Recommendations, after[r] # None
      PROVE  /\ CaseSound(r, after[r])
             /\ \A event \in Fields(after[r]) : \E i \in 1..Len(more) : more[i] = event
  <2>1. CASE r # e.rec
    <3>1. after[r] = cases[r]
      BY <1>4, <2>1
    <3>2. \A event \in Fields(cases[r]) : \E i \in 1..n : events[i] = event
      BY <1>6, <1>8, <3>1
    <3>3. \A i \in 1..n : i \in 1..Len(more) /\ more[i] = events[i]
      BY <1>1
    <3>4. CaseSound(r, cases[r])
      BY <1>6, <1>8, <3>1
    <3> QED
      BY <3>1, <3>2, <3>3, <3>4
  <2>2. CASE r = e.rec
    <3>1. after[r] = d /\ CaseSound(r, d)
      BY <1>3, <1>4, <2>2 DEF Grows
    <3>2. ASSUME NEW event \in Fields(d) PROVE \E i \in 1..Len(more) : more[i] = event
      <4>1. event = e \/ (c # None /\ event \in Fields(c))
        BY <1>3, <3>2 DEF Grows, Fields
      <4>2. CASE event = e
        <5>1. n + 1 \in 1..Len(more)
          BY <1>1
        <5> QED
          BY <1>1, <4>2, <5>1
      <4>3. CASE c # None /\ event \in Fields(c)
        <5>1. PICK i \in 1..n : events[i] = event
          BY <1>2, <1>6, <4>3 DEF c
        <5>2. i \in 1..Len(more) /\ more[i] = event
          BY <1>1, <5>1
        <5> QED
          BY <5>2
      <4> QED
        BY <4>1, <4>2, <4>3
    <3> QED
      BY <3>1, <3>2
  <2> QED
    BY <2>1, <2>2
<1>9. ASSUME NEW i \in 1..n
      PROVE  /\ after[events[i].rec] # None /\ Holds(after[events[i].rec], events[i])
             /\ events[i].rec = e.rec => Place(events[i]) < Place(e) /\ events[i].at <= e.at
  <2>1. events[i] \in Events /\ events[i].rec \in Recommendations
    BY <1>1, EventFacts
  <2>2. cases[events[i].rec] # None /\ Holds(cases[events[i].rec], events[i])
    BY <1>6
  <2>3. CASE events[i].rec # e.rec
    BY <1>4, <2>1, <2>2, <2>3
  <2>4. CASE events[i].rec = e.rec
    <3>1. c # None /\ Holds(c, events[i])
      BY <2>2, <2>4 DEF c
    <3>2. Holds(d, events[i]) /\ Place(events[i]) < Place(e) /\ events[i].at <= e.at
      BY <1>3, <2>1, <3>1 DEF Grows
    <3> QED
      BY <1>4, <1>5, <2>4, <3>2
  <2> QED
    BY <2>3, <2>4
<1>10. ASSUME NEW i \in 1..Len(more)
       PROVE  after[more[i].rec] # None /\ Holds(after[more[i].rec], more[i])
  <2>1. CASE i \in 1..n
    BY <1>1, <1>9, <2>1
  <2>2. CASE i = n + 1
    BY <1>1, <1>3, <1>4, <1>5, <2>2 DEF Grows
  <2> QED
    BY <1>1, <2>1, <2>2
<1>11. CasesFit(more, after)
  BY <1>7, <1>8, <1>10 DEF CasesFit
<1>12. InOrder(more)
  <2> SUFFICES ASSUME NEW i \in 1..Len(more), NEW j \in 1..Len(more), i < j, more[i].rec = more[j].rec
               PROVE  Place(more[i]) < Place(more[j]) /\ more[i].at <= more[j].at
    BY DEF InOrder
  <2>1. i \in 1..n
    BY <1>1
  <2>2. CASE j \in 1..n
    <3>1. more[i] = events[i] /\ more[j] = events[j]
      BY <1>1, <2>1, <2>2
    <3> QED
      BY <2>1, <2>2, <3>1 DEF InOrder, n
  <2>3. CASE j = n + 1
    BY <1>1, <1>9, <2>1, <2>3
  <2> QED
    BY <1>1, <2>2, <2>3
<1> QED
  BY <1>11, <1>12 DEF more, after

-----------------------------------------------------------------------------
(* Every step writes one admissible event, or none.                        *)

\* The step leaves the file alone, or adds an event that its cases admit.
Extends ==
    \/ file' = file
    \/ ~halfLine /\ halfLine' = halfLine /\
       \E e \in Events : Admissible(Replay(file), e) /\ file' = Append(file, e)

LEMMA WriteExtends ==
  ASSUME NEW e \in Events, WriteEvent(Replay(file), e), Readable, halfLine \in BOOLEAN
  PROVE  Extends /\ halfLine' \in BOOLEAN
<1>1. ~halfLine /\ Admissible(Replay(file), e)
  BY DEF WriteEvent, Readable
<1>2. CASE file' = Append(file, e) /\ halfLine' = halfLine
  BY <1>1, <1>2, Zenon DEF Extends
<1>3. CASE file' = file /\ halfLine' = TRUE
  BY <1>3, Zenon DEF Extends
<1> QED
  BY <1>2, <1>3, Zenon DEF WriteEvent

LEMMA SitesFacts == ASSUME NEW r \in Recommendations PROVE SiteOf[r] \in Sites
BY DEF Sites

LEMMA EffectiveFacts ==
  ASSUME NEW r \in Recommendations, NEW c \in Cases
  PROVE  Effective(r, c) \in Versions
<1>1. c.response \in Responses \union {None}
  BY CaseFacts
<1>2. CASE c.response = None
  BY <1>2 DEF Effective, Versions
<1>3. CASE c.response \in Responses
  <2>1. c.response.at \in Times
    BY <1>3 DEF Responses
  <2> QED
    BY <2>1 DEF Effective, Versions
<1> QED
  BY <1>1, <1>2, <1>3

\* What is left of the type when the file is seen to.
LEMMA StepTypes ==
  ASSUME LedgerTypeOK, file' \in Seq(Events), halfLine' \in BOOLEAN, plan' = plan,
         seen' \in [Actors -> Views \union {None}], deferred' \in [Queues -> SUBSET Recommendations]
  PROVE  LedgerTypeOK'
BY DEF LedgerTypeOK

LEMMA ExtendsType ==
  ASSUME LedgerTypeOK, Extends
  PROVE  file' \in Seq(Events)
BY AppendFacts DEF LedgerTypeOK, Extends

LEMMA DoneType ==
  ASSUME LedgerTypeOK, NEW a \in Actors, Done(a)
  PROVE  seen' \in [Actors -> Views \union {None}] /\ seen'[a] = None
         /\ \A b \in Actors : b # a => seen'[b] = seen[b]
BY DEF LedgerTypeOK, Done

\* A queue that did not look since sees nothing else, and defers what it saw or less.
LEMMA ScopeKept ==
  ASSUME LedgerTypeOK, ViewsInScope, DeferralsInScope,
         \A q \in Queues : seen'[q] = seen[q] \/ seen'[q] = None,
         \A q \in Queues : \A r \in deferred'[q] :
           r \in deferred[q] \/ (seen[q] # None /\ r = seen[q].rec)
  PROVE  ViewsInScope' /\ DeferralsInScope'
BY DEF ViewsInScope, DeferralsInScope

\* What every step does to the file, to types and to what is in scope.
StepKeeps == Extends /\ LedgerTypeOK' /\ ViewsInScope' /\ DeferralsInScope'

LEMMA IssueKeeps ==
  ASSUME LedgerInv, plan' = plan, NEW r \in Recommendations, Issue(r)
  PROVE  StepKeeps
<1>1. LedgerTypeOK /\ ViewsInScope /\ DeferralsInScope /\ halfLine \in BOOLEAN /\ Readable
      /\ seen' = seen /\ deferred' = deferred
  BY DEF LedgerInv, LedgerTypeOK, Issue, Writable
<1>2. PICK at \in Times : WriteEvent(Replay(file), Issued(r, at))
  BY DEF Issue
<1>3. Issued(r, at) \in Events
  BY SitesFacts DEF Issued, Events, Issuances
<1>4. Extends /\ halfLine' \in BOOLEAN
  BY <1>1, <1>2, <1>3, WriteExtends
<1>5. LedgerTypeOK'
  BY <1>1, <1>4, ExtendsType, StepTypes DEF LedgerTypeOK
<1> QED
  BY <1>1, <1>4, <1>5, ScopeKept DEF StepKeeps

LEMMA LookKeeps ==
  ASSUME LedgerInv, plan' = plan, NEW a \in Actors, NEW r \in Recommendations, Look(a, r)
  PROVE  StepKeeps
<1>1. LedgerTypeOK /\ ViewsInScope /\ DeferralsInScope /\ deferred' = deferred /\ file' = file
      /\ seen \in [Actors -> Views \union {None}] /\ halfLine' = halfLine
  BY DEF LedgerInv, LedgerTypeOK, Look
<1> DEFINE v == [rec |-> r, case |-> Replay(file)[r]]
<1>2. v \in Views
  <2>1. Replay(file)[r] \in Cases
    BY DEF LedgerInv, CasesFit, Look
  <2> QED
    BY <2>1 DEF Views
<1>3. v.rec = r /\ seen' = [seen EXCEPT ![a] = v]
  BY DEF Look
<1>4. a \in Queues /\ Scope[a] # None => SiteOf[r] = Scope[a]
  BY DEF Look
<1> HIDE DEF v
<1>5. seen' \in [Actors -> Views \union {None}] /\ seen'[a] = v /\ \A b \in Actors : b # a => seen'[b] = seen[b]
  BY <1>1, <1>2, <1>3
<1>6. Extends
  BY <1>1 DEF Extends
<1>7. LedgerTypeOK'
  BY <1>1, <1>5 DEF LedgerTypeOK
<1>8. ViewsInScope'
  BY <1>1, <1>3, <1>4, <1>5 DEF ViewsInScope, Actors
<1>9. DeferralsInScope'
  BY <1>1 DEF DeferralsInScope
<1> QED
  BY <1>6, <1>7, <1>8, <1>9 DEF StepKeeps

LEMMA RespondKeeps ==
  ASSUME LedgerInv, plan' = plan, NEW q \in Queues, Respond(q)
  PROVE  StepKeeps
<1>1. /\ LedgerTypeOK /\ ViewsInScope /\ DeferralsInScope /\ halfLine \in BOOLEAN /\ Readable
      /\ q \in Actors /\ Done(q) /\ seen[q] \in Views /\ deferred \in [Queues -> SUBSET Recommendations]
  BY DEF LedgerInv, LedgerTypeOK, Respond, Writable, Actors
<1> DEFINE r == seen[q].rec
<1>2. r \in Recommendations
  BY <1>1 DEF Views
<1>3. PICK kind \in {"accept", "reject", "modify"}, at \in Times :
        WriteEvent(Replay(file), Response(r, SiteOf[r], kind, at))
  BY DEF Respond
<1>4. Response(r, SiteOf[r], kind, at) \in Events
  BY <1>2, SitesFacts DEF Response, Events, Responses
<1>5. Extends /\ halfLine' \in BOOLEAN
  BY <1>1, <1>3, <1>4, WriteExtends
<1>6. deferred' = deferred \/ deferred' = [deferred EXCEPT ![q] = @ \ {r}]
  BY DEF Respond
<1> HIDE DEF r
<1>7. deferred' \in [Queues -> SUBSET Recommendations] /\ \A p \in Queues : deferred'[p] \subseteq deferred[p]
  BY <1>1, <1>6
<1>8. seen' \in [Actors -> Views \union {None}] /\ \A p \in Queues : seen'[p] = seen[p] \/ seen'[p] = None
  BY <1>1, DoneType DEF Actors
<1>9. LedgerTypeOK'
  BY <1>1, <1>5, <1>7, <1>8, ExtendsType, StepTypes
<1>10. ViewsInScope' /\ DeferralsInScope'
  BY <1>1, <1>7, <1>8, ScopeKept
<1> QED
  BY <1>5, <1>9, <1>10 DEF StepKeeps

LEMMA RecordKeeps ==
  ASSUME LedgerInv, plan' = plan, NEW a \in Recorders, RecordExecution(a)
  PROVE  StepKeeps
<1>1. /\ LedgerTypeOK /\ ViewsInScope /\ DeferralsInScope /\ halfLine \in BOOLEAN /\ Readable
      /\ a \in Actors /\ Done(a) /\ seen[a] \in Views /\ deferred' = deferred
      /\ deferred \in [Queues -> SUBSET Recommendations]
  BY DEF LedgerInv, LedgerTypeOK, RecordExecution, Writable, Actors
<1> DEFINE r == seen[a].rec
           case == seen[a].case
           effective == Effective(r, case)
<1>2. r \in Recommendations /\ case \in Cases
  BY <1>1 DEF Views
<1>3. effective \in Versions
  BY <1>2, EffectiveFacts
<1>4. PICK at \in Times, site \in Sites :
        \/ WriteEvent(Replay(file), Request(r, site, effective, at))
        \/ /\ case.request # None
           /\ WriteEvent(Replay(file), Acknowledgement(r, site, effective, case.request, at))
        \/ \E start \in (0..at) \union {None} :
             WriteEvent(Replay(file), Outcome(r, site, effective, start, at))
  BY DEF RecordExecution
<1> HIDE DEF r, case, effective
<1>5. Extends /\ halfLine' \in BOOLEAN
  <2>1. CASE WriteEvent(Replay(file), Request(r, site, effective, at))
    <3>1. Request(r, site, effective, at) \in Events
      BY <1>2, <1>3 DEF Request, Events, Requests
    <3> QED
      BY <1>1, <2>1, <3>1, WriteExtends
  <2>2. CASE /\ case.request # None
             /\ WriteEvent(Replay(file), Acknowledgement(r, site, effective, case.request, at))
    <3>1. case.request \in Requests
      BY <1>2, <2>2, CaseFacts
    <3>2. Acknowledgement(r, site, effective, case.request, at) \in Events
      BY <1>2, <1>3, <3>1 DEF Acknowledgement, Events, Acknowledgements
    <3> QED
      BY <1>1, <2>2, <3>2, WriteExtends
  <2>3. ASSUME NEW start \in (0..at) \union {None},
               WriteEvent(Replay(file), Outcome(r, site, effective, start, at))
        PROVE  Extends /\ halfLine' \in BOOLEAN
    <3>1. start \in Times \union {None}
      BY LedgerAssumption DEF Times
    <3>2. Outcome(r, site, effective, start, at) \in Events
      BY <1>2, <1>3, <3>1 DEF Outcome, Events, Outcomes
    <3> QED
      BY <1>1, <2>3, <3>2, WriteExtends
  <2> QED
    BY <1>4, <2>1, <2>2, <2>3
<1>6. seen' \in [Actors -> Views \union {None}] /\ \A p \in Queues : seen'[p] = seen[p] \/ seen'[p] = None
  BY <1>1, DoneType DEF Actors
<1>7. LedgerTypeOK'
  BY <1>1, <1>5, <1>6, ExtendsType, StepTypes
<1>8. ViewsInScope' /\ DeferralsInScope'
  BY <1>1, <1>6, ScopeKept
<1> QED
  BY <1>5, <1>7, <1>8 DEF StepKeeps

\* The steps that write nothing.
LEMMA MemoryKeeps ==
  ASSUME LedgerInv, plan' = plan,
         \/ \E q \in Queues : Defer(q) \/ Restart(q)
         \/ \E q \in Queues, r \in Recommendations : ClearDeferral(q, r)
         \/ \E a \in Actors : Abandon(a)
  PROVE  StepKeeps
<1>1. /\ LedgerTypeOK /\ ViewsInScope /\ DeferralsInScope
      /\ deferred \in [Queues -> SUBSET Recommendations] /\ Queues \subseteq Actors
      /\ seen \in [Actors -> Views \union {None}]
  BY DEF LedgerInv, LedgerTypeOK, Actors
<1>2. file' = file /\ halfLine' = halfLine
  BY DEF Defer, Restart, ClearDeferral, Abandon
<1>3. seen' \in [Actors -> Views \union {None}] /\ \A p \in Queues : seen'[p] = seen[p] \/ seen'[p] = None
  <2>1. CASE seen' = seen
    BY <1>1, <2>1
  <2>2. CASE \E a \in Actors : Done(a)
    BY <1>1, <2>2, DoneType
  <2> QED
    BY <1>1, <2>1, <2>2 DEF Defer, Restart, ClearDeferral, Abandon
<1>4. /\ deferred' \in [Queues -> SUBSET Recommendations]
      /\ \A p \in Queues : \A r \in deferred'[p] :
           r \in deferred[p] \/ (seen[p] # None /\ r = seen[p].rec)
  <2>1. ASSUME NEW q \in Queues, Defer(q)
        PROVE  /\ deferred' \in [Queues -> SUBSET Recommendations]
               /\ \A p \in Queues : \A r \in deferred'[p] :
                    r \in deferred[p] \/ (seen[p] # None /\ r = seen[p].rec)
    <3>1. seen[q] \in Views /\ seen[q] # None /\ deferred' = [deferred EXCEPT ![q] = @ \union {seen[q].rec}]
      BY <1>1, <2>1 DEF Defer
    <3>2. seen[q].rec \in Recommendations
      BY <3>1 DEF Views
    <3> QED
      BY <1>1, <3>1, <3>2
  <2>2. CASE deferred' = deferred \/ \E q \in Queues : deferred' = [deferred EXCEPT ![q] = {}]
    BY <1>1, <2>2
  <2>3. CASE \E q \in Queues, r \in Recommendations : deferred' = [deferred EXCEPT ![q] = @ \ {r}]
    BY <1>1, <2>3
  <2> QED
    BY <2>1, <2>2, <2>3 DEF Restart, ClearDeferral, Abandon
<1>5. Extends
  BY <1>2 DEF Extends
<1>6. LedgerTypeOK'
  BY <1>1, <1>2, <1>3, <1>4 DEF LedgerTypeOK
<1>7. ViewsInScope' /\ DeferralsInScope'
  BY <1>1, <1>3, <1>4, ScopeKept
<1> QED
  BY <1>5, <1>6, <1>7 DEF StepKeeps

LEMMA NextKeeps ==
  ASSUME LedgerInv, LedgerNext
  PROVE  StepKeeps
<1>1. plan' = plan /\ LedgerStep /\ plan.issued \subseteq Recommendations
  BY LedgerAssumption DEF LedgerNext, LedgerInv, LedgerTypeOK
<1>2. CASE \E r \in plan.issued : Issue(r)
  BY <1>1, <1>2, IssueKeeps
<1>3. CASE \E a \in Actors, r \in plan.issued : Look(a, r)
  BY <1>1, <1>3, LookKeeps
<1>4. CASE \E q \in Queues : Respond(q)
  BY <1>1, <1>4, RespondKeeps
<1>5. CASE \E a \in Recorders : RecordExecution(a)
  BY <1>1, <1>5, RecordKeeps
<1>6. CASE \/ \E q \in Queues : Defer(q) \/ Restart(q)
           \/ \E q \in Queues, r \in Recommendations : ClearDeferral(q, r)
           \/ \E a \in Actors : Abandon(a)
  BY <1>1, <1>6, MemoryKeeps
<1> QED
  BY <1>1, <1>2, <1>3, <1>4, <1>5, <1>6 DEF LedgerStep

-----------------------------------------------------------------------------
(* The inductive invariant.                                                *)

LEMMA InitInv == LedgerInit => LedgerInv
<1> SUFFICES ASSUME LedgerInit PROVE LedgerInv
  OBVIOUS
<1>1. /\ file = << >> /\ halfLine = FALSE /\ plan \in Plans
      /\ seen = [a \in Actors |-> None] /\ deferred = [q \in Queues |-> {}]
  BY DEF LedgerInit
<1>2. LedgerTypeOK
  <2>1. file \in Seq(Events)
    BY <1>1
  <2>2. seen \in [Actors -> Views \union {None}] /\ halfLine \in BOOLEAN
    BY <1>1
  <2>3. deferred \in [Queues -> SUBSET Recommendations]
    BY <1>1
  <2> QED
    BY <1>1, <2>1, <2>2, <2>3 DEF LedgerTypeOK
<1>3. Replay(file) = NoCases /\ 1..Len(file) = {}
  BY <1>1, ReplayOfNothing
<1>4. CasesFit(file, Replay(file)) /\ InOrder(file)
  BY <1>3 DEF CasesFit, InOrder, NoCases
<1>5. ViewsInScope /\ DeferralsInScope
  BY <1>1 DEF ViewsInScope, DeferralsInScope, Actors
<1> QED
  BY <1>2, <1>4, <1>5 DEF LedgerInv

LEMMA StepInv == LedgerInv /\ [LedgerNext]_ledgerVars => LedgerInv'
<1> SUFFICES ASSUME LedgerInv, [LedgerNext]_ledgerVars PROVE LedgerInv'
  OBVIOUS
<1>1. CASE LedgerNext
  <2>1. StepKeeps
    BY <1>1, NextKeeps
  <2>2. CASE file' = file
    <3>1. CasesFit(file, Replay(file)) /\ InOrder(file)
      BY DEF LedgerInv
    <3>2. CasesFit(file', Replay(file')) /\ InOrder(file')
      BY <2>2, <3>1, Zenon
    <3> QED
      BY <2>1, <3>2 DEF LedgerInv, StepKeeps
  <2>3. ASSUME NEW e \in Events, Admissible(Replay(file), e), file' = Append(file, e)
        PROVE  CasesFit(file', Replay(file')) /\ InOrder(file')
    <3>1. file \in Seq(Events) /\ CasesFit(file, Replay(file)) /\ InOrder(file)
      BY DEF LedgerInv, LedgerTypeOK
    <3>2. Replay(Append(file, e)) = ApplyEvent(Replay(file), e)
      BY <3>1, ReplayOfAppend
    <3>3. CasesFit(Append(file, e), ApplyEvent(Replay(file), e)) /\ InOrder(Append(file, e))
      BY <2>3, <3>1, FitKept
    <3>4. CasesFit(Append(file, e), Replay(Append(file, e))) /\ InOrder(Append(file, e))
      BY <3>2, <3>3, Zenon
    <3> QED
      BY <2>3, <3>4, Zenon
  <2> QED
    BY <2>1, <2>2, <2>3 DEF LedgerInv, StepKeeps, Extends
<1>2. CASE UNCHANGED ledgerVars
  <2>1. file' = file /\ halfLine' = halfLine /\ seen' = seen /\ deferred' = deferred /\ plan' = plan
    BY <1>2 DEF ledgerVars
  <2>2. CasesFit(file', Replay(file')) /\ InOrder(file')
    BY <2>1, Zenon DEF LedgerInv
  <2> QED
    BY <2>1, <2>2 DEF LedgerInv, LedgerTypeOK, ViewsInScope, DeferralsInScope
<1> QED
  BY <1>1, <1>2

\* In every reachable state the cases that a replay builds are sound and agree
\* with the file, event by event, and the events of a recommendation come in
\* the order of its life (ledger.py, _verify_handle and _apply_event).
THEOREM LedgerInvariant == LedgerSpec => []LedgerInv
BY InitInv, StepInv, PTL DEF LedgerSpec

-----------------------------------------------------------------------------
(* What the run checks.                                                    *)

\* The fields of a case are where its events are in the file.
LEMMA Fitting ==
  ASSUME LedgerInv, NEW i \in 1..Len(file)
  PROVE  /\ file \in Seq(Events) /\ file[i] \in Events /\ file[i].rec \in Recommendations
         /\ CaseSound(file[i].rec, Replay(file)[file[i].rec])
         /\ Holds(Replay(file)[file[i].rec], file[i])
         /\ \A event \in Fields(Replay(file)[file[i].rec]) : \E j \in 1..Len(file) : file[j] = event
<1>1. file \in Seq(Events) /\ file[i] \in Events
  BY DEF LedgerInv, LedgerTypeOK
<1>2. file[i].rec \in Recommendations
  BY <1>1, EventFacts
<1> QED
  BY <1>1, <1>2 DEF LedgerInv, CasesFit

LEMMA OneStoryHolds == ASSUME LedgerInv PROVE OneStory
<1>1. file \in Seq(Events) /\ DOMAIN file = 1..Len(file) /\ Len(file) \in Nat
  BY DEF LedgerInv, LedgerTypeOK
<1> SUFFICES ASSUME NEW i \in 1..Len(file), NEW j \in 1..Len(file), file[i].rec = file[j].rec
             PROVE  /\ file[i].type = file[j].type => i = j
                    /\ i < j => file[i].at <= file[j].at
                    /\ file[i].type = "recommendation_response"
                         /\ file[j].type \notin {"recommendation_issued", "recommendation_response"} =>
                           /\ i < j
                           /\ file[j].effective.modifiedAt =
                                (IF file[i].kind = "modify" THEN file[i].at ELSE None)
  BY <1>1 DEF OneStory
<1> DEFINE r == file[i].rec
           c == Replay(file)[r]
<1>2. /\ file[i] \in Events /\ file[j] \in Events /\ r \in Recommendations
      /\ CaseSound(r, c) /\ Holds(c, file[i]) /\ Holds(c, file[j])
  BY Fitting
<1>3. i < j => Place(file[i]) < Place(file[j]) /\ file[i].at <= file[j].at
  BY DEF LedgerInv, InOrder
<1>4. j < i => Place(file[j]) < Place(file[i])
  BY DEF LedgerInv, InOrder
<1>5. Place(file[i]) \in Nat /\ Place(file[j]) \in Nat
  BY <1>2, PlaceFacts
<1> HIDE DEF r, c
<1>6. ASSUME file[i].type = file[j].type PROVE i = j
  <2>1. Place(file[i]) = Place(file[j])
    BY <1>2, <1>6, EventFacts, PlaceFacts DEF Events
  <2> QED
    BY <1>1, <1>3, <1>4, <1>5, <2>1
<1>7. ASSUME file[i].type = "recommendation_response",
             file[j].type \notin {"recommendation_issued", "recommendation_response"}
      PROVE  /\ i < j
             /\ file[j].effective.modifiedAt = (IF file[i].kind = "modify" THEN file[i].at ELSE None)
  <2>1. file[i] \in Responses /\ file[i] = c.response /\ c.response # None
    BY <1>2, <1>7, EventFacts DEF Holds
  <2>2. file[j] \in Requests \union Acknowledgements \union Outcomes
    BY <1>2, <1>7, EventFacts DEF Events
  <2>3. Place(file[i]) = 1 /\ Place(file[j]) > 1 /\ i # j
    BY <1>2, <1>5, <2>1, <2>2, PlaceFacts
  <2>4. i < j
    BY <1>1, <1>4, <1>5, <2>3
  <2>5. file[j].effective = Effective(r, c)
    BY <1>2, <2>2, EventFacts DEF Holds, CaseSound
  <2>6. Effective(r, c).modifiedAt = IF c.response.kind = "modify" THEN c.response.at ELSE None
    BY <2>1 DEF Effective
  <2> QED
    BY <2>1, <2>4, <2>5, <2>6
<1> QED
  BY <1>3, <1>6, <1>7

LEMMA ExecutedHolds == ASSUME LedgerInv PROVE ExecutedWasAcknowledged
<1>1. file \in Seq(Events) /\ DOMAIN file = 1..Len(file) /\ Len(file) \in Nat
  BY DEF LedgerInv, LedgerTypeOK
<1> SUFFICES ASSUME NEW i \in DOMAIN file, file[i].type = "recommendation_outcome", file[i].start # None
             PROVE  WasAcknowledged(i)
  BY DEF ExecutedWasAcknowledged
<1>i. i \in 1..Len(file)
  BY <1>1
<1> DEFINE r == file[i].rec
           story == Replay(file)[r]
<1>2. /\ file[i] \in Events /\ r \in Recommendations
      /\ CaseSound(r, story) /\ Holds(story, file[i])
      /\ \A event \in Fields(story) : \E j \in 1..Len(file) : file[j] = event
  BY <1>i, Fitting
<1>3. \A j, k \in 1..Len(file) : j < k /\ file[j].rec = file[k].rec => Place(file[j]) < Place(file[k])
  BY DEF LedgerInv, InOrder
<1> HIDE DEF r, story
<1>4. file[i] \in Outcomes /\ file[i] = story.outcome /\ story.outcome # None /\ story.outcome.start # None
  BY <1>2, EventFacts DEF Holds
<1>5. /\ story.acknowledgement # None /\ story.request # None /\ story.response # None
      /\ story.response.kind # "reject" /\ story.acknowledgement.request = story.request
      /\ file[i].start >= story.acknowledgement.at
      /\ About(r, story.response) /\ About(r, story.request) /\ About(r, story.acknowledgement) /\ About(r, file[i])
  BY <1>4, <1>2 DEF CaseSound
<1>6. /\ story.response \in Responses /\ story.request \in Requests
      /\ story.acknowledgement \in Acknowledgements
  BY <1>2, <1>5, CaseFacts DEF CaseSound
<1>7. story.response \in Fields(story) /\ story.request \in Fields(story) /\ story.acknowledgement \in Fields(story)
  BY <1>5 DEF Fields
<1>8. PICK a \in 1..Len(file) : file[a] = story.response
  BY <1>2, <1>7
<1>9. PICK b \in 1..Len(file) : file[b] = story.request
  BY <1>2, <1>7
<1>10. PICK c \in 1..Len(file) : file[c] = story.acknowledgement
  BY <1>2, <1>7
<1>11. Place(file[a]) = 1 /\ Place(file[b]) = 2 /\ Place(file[c]) = 3 /\ Place(file[i]) = 4
  BY <1>2, <1>4, <1>6, <1>8, <1>9, <1>10, PlaceFacts DEF Events
<1>12. file[a].rec = r /\ file[b].rec = r /\ file[c].rec = r /\ file[i].rec = r
  BY <1>5, <1>8, <1>9, <1>10 DEF About
<1>13. a < b /\ b < c /\ c < i
  <2>1. ~(b < a) /\ ~(c < b) /\ ~(i < c)
    BY <1>i, <1>3, <1>11, <1>12
  <2>2. a # b /\ b # c /\ c # i
    BY <1>11
  <2> QED
    BY <1>i, <1>1, <2>1, <2>2
<1>14. a \in 1..(i - 1) /\ b \in 1..(i - 1) /\ c \in 1..(i - 1)
  BY <1>i, <1>1, <1>13
<1>15. /\ file[a].type = "recommendation_response" /\ file[b].type = "execution_requested"
       /\ file[c].type = "execution_acknowledged"
  BY <1>6, <1>8, <1>9, <1>10 DEF Responses, Requests, Acknowledgements
<1>16. {file[k].site : k \in {a, b, c, i}} = {SiteOf[r]}
  <2>1. file[a].site = SiteOf[r] /\ file[b].site = SiteOf[r] /\ file[c].site = SiteOf[r] /\ file[i].site = SiteOf[r]
    BY <1>5, <1>8, <1>9, <1>10 DEF About
  <2> QED
    BY <2>1
<1>17. /\ file[a].kind # "reject" /\ file[c].request = file[b] /\ file[i].start >= file[c].at
  BY <1>5, <1>8, <1>9, <1>10
<1> QED
  BY <1>12, <1>13, <1>14, <1>15, <1>16, <1>17 DEF WasAcknowledged

\* The ledger can be believed: one story of each recommendation, nothing
\* executed that was not acknowledged, deferrals of the queue's own site
\* (ledger.py, _apply_event; workflow.py, RecommendationCase; queue.py).
THEOREM LedgerSoundness == LedgerSpec => []LedgerIsSound
<1>1. LedgerInv => LedgerIsSound
  BY OneStoryHolds, ExecutedHolds DEF LedgerInv, LedgerIsSound
<1> QED
  BY <1>1, LedgerInvariant, PTL

\* No reader takes a file that ends with half a line for whole, so no append
\* writes behind it (ledger.py, _read_hash_chain).
THEOREM WholeLinesOnly == LedgerSpec => NothingBehindHalfALine
<1>1. LedgerInv /\ [LedgerNext]_ledgerVars => [AppendsToWholeLines]_ledgerVars
  <2> SUFFICES ASSUME LedgerInv, LedgerNext, halfLine PROVE halfLine' /\ file' = file
    BY DEF AppendsToWholeLines
  <2>1. ~Readable /\ ~Writable
    BY DEF Readable, Writable
  <2>2. file' = file /\ halfLine' = halfLine
    <3>1. \A r \in plan.issued : ~Issue(r)
      BY <2>1 DEF Issue
    <3>2. \A q \in Queues : ~Respond(q)
      BY <2>1 DEF Respond
    <3>3. \A a \in Recorders : ~RecordExecution(a)
      BY <2>1 DEF RecordExecution
    <3>4. \A a \in Actors, r \in plan.issued : ~Look(a, r)
      BY <2>1 DEF Look
    <3>5. \/ \E q \in Queues : Defer(q) \/ Restart(q)
          \/ \E q \in Queues, r \in Recommendations : ClearDeferral(q, r)
          \/ \E a \in Actors : Abandon(a)
      BY <3>1, <3>2, <3>3, <3>4, Zenon DEF LedgerNext, LedgerStep
    <3> QED
      BY <3>5, Zenon DEF Defer, Restart, ClearDeferral, Abandon
  <2> QED
    BY <2>2
<1> QED
  BY <1>1, LedgerInvariant, PTL DEF LedgerSpec, NothingBehindHalfALine

-----------------------------------------------------------------------------
(* The life of a case, as CaseLifecycle has it.                            *)

LEMMA StatusFacts ==
  ASSUME NEW c \in Cases
  PROVE  /\ c.outcome # None => Status(c) = "outcome_recorded"
         /\ c.outcome = None /\ c.acknowledgement # None => Status(c) = "execution_acknowledged"
         /\ c.outcome = None /\ c.acknowledgement = None /\ c.request # None => Status(c) = "execution_requested"
         /\ c.outcome = None /\ c.acknowledgement = None /\ c.request = None /\ c.response = None =>
              Status(c) = "pending"
         /\ c.outcome = None /\ c.acknowledgement = None /\ c.request = None /\ c.response # None =>
              /\ c.response.kind \in {"accept", "reject", "modify"}
              /\ c.response.kind = "accept" => Status(c) = "accepted"
              /\ c.response.kind = "reject" => Status(c) = "rejected"
              /\ c.response.kind = "modify" => Status(c) = "modified"
<1>1. c # None /\ c.response \in Responses \union {None}
  BY CaseFacts
<1>2. Status(c) = IF c.outcome # None THEN "outcome_recorded"
                  ELSE IF c.acknowledgement # None THEN "execution_acknowledged"
                  ELSE IF c.request # None THEN "execution_requested"
                  ELSE IF c.response = None THEN "pending"
                  ELSE [accept |-> "accepted", reject |-> "rejected", modify |-> "modified"][c.response.kind]
  BY <1>1 DEF Status
<1>3. c.response # None => c.response.kind \in {"accept", "reject", "modify"}
  BY <1>1 DEF Responses
<1> QED
  BY <1>2, <1>3

\* What an admissible event does to the status of its case.
Advances(from, to) ==
    \/ from = "none" /\ to = "pending"
    \/ from = "pending" /\ to \in Lifecycle!Answers
    \/ from \in {"accepted", "modified"} /\ to = "execution_requested"
    \/ from = "execution_requested" /\ to = "execution_acknowledged"
    \/ from \in Lifecycle!Open /\ to = "outcome_recorded"

LEMMA CaseAdvances ==
  ASSUME NEW cases \in [Recommendations -> Cases \union {None}], NEW e \in Events, Admissible(cases, e),
         cases[e.rec] # None => CaseSound(e.rec, cases[e.rec])
  PROVE  Advances(Status(cases[e.rec]), Status(Changed(cases[e.rec], e)))
<1> DEFINE c == cases[e.rec]
           d == Changed(c, e)
<1>1. e.rec \in Recommendations /\ c \in Cases \union {None} /\ e # None
  BY EventFacts
<1>2. d \in Cases
  BY CaseGrows DEF Grows, CaseSound
<1>3. CASE e \in Issuances
  <2>1. c = None /\ d = NewCase(e)
    BY <1>1, <1>3, AdmissibleFacts, ChangedFacts
  <2>2. Status(c) = "none"
    BY <2>1 DEF Status
  <2>3. d.response = None /\ d.request = None /\ d.acknowledgement = None /\ d.outcome = None
    BY <2>1 DEF NewCase
  <2>4. Status(d) = "pending"
    BY <1>2, <2>3, StatusFacts
  <2> QED
    BY <2>2, <2>4 DEF Advances
<1>4. CASE e \notin Issuances
  <2>1. c # None /\ c \in Cases /\ CaseSound(e.rec, c) /\ May(c, e)
    BY <1>1, <1>4, AdmissibleFacts
  <2>2. CASE e \in Responses
    <3>1. c.response = None /\ c.request = None /\ c.acknowledgement = None /\ c.outcome = None
      BY <2>1, <2>2 DEF May, MayRespond, CaseSound
    <3>2. d = [c EXCEPT !.response = e]
      BY <1>1, <2>2, ChangedFacts
    <3>3. d.response = e /\ d.request = None /\ d.acknowledgement = None /\ d.outcome = None
      BY <2>1, <3>1, <3>2 DEF Cases
    <3>4. Status(c) = "pending"
      BY <2>1, <3>1, StatusFacts
    <3>5. Status(d) \in {"accepted", "rejected", "modified"}
      BY <1>1, <1>2, <3>3, StatusFacts
    <3> QED
      BY <3>4, <3>5 DEF Advances, Lifecycle!Answers
  <2>3. CASE e \in Requests
    <3>1. /\ c.response # None /\ c.response.kind # "reject"
          /\ c.request = None /\ c.acknowledgement = None /\ c.outcome = None
      BY <2>1, <2>3 DEF May, MayRequest, CaseSound
    <3>2. d = [c EXCEPT !.request = e]
      BY <1>1, <2>3, ChangedFacts
    <3>3. d.request = e /\ d.acknowledgement = None /\ d.outcome = None
      BY <2>1, <3>1, <3>2 DEF Cases
    <3>4. Status(c) \in {"accepted", "modified"}
      BY <2>1, <3>1, StatusFacts
    <3>5. Status(d) = "execution_requested"
      BY <1>1, <1>2, <3>3, StatusFacts
    <3> QED
      BY <3>4, <3>5 DEF Advances
  <2>4. CASE e \in Acknowledgements
    <3>1. c.request # None /\ c.acknowledgement = None /\ c.outcome = None
      BY <2>1, <2>4 DEF May, MayAcknowledge
    <3>2. d = [c EXCEPT !.acknowledgement = e]
      BY <1>1, <2>4, ChangedFacts
    <3>3. d.acknowledgement = e /\ d.outcome = None
      BY <2>1, <3>1, <3>2 DEF Cases
    <3>4. Status(c) = "execution_requested"
      BY <2>1, <3>1, StatusFacts
    <3>5. Status(d) = "execution_acknowledged"
      BY <1>1, <1>2, <3>3, StatusFacts
    <3> QED
      BY <3>4, <3>5 DEF Advances
  <2>5. CASE e \in Outcomes
    <3>1. c.response # None /\ c.outcome = None
      BY <2>1, <2>5 DEF May, MayConclude
    <3>2. d = [c EXCEPT !.outcome = e]
      BY <1>1, <2>5, ChangedFacts
    <3>3. d.outcome = e
      BY <2>1, <3>2 DEF Cases
    <3>4. Status(c) \in {"accepted", "rejected", "modified", "execution_requested", "execution_acknowledged"}
      BY <2>1, <3>1, StatusFacts
    <3>5. Status(d) = "outcome_recorded"
      BY <1>1, <1>2, <3>3, StatusFacts
    <3> QED
      BY <3>4, <3>5 DEF Advances, Lifecycle!Open, Lifecycle!Answers
  <2> QED
    BY <1>4, <2>2, <2>3, <2>4, <2>5 DEF Events
<1> QED
  BY <1>3, <1>4

\* Whoever appends, from whatever was seen, every step of the ledger is one that
\* CaseLifecycle allows, or one it does not see (workflow.py, CaseStatus).
THEOREM LifecycleHolds == LedgerSpec => LifecycleKept
<1>1. LedgerInit => Lifecycle!Init
  <2> SUFFICES ASSUME LedgerInit PROVE Lifecycle!Init
    OBVIOUS
  <2>1. Replay(file) = NoCases
    BY ReplayOfNothing DEF LedgerInit
  <2>2. \A r \in Recommendations : Status(Replay(file)[r]) = "none"
    BY <2>1 DEF NoCases, Status
  <2> QED
    BY <2>2 DEF Lifecycle!Init, statusOf
<1>2. LedgerInv /\ [LedgerNext]_ledgerVars => [Lifecycle!Next]_statusOf
  <2> SUFFICES ASSUME LedgerInv, [LedgerNext]_ledgerVars PROVE [Lifecycle!Next]_statusOf
    OBVIOUS
  <2>1. CASE file' = file
    <3>1. statusOf' = statusOf
      BY <2>1 DEF statusOf
    <3> QED
      BY <3>1
  <2>2. ASSUME NEW e \in Events, Admissible(Replay(file), e), file' = Append(file, e)
        PROVE  Lifecycle!Next
    <3> DEFINE cases == Replay(file)
               r == e.rec
               d == Changed(cases[r], e)
    <3>1. /\ file \in Seq(Events) /\ cases \in [Recommendations -> Cases \union {None}]
          /\ r \in Recommendations /\ (cases[r] # None => CaseSound(r, cases[r]))
      BY EventFacts DEF LedgerInv, LedgerTypeOK, CasesFit
    <3>2. Replay(file') = ApplyEvent(cases, e)
      BY <2>2, <3>1, ReplayOfAppend
    <3>3. Replay(file')[r] = d /\ \A s \in Recommendations : s # r => Replay(file')[s] = cases[s]
      BY <3>1, <3>2, ApplyFacts
    <3>4. Advances(Status(cases[r]), Status(d))
      BY <2>2, <3>1, CaseAdvances
    <3> HIDE DEF cases, r, d
    <3>5. statusOf = [s \in Recommendations |-> Status(cases[s])]
      BY DEF statusOf, cases
    <3>6. statusOf' = [s \in Recommendations |-> Status(Replay(file')[s])]
      BY DEF statusOf
    <3>7. statusOf[r] = Status(cases[r]) /\ statusOf' = [statusOf EXCEPT ![r] = Status(d)]
      BY <3>1, <3>3, <3>5, <3>6
    <3>8. Status(d) # Status(cases[r]) /\ statusOf'[r] = Status(d)
      BY <3>1, <3>4, <3>5, <3>7 DEF Advances, Lifecycle!Answers, Lifecycle!Open
    <3> QED
      BY <3>1, <3>4, <3>7, <3>8 DEF Advances, Lifecycle!Next, Lifecycle!Move
  <2>3. LedgerNext => Extends
    BY NextKeeps DEF StepKeeps
  <2>4. UNCHANGED ledgerVars => file' = file
    BY DEF ledgerVars
  <2> QED
    BY <2>1, <2>2, <2>3, <2>4 DEF Extends
<1> QED
  BY <1>1, <1>2, LedgerInvariant, PTL DEF LedgerSpec, LifecycleKept, Lifecycle!Spec
=============================================================================
