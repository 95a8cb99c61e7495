------------------------ MODULE Interventions_proofs ------------------------
(***************************************************************************)
(* Proofs about Interventions, for any tasks, robots and reasons, any      *)
(* moves of the Edge and any budget: the cases are what the evidence and   *)
(* the humans made of them, calls are accounted for, and a resolved case   *)
(* stays as it was resolved.                                               *)
(***************************************************************************)
EXTENDS Interventions, WellFoundedInduction, FiniteSetTheorems, TLAPS

-----------------------------------------------------------------------------
(* Evidence.                                                               *)

\* What the evidence of a kind looks like (cases.py, observe).
Shaped(kind, subject, key) ==
  /\ key \in Key
  /\ kind # "DEVICE_UNREACHABLE" /\ kind # "EVIDENCE_CONFLICT" => subject \in Tasks
  /\ kind = "ASSISTANCE_REQUIRED" => key.with = {}
  /\ kind = "RESULT_UNCONFIRMED" => key.at = 0 /\ key.with \in {{"expired"}, {"exhausted"}}
  /\ kind = "EVIDENCE_CONFLICT" /\ subject \in Robots => key.at = 0 /\ key.with = {}
  /\ kind = "DEVICE_UNREACHABLE" =>
       /\ subject \in Robots
       /\ key.with = {} \/ \E t \in Tasks : key.with = {t} /\ RobotOf[t] = subject

\* Evidence k2 is not older than evidence k1 of the same subject.
NotAfter(kind, k1, k2) ==
  /\ k1.at <= k2.at
  /\ kind = "EVIDENCE_CONFLICT" => k1.with \subseteq k2.with
  /\ kind = "RESULT_UNCONFIRMED" /\ "exhausted" \in k1.with => "exhausted" \in k2.with

\* The Edge has come as far as this evidence.
Reached(s, kind, subject, key) ==
  /\ kind = "ASSISTANCE_REQUIRED" => key.at <= s.task[subject].blocks
  /\ kind = "RESULT_UNCONFIRMED" /\ "exhausted" \in key.with => s.task[subject].publish = "exhausted"
  /\ kind = "EVIDENCE_CONFLICT" /\ subject \in Tasks =>
       key.at <= EffectiveRank(s, subject) /\ key.with \subseteq s.task[subject].reasons
  /\ kind = "DEVICE_UNREACHABLE" =>
       /\ key.at <= s.device[subject].episode
       /\ \A t \in key.with : s.task[t].state # "none"

EdgeInv(s) ==
  /\ s \in [task : [Tasks -> TaskSummary], device : [Robots -> DeviceSummary]]
  /\ \A t \in Tasks : s.task[t].state = "blocked" => s.task[t].block = s.task[t].blocks
  /\ \A t, u \in Tasks : RobotOf[t] = RobotOf[u] /\ TaskOpen(s, t) /\ TaskOpen(s, u) => t = u

-----------------------------------------------------------------------------
(* Cases.  A list of cases is called cs or ds here: what the journal has   *)
(* made of the view, or will have.                                         *)

SameSubject(c, d) == c.kind = d.kind /\ c.subject = d.subject

Reminders(c) == {k \in DOMAIN c.notes : c.notes[k].intent = "REMINDER"}

\* A case and its notifications: they are numbered as they stand, the first one
\* says that the case was opened, and one that was not written yet is the next.
CaseSound(c) ==
  /\ c \in CaseView
  /\ \A k \in DOMAIN c.notes :
       /\ c.notes[k].ordinal = k - 1
       /\ c.notes[k].intent = "OPENED" <=> k = 1
  /\ \A k, l \in DOMAIN c.notes : c.notes[k].intent = "ESCALATION" /\ c.notes[l].intent = "ESCALATION" => k = l
  /\ c.notes # <<>> /\ c.notes[1].severity = "CRITICAL" => c.severity = "CRITICAL"
  /\ \/ /\ c.pending = {} /\ c.notes # <<>>
        /\ (c.severity = c.notes[1].severity) <=> \A k \in DOMAIN c.notes : c.notes[k].intent # "ESCALATION"
     \/ c.pending = {NewNote("OPENED", 0, c.severity)} /\ c.notes = <<>>
     \/ /\ c.pending = {NewNote("ESCALATION", Len(c.notes), c.severity)}
        /\ c.notes # <<>> /\ c.severity # c.notes[1].severity
        /\ \A k \in DOMAIN c.notes : c.notes[k].intent # "ESCALATION"
  /\ Cardinality(Reminders(c)) = c.reminders /\ c.reminders <= MaxReminders

\* The evidence of a case, and of a later one of the same subject, only ever advances.
EvidenceSound(s, cs) ==
  /\ \A i \in DOMAIN cs :
       LET c == cs[i] IN
       /\ Shaped(c.kind, c.subject, c.born) /\ Shaped(c.kind, c.subject, c.key)
       /\ NotAfter(c.kind, c.born, c.key)
       /\ Reached(s, c.kind, c.subject, c.born) /\ Reached(s, c.kind, c.subject, c.key)
  /\ \A i, j \in DOMAIN cs : i < j /\ SameSubject(cs[i], cs[j]) => NotAfter(cs[i].kind, cs[i].key, cs[j].born)

\* As long as a robot is lost with the task it was lost with, there is no other case of it.
Occupied(s, c) ==
  /\ c.kind = "DEVICE_UNREACHABLE" /\ c.born.at = s.device[c.subject].episode
  /\ \E t \in c.born.with : TaskOpen(s, t)
OccupiedSound(s, cs) ==
  \A i \in DOMAIN cs : Occupied(s, cs[i]) =>
    /\ cs[i].key = cs[i].born
    /\ \A j \in DOMAIN cs : SameSubject(cs[i], cs[j]) => j <= i

\* No case exists twice, and only the last one of a subject waits for a human.
OnceSound(cs) ==
  /\ \A i, j \in DOMAIN cs : IdOf(cs[i]) = IdOf(cs[j]) => i = j
  /\ \A i, j \in DOMAIN cs : i < j /\ SameSubject(cs[i], cs[j]) => cs[i].human = "RESOLVED"

Sound(s, cs) ==
  /\ cs \in Seq(CaseView)
  /\ \A i \in DOMAIN cs : CaseSound(cs[i])
  /\ EvidenceSound(s, cs) /\ OccupiedSound(s, cs) /\ OnceSound(cs)

-----------------------------------------------------------------------------
(* Numbers, lists and finite sets.  Induction takes the form of a least    *)
(* counterexample.                                                         *)

LEMMA LeastNatural ==
  ASSUME NEW T, T \subseteq Nat, T # {}
  PROVE  \E x \in T : \A y \in T : x <= y
<1>1. PICK x \in T : \A y \in T : ~ (<<y, x>> \in OpToRel(<, Nat))
  BY NatLessThanWellFounded, WFMin
<1>2. ASSUME NEW y \in T PROVE x <= y
  <2>1. x \in Nat /\ y \in Nat
    OBVIOUS
  <2>2. y < x => <<y, x>> \in OpToRel(<, Nat)
    BY <2>1 DEF OpToRel
  <2>3. ~ (<<y, x>> \in OpToRel(<, Nat))
    BY <1>1
  <2>4. ~ (y < x)
    BY <2>2, <2>3
  <2> QED
    BY <2>1, <2>4
<1> QED
  BY <1>2

LEMMA LeastSubset ==
  ASSUME NEW Q, Q # {}, \A T \in Q : IsFiniteSet(T)
  PROVE  \E T \in Q : \A x \in T : T \ {x} \notin Q
<1> DEFINE Sizes == {Cardinality(T) : T \in Q}
<1>1. Sizes \subseteq Nat /\ Sizes # {}
  BY FS_CardinalityType
<1>2. PICK n \in Sizes : \A m \in Sizes : n <= m
  <2> HIDE DEF Sizes
  <2> QED
    BY <1>1, LeastNatural
<1>3. PICK T \in Q : n = Cardinality(T)
  OBVIOUS
<1>4. ASSUME NEW x \in T, T \ {x} \in Q PROVE FALSE
  <2>1. Cardinality(T \ {x}) = n - 1
    BY <1>3, FS_RemoveElement
  <2>2. n <= n - 1
    BY <1>2, <1>4, <2>1
  <2> QED
    BY <1>1, <2>2
<1> QED
  BY <1>3, <1>4

\* Steps from a to b reach every number in between.
LEMMA Climb ==
  ASSUME NEW n \in Nat, NEW T, 0 \in T, \A k \in 1 .. n : k - 1 \in T => k \in T
  PROVE  n \in T
<1> DEFINE Bad == {k \in 0 .. n : k \notin T}
<1>1. SUFFICES ASSUME Bad # {} PROVE FALSE
  OBVIOUS
<1>2. PICK k \in Bad : \A m \in Bad : k <= m
  <2>1. Bad \subseteq Nat
    OBVIOUS
  <2> HIDE DEF Bad
  <2> QED
    BY <1>1, <2>1, LeastNatural
<1>3. k \in 0 .. n /\ k # 0
  OBVIOUS
<1>4. k - 1 \in 0 .. n /\ ~ (k <= k - 1)
  BY <1>3
<1>5. k - 1 \notin Bad
  <2> HIDE DEF Bad
  <2> QED
    BY <1>2, <1>4
<1>6. k - 1 \in T /\ k \in 1 .. n
  BY <1>3, <1>4, <1>5
<1> QED
  BY <1>6

LEMMA MaximumExists ==
  ASSUME NEW n \in Nat, NEW T, T \subseteq 1 .. n, T # {}
  PROVE  Max(T) \in T /\ \A x \in T : x <= Max(T)
<1> DEFINE Above == {m \in 0 .. n : \A x \in T : x <= m}
<1>1. n \in Above
  OBVIOUS
<1>2. PICK m \in Above : \A k \in Above : m <= k
  <2>1. Above \subseteq Nat /\ Above # {}
    BY <1>1
  <2> HIDE DEF Above
  <2> QED
    BY <2>1, LeastNatural
<1>3. m \in T
  <2>1. SUFFICES ASSUME m \notin T PROVE FALSE
    OBVIOUS
  <2>2. m # 0
    <3>1. PICK x \in T : TRUE
      OBVIOUS
    <3>2. x \in 1 .. n /\ x <= m
      BY <3>1
    <3> QED
      BY <3>2
  <2>3. \A x \in T : x <= m - 1
    BY <2>1, <2>2
  <2>4. m - 1 \in Above
    BY <2>2, <2>3
  <2> HIDE DEF Above
  <2>5. m <= m - 1
    BY <1>2, <2>4
  <2>6. m \in Nat
    BY <1>2 DEF Above
  <2> QED
    BY <2>5, <2>6
<1>4. \A x \in T : m >= x
  OBVIOUS
<1>5. \E x \in T : \A y \in T : x >= y
  BY <1>3, <1>4
<1>6. Max(T) \in T /\ \A y \in T : Max(T) >= y
  BY <1>5 DEF Max
<1> QED
  BY <1>6

LEMMA MinimumOfOne == ASSUME NEW i \in Nat PROVE Min({i}) = i
<1>1. \E x \in {i} : \A y \in {i} : x =< y
  OBVIOUS
<1>2. Min({i}) \in {i}
  BY <1>1 DEF Min
<1> QED
  BY <1>2

\* Some element of a nonempty set, and the list made of it.
Some(T) == CHOOSE x \in T : TRUE
Next1(g, T) == IF T = {} THEN <<>> ELSE Append(g[T \ {Some(T)}], Some(T))
Lists(g, D) == g = [T \in D |-> Next1(g, T)]

LEMMA SomeIsMember == ASSUME NEW T, T # {} PROVE Some(T) \in T
BY DEF Some

LEMMA ListedIsChosen == ASSUME NEW S PROVE Listed(S) = (CHOOSE g : Lists(g, SUBSET S))[S]
BY DEF Listed, FoldSet, MapThenFoldSet, Lists, Next1, Some

LEMMA ListsExist ==
  ASSUME NEW S, IsFiniteSet(S)
  PROVE  \E g : Lists(g, SUBSET S)
<1> DEFINE Small(n) == {T \in SUBSET S : Cardinality(T) <= n}
           Good == {n \in Nat : \E g : Lists(g, Small(n))}
<1>1. ASSUME NEW T \in SUBSET S PROVE IsFiniteSet(T) /\ Cardinality(T) \in Nat /\ Cardinality(T) <= Cardinality(S)
  BY FS_Subset, FS_CardinalityType
<1>2. Cardinality(S) \in Nat
  BY FS_CardinalityType
<1>3. Small(Cardinality(S)) = SUBSET S
  BY <1>1
<1>4. 0 \in Good
  <2>1. ASSUME NEW T \in Small(0) PROVE T = {}
    <3>1. Cardinality(T) = 0
      BY <1>1
    <3> QED
      BY <1>1, <3>1, FS_EmptySet
  <2> DEFINE g == [T \in Small(0) |-> <<>>]
  <2>2. Lists(g, Small(0))
    BY <2>1 DEF Lists, Next1
  <2> QED
    BY <2>2
<1>5. ASSUME NEW n \in 1 .. Cardinality(S), n - 1 \in Good PROVE n \in Good
  <2>0. n \in Nat /\ n - 1 \in Nat
    BY <1>2
  <2>1. PICK g : Lists(g, Small(n - 1))
    BY <1>5
  <2> DEFINE h == [T \in Small(n) |-> Next1(g, T)]
  <2>2. ASSUME NEW T \in Small(n), T # {}
        PROVE  T \ {Some(T)} \in Small(n) /\ T \ {Some(T)} \in Small(n - 1)
    <3>1. Some(T) \in T
      BY <2>2, SomeIsMember
    <3>2. Cardinality(T \ {Some(T)}) = Cardinality(T) - 1
      BY <1>1, <3>1, FS_RemoveElement
    <3>3. Cardinality(T) \in Nat /\ Cardinality(T) <= n
      BY <1>1
    <3>4. Cardinality(T) - 1 <= n - 1 /\ Cardinality(T) - 1 <= n
      BY <2>0, <3>3
    <3> QED
      BY <3>2, <3>4
  <2>3. \A T \in Small(n - 1) : g[T] = Next1(g, T)
    <3> HIDE DEF Small
    <3> QED
      BY <2>1 DEF Lists
  <2>4. ASSUME NEW T \in Small(n), T # {} PROVE h[T \ {Some(T)}] = g[T \ {Some(T)}]
    <3> DEFINE U == T \ {Some(T)}
    <3>1. U \in Small(n) /\ U \in Small(n - 1)
      BY <2>2, <2>4
    <3> HIDE DEF U, Small
    <3>2. h[U] = Next1(g, U) /\ g[U] = Next1(g, U)
      BY <3>1, <2>3
    <3>3. h[U] = g[U]
      BY <3>2
    <3> QED
      BY <3>3 DEF U
  <2>5. \A T \in Small(n) : Next1(h, T) = Next1(g, T)
    <3> HIDE DEF Small, h
    <3> QED
      BY <2>4 DEF Next1
  <2>6. Lists(h, Small(n))
    <3> HIDE DEF Small
    <3> DEFINE k == [T \in Small(n) |-> Next1(h, T)]
    <3>1. h = k
      <4>1. \A T \in Small(n) : k[T] = h[T]
        BY <2>5
      <4> QED
        BY <4>1
    <3> HIDE DEF h
    <3> QED
      BY <3>1 DEF Lists
  <2> QED
    BY <2>0, <2>6
<1>6. Cardinality(S) \in Good
  <2> HIDE DEF Good
  <2> QED
    BY <1>2, <1>4, <1>5, Climb
<1> QED
  BY <1>3, <1>6

\* A finite set as a list: every element once.
ListOf(q, T) ==
  /\ q \in Seq(T)
  /\ \A x \in T : \E k \in 1 .. Len(q) : q[k] = x
  /\ \A k, l \in 1 .. Len(q) : q[k] = q[l] => k = l

LEMMA ListGrows ==
  ASSUME NEW T, NEW x \in T, NEW q, ListOf(q, T \ {x})
  PROVE  ListOf(Append(q, x), T)
<1> DEFINE p == Append(q, x)
<1>1. /\ q \in Seq(T \ {x}) /\ Len(q) \in Nat
      /\ \A y \in T \ {x} : \E k \in 1 .. Len(q) : q[k] = y
      /\ \A k, l \in 1 .. Len(q) : q[k] = q[l] => k = l
      /\ \A k \in 1 .. Len(q) : q[k] # x
  BY DEF ListOf
<1>2. p \in Seq(T) /\ Len(p) = Len(q) + 1 /\ p[Len(q) + 1] = x /\ \A k \in 1 .. Len(q) : p[k] = q[k]
  BY <1>1
<1> HIDE DEF p
<1>3. \A y \in T : \E k \in 1 .. Len(p) : p[k] = y
  <2> SUFFICES ASSUME NEW y \in T PROVE \E k \in 1 .. Len(p) : p[k] = y
    OBVIOUS
  <2>1. CASE y = x
    <3>1. Len(q) + 1 \in 1 .. Len(p) /\ p[Len(q) + 1] = y
      BY <1>1, <1>2, <2>1
    <3> QED
      BY <3>1
  <2>2. CASE y # x
    <3>1. PICK k \in 1 .. Len(q) : q[k] = y
      BY <1>1, <2>2
    <3>2. k \in 1 .. Len(p) /\ p[k] = y
      BY <1>1, <1>2, <3>1
    <3> QED
      BY <3>2
  <2> QED
    BY <2>1, <2>2
<1>4. \A k, l \in 1 .. Len(p) : p[k] = p[l] => k = l
  <2> SUFFICES ASSUME NEW k \in 1 .. Len(p), NEW l \in 1 .. Len(p), p[k] = p[l] PROVE k = l
    OBVIOUS
  <2>1. k = Len(q) + 1 \/ k \in 1 .. Len(q)
    BY <1>1, <1>2
  <2>2. l = Len(q) + 1 \/ l \in 1 .. Len(q)
    BY <1>1, <1>2
  <2> QED
    BY <1>1, <1>2, <2>1, <2>2
<1> QED
  BY <1>2, <1>3, <1>4 DEF ListOf, p

LEMMA ListedFacts ==
  ASSUME NEW S, IsFiniteSet(S)
  PROVE  ListOf(Listed(S), S)
<1>1. PICK g : g = (CHOOSE f : Lists(f, SUBSET S)) /\ Lists(g, SUBSET S)
  BY ListsExist
<1>2. Listed(S) = g[S]
  BY <1>1, ListedIsChosen
<1> DEFINE Q == {T \in SUBSET S : ~ ListOf(g[T], T)}
<1>3. SUFFICES ASSUME Q # {} PROVE FALSE
  BY <1>2
<1>4. PICK T \in Q : \A x \in T : T \ {x} \notin Q
  <2>1. \A V \in Q : IsFiniteSet(V)
    BY FS_Subset
  <2> HIDE DEF Q
  <2> QED
    BY <1>3, <2>1, LeastSubset
<1>5. T \in SUBSET S /\ ~ ListOf(g[T], T)
  BY <1>4
<1>6. g[T] = Next1(g, T)
  BY <1>1, <1>5 DEF Lists
<1>7. T # {}
  <2>1. SUFFICES ASSUME T = {} PROVE FALSE
    OBVIOUS
  <2>2. g[T] = <<>>
    BY <1>6, <2>1 DEF Next1
  <2> QED
    BY <1>5, <2>1, <2>2 DEF ListOf
<1>8. Some(T) \in T
  BY <1>7, SomeIsMember
<1>9. ListOf(g[T \ {Some(T)}], T \ {Some(T)})
  BY <1>4, <1>5, <1>8
<1>10. g[T] = Append(g[T \ {Some(T)}], Some(T))
  BY <1>6, <1>7 DEF Next1
<1> HIDE DEF Q
<1> QED
  BY <1>5, <1>8, <1>9, <1>10, ListGrows

LEMMA ListOfOne ==
  ASSUME NEW x, NEW q, ListOf(q, {x})
  PROVE  q = <<x>>
<1>1. /\ q \in Seq({x})
      /\ \E k \in 1 .. Len(q) : q[k] = x
      /\ \A k, l \in 1 .. Len(q) : q[k] = q[l] => k = l
  BY DEF ListOf
<1>2. Len(q) \in Nat /\ \A k \in 1 .. Len(q) : q[k] = x
  BY <1>1
<1>3. Len(q) >= 1
  BY <1>1, <1>2
<1>4. ~ (Len(q) >= 2)
  <2>1. SUFFICES ASSUME Len(q) >= 2 PROVE FALSE
    OBVIOUS
  <2>2. 1 \in 1 .. Len(q) /\ 2 \in 1 .. Len(q)
    BY <1>2, <2>1
  <2>3. q[1] = q[2]
    BY <1>2, <2>2
  <2>4. \A k, l \in 1 .. Len(q) : q[k] = q[l] => k = l
    BY <1>1
  <2> QED
    BY <2>2, <2>3, <2>4
<1>5. Len(q) = 1
  <2>1. ASSUME NEW n \in Nat, n >= 1, ~ (n >= 2) PROVE n = 1
    BY <2>1
  <2> QED
    BY <1>2, <1>3, <1>4, <2>1
<1> QED
  BY <1>1, <1>2, <1>5

LEMMA ListedOne == ASSUME NEW x PROVE Listed({x}) = <<x>> /\ Listed({}) = <<>>
<1>1. ListOf(Listed({x}), {x}) /\ ListOf(Listed({}), {})
  BY ListedFacts, FS_Singleton, FS_EmptySet
<1>2. Listed({}) = <<>>
  <2> DEFINE q == Listed({})
  <2>1. q \in Seq({})
    BY <1>1 DEF ListOf
  <2> HIDE DEF q
  <2>2. q = <<>>
    BY <2>1
  <2> QED
    BY <2>2 DEF q
<1> QED
  BY <1>1, <1>2, ListOfOne

-----------------------------------------------------------------------------
(* Lines and what they make of a list of cases.                            *)

Lines ==
  [line : {"opened"}, kind : Kinds, subject : Subjects, severity : Severities, key : Key, recurs : Nat]
  \cup [line : {"intended"}, case : CaseId, note : Note]
  \cup [line : {"evidence_added", "condition_returned", "escalated"}, case : CaseId, severity : Severities, key : Key]
  \cup [line : {"condition_cleared", "reminders_exhausted", "acknowledged", "resolved"}, case : CaseId]
  \cup [line : {"attempted", "result", "exhausted"}, note : NoteId, value : Nat \cup NoteStates]

\* Apply, of any list of cases.
PlaceIn(cs, id) == CHOOSE i \in DOMAIN cs : IdOf(cs[i]) = id
NotePlaceIn(cs, nid) == CHOOSE k \in DOMAIN cs[PlaceIn(cs, nid.case)].notes :
                          NoteIdOf(nid.case, cs[PlaceIn(cs, nid.case)].notes[k]) = nid
After(cs, l) ==
  CASE l.line = "opened" -> Append(cs, CaseOf(l))
    [] l.line \in {"attempted", "result", "exhausted"} ->
         [cs EXCEPT ![PlaceIn(cs, l.note.case)].notes[NotePlaceIn(cs, l.note)] = WithDelivery(@, l)]
    [] OTHER -> [cs EXCEPT ![PlaceIn(cs, l.case)] = WithLine(@, l)]

LEMMA ApplyIsAfter == ASSUME NEW l PROVE Apply(l) <=> cases' = After(cases, l)
BY DEF Apply, After, Place, PlaceIn, NotePlace, NotePlaceIn

\* A notification in the middle of what can happen to it without a call.
NoteKept(n, m) ==
  /\ m.intent = n.intent /\ m.ordinal = n.ordinal /\ m.severity = n.severity /\ m.attempts = n.attempts
  /\ m.state = "DELIVERED" => n.state = "DELIVERED"

Unused(n) == n.attempts = 0 /\ n.state = "PENDING"

\* What ResolvedIsFinal says of one case.
FinalKept(old, new) ==
  /\ [new EXCEPT !.notes = old.notes, !.pending = old.pending] = old
  /\ Len(new.notes) = Len(old.notes) \/ (\E n \in old.pending : new.notes = Append(old.notes, n))

CaseGrows(c, d) ==
  /\ IdOf(d) = IdOf(c)
  /\ Len(c.notes) <= Len(d.notes)
  /\ \A k \in 1 .. Len(c.notes) : NoteKept(c.notes[k], d.notes[k])
  /\ \A k \in 1 .. Len(d.notes) : k > Len(c.notes) => Unused(d.notes[k])
  /\ c.human = "RESOLVED" => FinalKept(c, d)

Grows(cs, ds) ==
  /\ Len(cs) <= Len(ds)
  /\ \A i \in 1 .. Len(cs) : CaseGrows(cs[i], ds[i])
  /\ \A i \in 1 .. Len(ds) : i > Len(cs) => ds[i].notes = <<>>

Step(s, cs, l, ds) == Sound(s, cs) /\ Sound(s, ds) /\ ds = After(cs, l) /\ Grows(cs, ds)

\* The lines ls lead from cs to ds, one sound step after another.
Leads(s, cs, ls, ds) ==
  \E run \in Seq(Seq(CaseView)) :
    /\ Len(run) = Len(ls) + 1 /\ run[1] = cs /\ run[Len(run)] = ds
    /\ \A i \in 1 .. Len(ls) : Step(s, run[i], ls[i], run[i + 1])

LEMMA LeadsNowhere ==
  ASSUME NEW s, NEW cs \in Seq(CaseView), NEW ds
  PROVE  Leads(s, cs, <<>>, ds) <=> ds = cs
<1>1. Leads(s, cs, <<>>, cs)
  <2> DEFINE run == <<cs>>
  <2>1. run \in Seq(Seq(CaseView)) /\ Len(run) = 1 /\ run[1] = cs /\ Len(<<>>) = 0
    OBVIOUS
  <2> HIDE DEF run
  <2> QED
    BY <2>1 DEF Leads
<1>2. ASSUME Leads(s, cs, <<>>, ds) PROVE ds = cs
  BY <1>2 DEF Leads
<1> QED
  BY <1>1, <1>2

LEMMA LeadsOnce ==
  ASSUME NEW s, NEW cs, NEW ds, NEW l, Step(s, cs, l, ds)
  PROVE  Leads(s, cs, <<l>>, ds)
<1> DEFINE run == <<cs, ds>>
<1>1. cs \in Seq(CaseView) /\ ds \in Seq(CaseView)
  BY DEF Step, Sound
<1>2. run \in Seq(Seq(CaseView)) /\ Len(run) = 2 /\ run[1] = cs /\ run[2] = ds
  BY <1>1
<1>3. Len(<<l>>) = 1 /\ <<l>>[1] = l
  OBVIOUS
<1> HIDE DEF run
<1>4. \A i \in 1 .. Len(<<l>>) : i = 1 /\ i + 1 = 2
  BY <1>3
<1>5. \A i \in 1 .. Len(<<l>>) : Step(s, run[i], <<l>>[i], run[i + 1])
  BY <1>2, <1>3, <1>4
<1> QED
  BY <1>2, <1>3, <1>5 DEF Leads

LEMMA LeadsOn ==
  ASSUME NEW s, NEW cs, NEW ds, NEW es, NEW ks \in Seq(Lines), NEW ls \in Seq(Lines),
         Leads(s, cs, ks, ds), Leads(s, ds, ls, es)
  PROVE  Leads(s, cs, ks \o ls, es)
<1>1. PICK q \in Seq(Seq(CaseView)) :
        /\ Len(q) = Len(ks) + 1 /\ q[1] = cs /\ q[Len(q)] = ds
        /\ \A i \in 1 .. Len(ks) : Step(s, q[i], ks[i], q[i + 1])
  BY DEF Leads
<1>2. PICK r \in Seq(Seq(CaseView)) :
        /\ Len(r) = Len(ls) + 1 /\ r[1] = ds /\ r[Len(r)] = es
        /\ \A i \in 1 .. Len(ls) : Step(s, r[i], ls[i], r[i + 1])
  BY DEF Leads
<1> DEFINE m == Len(ks)
           n == Len(ls)
           run == [i \in 1 .. m + n + 1 |-> IF i <= m + 1 THEN q[i] ELSE r[i - m]]
           all == ks \o ls
<1>3. m \in Nat /\ n \in Nat /\ Len(q) = m + 1 /\ Len(r) = n + 1
  BY <1>1, <1>2
<1>4. run \in Seq(Seq(CaseView)) /\ Len(run) = m + n + 1
  <2>1. \A i \in 1 .. m + n + 1 : i <= m + 1 => i \in 1 .. Len(q)
    BY <1>3
  <2>2. \A i \in 1 .. m + n + 1 : ~ (i <= m + 1) => i - m \in 1 .. Len(r)
    BY <1>3
  <2>3. \A i \in 1 .. m + n + 1 : run[i] \in Seq(CaseView)
    BY <2>1, <2>2
  <2>4. m + n + 1 \in Nat
    BY <1>3
  <2> QED
    BY <2>3, <2>4
<1>5. /\ all \in Seq(Lines) /\ Len(all) = m + n
      /\ \A i \in 1 .. m : all[i] = ks[i]
      /\ \A i \in 1 .. n : all[m + i] = ls[i]
  OBVIOUS
<1>6. \A i \in 1 .. m + 1 : run[i] = q[i]
  BY <1>3
<1>7. \A i \in 1 .. n + 1 : run[m + i] = r[i]
  <2> SUFFICES ASSUME NEW i \in 1 .. n + 1 PROVE run[m + i] = r[i]
    OBVIOUS
  <2>1. CASE i = 1
    <3>1. run[m + 1] = q[m + 1]
      BY <1>3, <1>6
    <3> QED
      BY <1>1, <1>2, <1>3, <3>1, <2>1
  <2>2. CASE i # 1
    <3>1. m + i \in 1 .. m + n + 1 /\ ~ (m + i <= m + 1) /\ (m + i) - m = i
      BY <1>3, <2>2
    <3> QED
      BY <3>1
  <2> QED
    BY <2>1, <2>2
<1> HIDE DEF run, all
<1>8. ASSUME NEW i \in 1 .. m + n PROVE Step(s, run[i], all[i], run[i + 1])
  <2>1. CASE i <= m
    <3>1. i \in 1 .. m /\ i \in 1 .. m + 1 /\ i + 1 \in 1 .. m + 1
      BY <1>3, <2>1
    <3> QED
      BY <1>1, <1>5, <1>6, <3>1
  <2>2. CASE i > m
    <3>1. PICK k \in 1 .. n : i = m + k
      <4>1. i - m \in 1 .. n /\ i = m + (i - m)
        BY <1>3, <2>2
      <4> QED
        BY <4>1
    <3>2. k \in 1 .. n + 1 /\ k + 1 \in 1 .. n + 1 /\ i + 1 = m + (k + 1)
      BY <1>3, <3>1
    <3>3. run[i] = r[k] /\ run[i + 1] = r[k + 1] /\ all[i] = ls[k]
      BY <1>5, <1>7, <3>1, <3>2
    <3> QED
      BY <1>2, <3>3
  <2> QED
    BY <1>3, <2>1, <2>2
<1>9. run[1] = cs /\ run[Len(run)] = es
  <2>0. 1 \in 1 .. m + 1
    BY <1>3
  <2>1. run[1] = q[1]
    BY <2>0, <1>6
  <2>2. run[m + (n + 1)] = r[n + 1] /\ Len(run) = m + (n + 1)
    BY <1>3, <1>4, <1>7
  <2> QED
    BY <1>1, <1>2, <1>3, <2>1, <2>2
<1>10. Len(run) = Len(all) + 1
  BY <1>3, <1>4, <1>5
<1> QED
  BY <1>4, <1>5, <1>8, <1>9, <1>10 DEF Leads, all

LEMMA LeadsFirst ==
  ASSUME NEW s, NEW cs, NEW es, NEW ls \in Seq(Lines), ls # <<>>, Leads(s, cs, ls, es)
  PROVE  \E ds : Step(s, cs, Head(ls), ds) /\ Leads(s, ds, Tail(ls), es)
<1>1. PICK q \in Seq(Seq(CaseView)) :
        /\ Len(q) = Len(ls) + 1 /\ q[1] = cs /\ q[Len(q)] = es
        /\ \A i \in 1 .. Len(ls) : Step(s, q[i], ls[i], q[i + 1])
  BY DEF Leads
<1>2. Len(ls) \in Nat \ {0} /\ Head(ls) = ls[1] /\ Tail(ls) \in Seq(Lines) /\ Len(Tail(ls)) = Len(ls) - 1
      /\ \A i \in 1 .. Len(Tail(ls)) : Tail(ls)[i] = ls[i + 1]
  OBVIOUS
<1>3. Tail(q) \in Seq(Seq(CaseView)) /\ Len(Tail(q)) = Len(ls) /\ \A i \in 1 .. Len(ls) : Tail(q)[i] = q[i + 1]
  BY <1>1, <1>2
<1>4. Step(s, cs, Head(ls), q[2])
  BY <1>1, <1>2
<1> DEFINE ts == Tail(ls)
           r == Tail(q)
<1>5. \A i \in 1 .. Len(ts) : Step(s, r[i], ts[i], r[i + 1])
  <2> SUFFICES ASSUME NEW i \in 1 .. Len(ts) PROVE Step(s, r[i], ts[i], r[i + 1])
    OBVIOUS
  <2>1. i \in 1 .. Len(ls) /\ i + 1 \in 1 .. Len(ls)
    BY <1>2
  <2>2. r[i] = q[i + 1] /\ r[i + 1] = q[(i + 1) + 1] /\ ts[i] = ls[i + 1]
    BY <1>2, <1>3, <2>1
  <2> QED
    BY <1>1, <2>1, <2>2
<1>6. r[1] = q[2] /\ r[Len(r)] = es /\ Len(r) = Len(ts) + 1 /\ r \in Seq(Seq(CaseView))
  BY <1>1, <1>2, <1>3
<1> HIDE DEF ts, r
<1>7. Leads(s, q[2], ts, es)
  BY <1>5, <1>6 DEF Leads
<1> QED
  BY <1>4, <1>7 DEF ts

-----------------------------------------------------------------------------
(* A batch is put together from the lines for one case after another.      *)

Flattens(seqs, g) == g = [i \in 1 .. Len(seqs) |-> IF i = 1 THEN seqs[i] ELSE g[i - 1] \o seqs[i]]

LEMMA FlatIsChosen ==
  ASSUME NEW seqs
  PROVE  FlattenSeq(seqs) = IF Len(seqs) = 0 THEN seqs ELSE (CHOOSE g : Flattens(seqs, g))[Len(seqs)]
BY DEF FlattenSeq, Flattens

FlatTo(seqs, g, n) == g = [i \in 1 .. n |-> IF i = 1 THEN seqs[i] ELSE g[i - 1] \o seqs[i]]

LEMMA FlatExists ==
  ASSUME NEW S, NEW seqs \in Seq(S)
  PROVE  \E g : Flattens(seqs, g)
<1> DEFINE Good == {n \in Nat : \E g : FlatTo(seqs, g, n)}
<1>1. 0 \in Good
  <2> DEFINE g == [i \in 1 .. 0 |-> <<>>]
  <2>1. FlatTo(seqs, g, 0)
    BY DEF FlatTo
  <2> QED
    BY <2>1
<1>2. ASSUME NEW n \in 1 .. Len(seqs), n - 1 \in Good PROVE n \in Good
  <2>1. PICK g : FlatTo(seqs, g, n - 1)
    BY <1>2
  <2>2. n \in Nat /\ n - 1 \in Nat
    OBVIOUS
  <2> DEFINE h == [i \in 1 .. n |-> IF i = 1 THEN seqs[i] ELSE g[i - 1] \o seqs[i]]
             k == [i \in 1 .. n |-> IF i = 1 THEN seqs[i] ELSE h[i - 1] \o seqs[i]]
  <2>3. ASSUME NEW i \in 1 .. n - 1 PROVE h[i] = g[i]
    <3>1. g[i] = IF i = 1 THEN seqs[i] ELSE g[i - 1] \o seqs[i]
      BY <2>1 DEF FlatTo
    <3> QED
      BY <2>2, <3>1
  <2>4. ASSUME NEW i \in 1 .. n PROVE k[i] = h[i]
    <3>1. CASE i = 1
      BY <3>1
    <3>2. CASE i # 1
      <4>1. i - 1 \in 1 .. n - 1
        BY <2>2, <3>2
      <4>2. h[i - 1] = g[i - 1]
        <5> HIDE DEF h
        <5> QED
          BY <4>1, <2>3
      <4>3. h[i] = g[i - 1] \o seqs[i] /\ k[i] = h[i - 1] \o seqs[i]
        BY <3>2
      <4> HIDE DEF h, k
      <4> QED
        BY <4>2, <4>3
    <3> QED
      BY <3>1, <3>2
  <2>5. h = k
    <3>1. DOMAIN k = DOMAIN h /\ k = [i \in DOMAIN k |-> k[i]] /\ h = [i \in DOMAIN h |-> h[i]] /\ DOMAIN k = 1 .. n
      OBVIOUS
    <3> HIDE DEF k, h
    <3> QED
      BY <3>1, <2>4
  <2>6. FlatTo(seqs, h, n)
    <3> HIDE DEF h
    <3> QED
      BY <2>5 DEF FlatTo
  <2> QED
    BY <2>2, <2>6
<1>3. Len(seqs) \in Nat
  OBVIOUS
<1>4. Len(seqs) \in Good
  <2> HIDE DEF Good
  <2> QED
    BY <1>1, <1>2, <1>3, Climb
<1> QED
  BY <1>4 DEF FlatTo, Flattens

\* If from every place in P the next lines lead to a place in P, all lines together do.
LEMMA LeadsThrough ==
  ASSUME NEW s, NEW seqs \in Seq(Seq(Lines)), NEW P, NEW cs \in Seq(CaseView), <<0, cs>> \in P,
         \A k \in 1 .. Len(seqs) : \A ds \in Seq(CaseView) : <<k - 1, ds>> \in P =>
           \E es \in Seq(CaseView) : <<k, es>> \in P /\ Leads(s, ds, seqs[k], es)
  PROVE  /\ FlattenSeq(seqs) \in Seq(Lines)
         /\ \E es \in Seq(CaseView) : <<Len(seqs), es>> \in P /\ Leads(s, cs, FlattenSeq(seqs), es)
<1>0. Len(seqs) \in Nat
  OBVIOUS
<1>1. CASE Len(seqs) = 0
  <2>1. FlattenSeq(seqs) = seqs /\ seqs = <<>>
    BY <1>1, FlatIsChosen
  <2>2. Leads(s, cs, <<>>, cs)
    BY LeadsNowhere
  <2> QED
    BY <1>1, <2>1, <2>2
<1>2. CASE Len(seqs) # 0
  <2>1. PICK g : g = (CHOOSE f : Flattens(seqs, f)) /\ Flattens(seqs, g)
    BY FlatExists
  <2>2. FlattenSeq(seqs) = g[Len(seqs)]
    BY <1>2, <2>1, FlatIsChosen
  <2>3. \A i \in 1 .. Len(seqs) : g[i] = IF i = 1 THEN seqs[i] ELSE g[i - 1] \o seqs[i]
    BY <2>1 DEF Flattens
  <2> DEFINE Good == {n \in Nat : n = 0 \/ (/\ g[n] \in Seq(Lines)
                                            /\ \E es \in Seq(CaseView) : <<n, es>> \in P /\ Leads(s, cs, g[n], es))}
  <2>4. 0 \in Good
    OBVIOUS
  <2>5. ASSUME NEW n \in 1 .. Len(seqs), n - 1 \in Good PROVE n \in Good
    <3>1. n \in Nat /\ seqs[n] \in Seq(Lines)
      OBVIOUS
    <3>2. CASE n = 1
      <4>1. g[n] = seqs[n]
        BY <2>3, <3>2
      <4>0. n - 1 = 0
        BY <3>2
      <4>2. \E es \in Seq(CaseView) : <<n, es>> \in P /\ Leads(s, cs, seqs[n], es)
        BY <4>0
      <4> QED
        BY <3>1, <3>2, <4>1, <4>2
    <3>3. CASE n # 1
      <4>1. g[n - 1] \in Seq(Lines) /\ \E es \in Seq(CaseView) : <<n - 1, es>> \in P /\ Leads(s, cs, g[n - 1], es)
        <5>1. n - 1 # 0
          BY <3>1, <3>3
        <5> QED
          BY <2>5, <5>1
      <4>2. PICK ds \in Seq(CaseView) : <<n - 1, ds>> \in P /\ Leads(s, cs, g[n - 1], ds)
        BY <4>1
      <4>3. PICK es \in Seq(CaseView) : <<n, es>> \in P /\ Leads(s, ds, seqs[n], es)
        BY <4>2
      <4>4. g[n] = g[n - 1] \o seqs[n]
        BY <2>3, <3>3
      <4>5. Leads(s, cs, g[n], es)
        BY <3>1, <4>1, <4>2, <4>3, <4>4, LeadsOn
      <4>6. g[n] \in Seq(Lines)
        BY <3>1, <4>1, <4>4
      <4> QED
        BY <3>1, <4>3, <4>5, <4>6
    <3> QED
      BY <3>2, <3>3
  <2>6. Len(seqs) \in Good
    <3> HIDE DEF Good
    <3> QED
      BY <1>0, <2>4, <2>5, Climb
  <2> QED
    BY <1>2, <2>2, <2>6
<1> QED
  BY <1>1, <1>2

-----------------------------------------------------------------------------
(* What a snapshot supports.                                               *)

LEMMA Bounds == MaxReminders \in Nat /\ MaxBlocks \in Nat /\ MaxAttempts \in Nat \ {0} /\ RobotOf \in [Tasks -> Robots]
BY InterventionAssumption

LEMMA EdgeFacts ==
  ASSUME NEW s, EdgeInv(s)
  PROVE  /\ \A t \in Tasks : /\ s.task[t].state \in {"none", "open", "blocked", "ended"}
                             /\ s.task[t].block \in Nat /\ s.task[t].blocks \in Nat /\ s.task[t].unknown \in BOOLEAN
                             /\ s.task[t].reasons \subseteq Reasons /\ s.task[t].conflict \in BOOLEAN
                             /\ s.task[t].publish \in {"fine", "expired", "exhausted"}
         /\ \A r \in Robots : s.device[r].offline \in BOOLEAN /\ s.device[r].episode \in Nat /\ s.device[r].regression \in BOOLEAN
         /\ \A t \in Tasks : EffectiveRank(s, t) \in 0 .. 2
<1>1. s.task \in [Tasks -> TaskSummary] /\ s.device \in [Robots -> DeviceSummary]
  BY DEF EdgeInv
<1>2. \A t \in Tasks : s.task[t] \in TaskSummary
  BY <1>1
<1>3. \A r \in Robots : s.device[r] \in DeviceSummary
  BY <1>1
<1> QED
  BY <1>2, <1>3 DEF TaskSummary, DeviceSummary, EffectiveRank

LEMMA OneOpenTask ==
  ASSUME NEW s, EdgeInv(s), NEW r
  PROVE  \/ OpenTaskOf(s, r) = {}
         \/ \E t \in Tasks : OpenTaskOf(s, r) = {t} /\ RobotOf[t] = r /\ TaskOpen(s, t)
<1>1. \A t, u \in OpenTaskOf(s, r) : t = u
  BY DEF EdgeInv, OpenTaskOf
<1>2. ASSUME NEW t \in OpenTaskOf(s, r) PROVE OpenTaskOf(s, r) = {t}
  BY <1>1
<1> QED
  BY <1>2 DEF OpenTaskOf

\* The five ways in which a snapshot supports a condition.
LEMMA ItemCases ==
  ASSUME NEW s, NEW item \in Observe(s)
  PROVE  \/ \E t \in Tasks : /\ s.task[t].state = "blocked"
              /\ item = Item("ASSISTANCE_REQUIRED", t, IF s.task[t].unknown THEN "CRITICAL" ELSE "WARNING", s.task[t].block, {})
         \/ \E t \in Tasks : item = Item("EVIDENCE_CONFLICT", t, "CRITICAL", EffectiveRank(s, t), s.task[t].reasons)
         \/ \E t \in Tasks : /\ TaskOpen(s, t) /\ s.task[t].publish # "fine"
              /\ item = Item("RESULT_UNCONFIRMED", t, "WARNING", 0, {s.task[t].publish})
         \/ \E r \in Robots :
              item = Item("DEVICE_UNREACHABLE", r, IF OpenTaskOf(s, r) = {} THEN "WARNING" ELSE "CRITICAL",
                          s.device[r].episode, OpenTaskOf(s, r))
         \/ \E r \in Robots : item = Item("EVIDENCE_CONFLICT", r, "CRITICAL", 0, {})
BY DEF Observe, NeedsAssistance, Conflicting, Unconfirmed

\* The condition is determined by its kind and its subject.
ItemOf(s, kind, x) ==
  CASE kind = "ASSISTANCE_REQUIRED" -> Item(kind, x, IF s.task[x].unknown THEN "CRITICAL" ELSE "WARNING", s.task[x].block, {})
    [] kind = "RESULT_UNCONFIRMED"  -> Item(kind, x, "WARNING", 0, {s.task[x].publish})
    [] kind = "DEVICE_UNREACHABLE"  -> Item(kind, x, IF OpenTaskOf(s, x) = {} THEN "WARNING" ELSE "CRITICAL",
                                            s.device[x].episode, OpenTaskOf(s, x))
    [] kind = "EVIDENCE_CONFLICT"   -> IF x \in Tasks THEN Item(kind, x, "CRITICAL", EffectiveRank(s, x), s.task[x].reasons)
                                       ELSE Item(kind, x, "CRITICAL", 0, {})

LEMMA ItemIsItemOf ==
  ASSUME NEW s, NEW item \in Observe(s)
  PROVE  /\ item = ItemOf(s, item.kind, item.subject)
         /\ item.kind = "ASSISTANCE_REQUIRED" => item.subject \in Tasks /\ s.task[item.subject].state = "blocked"
         /\ item.kind = "RESULT_UNCONFIRMED" =>
              item.subject \in Tasks /\ TaskOpen(s, item.subject) /\ s.task[item.subject].publish # "fine"
         /\ item.kind = "DEVICE_UNREACHABLE" => item.subject \in Robots
         /\ item.kind = "EVIDENCE_CONFLICT" => item.subject \in Tasks \cup Robots
         /\ item.kind \in Kinds
<1>1. Tasks \cap Robots = {}
  BY InterventionAssumption
<1> DEFINE x == item.subject
           Facts == /\ item = ItemOf(s, item.kind, x)
                    /\ item.kind = "ASSISTANCE_REQUIRED" => x \in Tasks /\ s.task[x].state = "blocked"
                    /\ item.kind = "RESULT_UNCONFIRMED" => x \in Tasks /\ TaskOpen(s, x) /\ s.task[x].publish # "fine"
                    /\ item.kind = "DEVICE_UNREACHABLE" => x \in Robots
                    /\ item.kind = "EVIDENCE_CONFLICT" => x \in Tasks \cup Robots
                    /\ item.kind \in Kinds
<1>2. ASSUME NEW t \in Tasks, s.task[t].state = "blocked",
             item = Item("ASSISTANCE_REQUIRED", t, IF s.task[t].unknown THEN "CRITICAL" ELSE "WARNING", s.task[t].block, {})
      PROVE  Facts
  <2>1. item.kind = "ASSISTANCE_REQUIRED" /\ item.subject = t
    BY <1>2 DEF Item
  <2> QED
    BY <1>2, <2>1 DEF ItemOf, Kinds
<1>3. ASSUME NEW t \in Tasks, item = Item("EVIDENCE_CONFLICT", t, "CRITICAL", EffectiveRank(s, t), s.task[t].reasons)
      PROVE  Facts
  <2>1. item.kind = "EVIDENCE_CONFLICT" /\ item.subject = t
    BY <1>3 DEF Item
  <2> QED
    BY <1>3, <2>1 DEF ItemOf, Kinds
<1>4. ASSUME NEW t \in Tasks, TaskOpen(s, t) /\ s.task[t].publish # "fine",
             item = Item("RESULT_UNCONFIRMED", t, "WARNING", 0, {s.task[t].publish})
      PROVE  Facts
  <2>1. item.kind = "RESULT_UNCONFIRMED" /\ item.subject = t
    BY <1>4 DEF Item
  <2> QED
    BY <1>4, <2>1 DEF ItemOf, Kinds
<1>5. ASSUME NEW r \in Robots, item = Item("DEVICE_UNREACHABLE", r, IF OpenTaskOf(s, r) = {} THEN "WARNING" ELSE "CRITICAL",
                                          s.device[r].episode, OpenTaskOf(s, r))
      PROVE  Facts
  <2>1. item.kind = "DEVICE_UNREACHABLE" /\ item.subject = r
    BY <1>5 DEF Item
  <2> QED
    BY <1>5, <2>1 DEF ItemOf, Kinds
<1>6. ASSUME NEW r \in Robots, item = Item("EVIDENCE_CONFLICT", r, "CRITICAL", 0, {})
      PROVE  Facts
  <2>1. item.kind = "EVIDENCE_CONFLICT" /\ item.subject = r /\ r \notin Tasks
    BY <1>1, <1>6 DEF Item
  <2> QED
    BY <1>6, <2>1 DEF ItemOf, Kinds
<1>7. Facts
  <2> HIDE DEF Facts
  <2> QED
    BY <1>2, <1>3, <1>4, <1>5, <1>6, ItemCases
<1> QED
  BY <1>7

LEMMA ItemsDiffer ==
  ASSUME NEW s, NEW item \in Observe(s), NEW other \in Observe(s), SameSubject(item, other)
  PROVE  item = other
<1>1. item = ItemOf(s, item.kind, item.subject) /\ other = ItemOf(s, other.kind, other.subject)
  BY ItemIsItemOf
<1> QED
  BY <1>1 DEF SameSubject

LEMMA ObserveIsFinite == ASSUME NEW s PROVE IsFiniteSet(Observe(s))
<1>1. IsFiniteSet(Tasks) /\ IsFiniteSet(Robots)
  BY InterventionAssumption
<1> DEFINE A == {Item("ASSISTANCE_REQUIRED", t, IF s.task[t].unknown THEN "CRITICAL" ELSE "WARNING", s.task[t].block, {})
                   : t \in NeedsAssistance(s)}
           B == {Item("EVIDENCE_CONFLICT", t, "CRITICAL", EffectiveRank(s, t), s.task[t].reasons) : t \in Conflicting(s)}
           C == {Item("RESULT_UNCONFIRMED", t, "WARNING", 0, {s.task[t].publish}) : t \in Unconfirmed(s)}
           D == {Item("DEVICE_UNREACHABLE", r, IF OpenTaskOf(s, r) = {} THEN "WARNING" ELSE "CRITICAL",
                      s.device[r].episode, OpenTaskOf(s, r)) : r \in {r \in Robots : s.device[r].offline}}
           E == {Item("EVIDENCE_CONFLICT", r, "CRITICAL", 0, {}) : r \in {r \in Robots : s.device[r].regression}}
<1>2. IsFiniteSet(NeedsAssistance(s)) /\ IsFiniteSet(Conflicting(s)) /\ IsFiniteSet(Unconfirmed(s))
  BY <1>1, FS_Subset DEF NeedsAssistance, Conflicting, Unconfirmed
<1>3. IsFiniteSet({r \in Robots : s.device[r].offline}) /\ IsFiniteSet({r \in Robots : s.device[r].regression})
  BY <1>1, FS_Subset
<1>4. IsFiniteSet(A)
  <2> DEFINE f == [t \in NeedsAssistance(s) |->
                     Item("ASSISTANCE_REQUIRED", t, IF s.task[t].unknown THEN "CRITICAL" ELSE "WARNING", s.task[t].block, {})]
  <2>1. A = {f[t] : t \in NeedsAssistance(s)} /\ f \in Surjection(NeedsAssistance(s), A)
    BY DEF Surjection
  <2> QED
    BY <1>2, <2>1, FS_Surjection
<1>5. IsFiniteSet(B)
  <2> DEFINE f == [t \in Conflicting(s) |-> Item("EVIDENCE_CONFLICT", t, "CRITICAL", EffectiveRank(s, t), s.task[t].reasons)]
  <2>1. f \in Surjection(Conflicting(s), B)
    BY DEF Surjection
  <2> QED
    BY <1>2, <2>1, FS_Surjection
<1>6. IsFiniteSet(C)
  <2> DEFINE f == [t \in Unconfirmed(s) |-> Item("RESULT_UNCONFIRMED", t, "WARNING", 0, {s.task[t].publish})]
  <2>1. f \in Surjection(Unconfirmed(s), C)
    BY DEF Surjection
  <2> QED
    BY <1>2, <2>1, FS_Surjection
<1>7. IsFiniteSet(D)
  <2> DEFINE R == {r \in Robots : s.device[r].offline}
             f == [r \in R |-> Item("DEVICE_UNREACHABLE", r, IF OpenTaskOf(s, r) = {} THEN "WARNING" ELSE "CRITICAL",
                                    s.device[r].episode, OpenTaskOf(s, r))]
  <2>1. f \in Surjection(R, D)
    BY DEF Surjection
  <2> QED
    BY <1>3, <2>1, FS_Surjection
<1>8. IsFiniteSet(E)
  <2> DEFINE R == {r \in Robots : s.device[r].regression}
             f == [r \in R |-> Item("EVIDENCE_CONFLICT", r, "CRITICAL", 0, {})]
  <2>1. f \in Surjection(R, E)
    BY DEF Surjection
  <2> QED
    BY <1>3, <2>1, FS_Surjection
<1>9. Observe(s) = (((A \cup B) \cup C) \cup D) \cup E
  BY DEF Observe
<1> HIDE DEF A, B, C, D, E
<1> QED
  BY <1>4, <1>5, <1>6, <1>7, <1>8, <1>9, FS_Union

\* Evidence that is supported now is well formed, reached, and not before any that was reached.
LEMMA ItemFacts ==
  ASSUME NEW s, EdgeInv(s), NEW item \in Observe(s)
  PROVE  /\ item.kind \in Kinds /\ item.subject \in Subjects /\ item.severity \in Severities
         /\ item = [kind |-> item.kind, subject |-> item.subject, severity |-> item.severity, key |-> item.key]
         /\ Shaped(item.kind, item.subject, item.key)
         /\ Reached(s, item.kind, item.subject, item.key)
         /\ \A key : Shaped(item.kind, item.subject, key) /\ Reached(s, item.kind, item.subject, key)
                       => NotAfter(item.kind, key, item.key)
         /\ item.kind = "DEVICE_UNREACHABLE" =>
              item.key = [at |-> s.device[item.subject].episode, with |-> OpenTaskOf(s, item.subject)]
<1>0. Tasks \cap Robots = {}
  BY InterventionAssumption
<1> DEFINE x == item.subject
<1>a. item.kind \in Kinds /\ item = ItemOf(s, item.kind, x)
  BY ItemIsItemOf
<1>b. EdgeInv(s)
  OBVIOUS
<1>1. CASE item.kind = "ASSISTANCE_REQUIRED"
  <2>1. x \in Tasks /\ s.task[x].state = "blocked"
    BY <1>1, ItemIsItemOf
  <2>2. item = Item("ASSISTANCE_REQUIRED", x, IF s.task[x].unknown THEN "CRITICAL" ELSE "WARNING", s.task[x].block, {})
    BY <1>1, <1>a DEF ItemOf
  <2>3. s.task[x].block = s.task[x].blocks /\ s.task[x].block \in Nat
    BY <2>1, EdgeFacts DEF EdgeInv
  <2>4. item.key = [at |-> s.task[x].block, with |-> {}] /\ item.severity \in Severities
        /\ item = [kind |-> item.kind, subject |-> item.subject, severity |-> item.severity, key |-> item.key]
    BY <2>2 DEF Item, Severities
  <2> HIDE DEF x
  <2>5. ASSUME NEW key, Shaped("ASSISTANCE_REQUIRED", x, key), Reached(s, "ASSISTANCE_REQUIRED", x, key)
        PROVE  NotAfter("ASSISTANCE_REQUIRED", key, item.key)
    BY <2>3, <2>4, <2>5 DEF NotAfter, Reached
  <2>6. Shaped("ASSISTANCE_REQUIRED", x, item.key) /\ Reached(s, "ASSISTANCE_REQUIRED", x, item.key)
    BY <2>1, <2>3, <2>4 DEF Shaped, Reached, Key
  <2> QED
    BY <1>1, <1>a, <2>1, <2>4, <2>5, <2>6 DEF Subjects, x
<1>2. CASE item.kind = "RESULT_UNCONFIRMED"
  <2>1. x \in Tasks /\ s.task[x].publish # "fine"
    BY <1>2, ItemIsItemOf
  <2>2. item = Item("RESULT_UNCONFIRMED", x, "WARNING", 0, {s.task[x].publish})
    BY <1>2, <1>a DEF ItemOf
  <2>3. s.task[x].publish \in {"expired", "exhausted"}
    BY <2>1, EdgeFacts
  <2>4. item.key = [at |-> 0, with |-> {s.task[x].publish}] /\ item.severity \in Severities
        /\ item = [kind |-> item.kind, subject |-> item.subject, severity |-> item.severity, key |-> item.key]
    BY <2>2 DEF Item, Severities
  <2> HIDE DEF x
  <2>5. ASSUME NEW key, Shaped("RESULT_UNCONFIRMED", x, key), Reached(s, "RESULT_UNCONFIRMED", x, key)
        PROVE  NotAfter("RESULT_UNCONFIRMED", key, item.key)
    BY <2>3, <2>4, <2>5 DEF NotAfter, Reached, Shaped
  <2>6. Shaped("RESULT_UNCONFIRMED", x, item.key) /\ Reached(s, "RESULT_UNCONFIRMED", x, item.key)
    BY <2>1, <2>3, <2>4 DEF Shaped, Reached, Key
  <2> QED
    BY <1>2, <1>a, <2>1, <2>4, <2>5, <2>6 DEF Subjects, x
<1>3. CASE item.kind = "DEVICE_UNREACHABLE"
  <2>1. x \in Robots
    BY <1>3, ItemIsItemOf
  <2>2. item = Item("DEVICE_UNREACHABLE", x, IF OpenTaskOf(s, x) = {} THEN "WARNING" ELSE "CRITICAL",
                    s.device[x].episode, OpenTaskOf(s, x))
    BY <1>3, <1>a DEF ItemOf
  <2>3. s.device[x].episode \in Nat
    BY <2>1, EdgeFacts
  <2>4. item.key = [at |-> s.device[x].episode, with |-> OpenTaskOf(s, x)] /\ item.severity \in Severities
        /\ item = [kind |-> item.kind, subject |-> item.subject, severity |-> item.severity, key |-> item.key]
    BY <2>2 DEF Item, Severities
  <2> HIDE DEF x
  <2>5. ASSUME NEW key, Shaped("DEVICE_UNREACHABLE", x, key), Reached(s, "DEVICE_UNREACHABLE", x, key)
        PROVE  NotAfter("DEVICE_UNREACHABLE", key, item.key)
    BY <2>3, <2>4, <2>5 DEF NotAfter, Reached, Shaped
  <2>6. OpenTaskOf(s, x) \subseteq Tasks
    BY DEF OpenTaskOf
  <2>7. item.key.with = {} \/ \E t \in Tasks : item.key.with = {t} /\ RobotOf[t] = x
    BY <2>4, OneOpenTask
  <2>8. \A t \in item.key.with : s.task[t].state # "none"
    BY <2>4 DEF OpenTaskOf, TaskOpen
  <2>9. Shaped("DEVICE_UNREACHABLE", x, item.key)
    BY <2>1, <2>3, <2>4, <2>6, <2>7 DEF Shaped, Key
  <2>10. Reached(s, "DEVICE_UNREACHABLE", x, item.key)
    BY <2>3, <2>4, <2>8 DEF Reached
  <2> QED
    BY <1>3, <1>a, <2>1, <2>4, <2>5, <2>9, <2>10 DEF Subjects, x
<1>4. CASE item.kind = "EVIDENCE_CONFLICT" /\ x \in Tasks
  <2>2. item = Item("EVIDENCE_CONFLICT", x, "CRITICAL", EffectiveRank(s, x), s.task[x].reasons)
    BY <1>4, <1>a DEF ItemOf
  <2>3. EffectiveRank(s, x) \in Nat /\ s.task[x].reasons \subseteq Reasons
    BY <1>4, EdgeFacts
  <2>4. item.key = [at |-> EffectiveRank(s, x), with |-> s.task[x].reasons] /\ item.severity \in Severities
        /\ item = [kind |-> item.kind, subject |-> item.subject, severity |-> item.severity, key |-> item.key]
    BY <2>2 DEF Item, Severities
  <2> HIDE DEF x
  <2>5. ASSUME NEW key, Shaped("EVIDENCE_CONFLICT", x, key), Reached(s, "EVIDENCE_CONFLICT", x, key)
        PROVE  NotAfter("EVIDENCE_CONFLICT", key, item.key)
    BY <1>4, <2>3, <2>4, <2>5 DEF NotAfter, Reached
  <2>6. Shaped("EVIDENCE_CONFLICT", x, item.key) /\ Reached(s, "EVIDENCE_CONFLICT", x, item.key)
    BY <1>0, <1>4, <2>3, <2>4 DEF Shaped, Reached, Key
  <2> QED
    BY <1>4, <1>a, <2>4, <2>5, <2>6 DEF Subjects, x
<1>5. CASE item.kind = "EVIDENCE_CONFLICT" /\ x \notin Tasks
  <2>1. x \in Robots
    BY <1>5, ItemIsItemOf
  <2>2. item = Item("EVIDENCE_CONFLICT", x, "CRITICAL", 0, {})
    BY <1>5, <1>a DEF ItemOf
  <2>4. item.key = [at |-> 0, with |-> {}] /\ item.severity \in Severities
        /\ item = [kind |-> item.kind, subject |-> item.subject, severity |-> item.severity, key |-> item.key]
    BY <2>2 DEF Item, Severities
  <2> HIDE DEF x
  <2>5. ASSUME NEW key, Shaped("EVIDENCE_CONFLICT", x, key), Reached(s, "EVIDENCE_CONFLICT", x, key)
        PROVE  NotAfter("EVIDENCE_CONFLICT", key, item.key)
    BY <2>1, <2>4, <2>5 DEF NotAfter, Shaped
  <2>6. Shaped("EVIDENCE_CONFLICT", x, item.key) /\ Reached(s, "EVIDENCE_CONFLICT", x, item.key)
    BY <1>5, <2>1, <2>4 DEF Shaped, Reached, Key
  <2> QED
    BY <1>5, <1>a, <2>1, <2>4, <2>5, <2>6 DEF Subjects, x
<1> QED
  BY <1>a, <1>1, <1>2, <1>3, <1>4, <1>5 DEF Kinds

-----------------------------------------------------------------------------
(* One case.                                                               *)

LEMMA CaseFacts ==
  ASSUME NEW c \in CaseView
  PROVE  /\ c.kind \in Kinds /\ c.subject \in Subjects /\ c.born \in Key /\ c.severity \in Severities /\ c.key \in Key
         /\ c.human \in {"OPEN", "ACKNOWLEDGED", "RESOLVED"} /\ c.active \in BOOLEAN /\ c.recurs \in Nat
         /\ c.pending \subseteq Note /\ c.notes \in Seq(Note) /\ c.reminders \in Nat /\ c.quiet \in BOOLEAN
         /\ DOMAIN c.notes = 1 .. Len(c.notes) /\ Len(c.notes) \in Nat
<1>1. c.notes \in Seq(Note)
  BY DEF CaseView
<1>2. DOMAIN c.notes = 1 .. Len(c.notes) /\ Len(c.notes) \in Nat
  BY <1>1
<1> QED
  BY <1>1, <1>2 DEF CaseView

LEMMA NewNoteIsNote ==
  ASSUME NEW intent \in Intents, NEW ordinal \in Nat, NEW severity \in Severities
  PROVE  NewNote(intent, ordinal, severity) \in Note /\ Unused(NewNote(intent, ordinal, severity))
BY DEF NewNote, Note, NoteStates, Unused

\* What changes neither the notifications nor the severity of a case.
LEMMA QuietChange ==
  ASSUME NEW c, CaseSound(c), NEW d \in CaseView,
         d.notes = c.notes, d.pending = c.pending, d.severity = c.severity, d.reminders = c.reminders
  PROVE  CaseSound(d)
<1>1. Reminders(d) = Reminders(c)
  BY DEF Reminders
<1> QED
  BY <1>1 DEF CaseSound

LEMMA EscalationSound ==
  ASSUME NEW c, CaseSound(c), c.pending = {}, c.severity = "WARNING", NEW key \in Key,
         NEW d, d = [c EXCEPT !.severity = "CRITICAL", !.key = key,
                              !.pending = @ \cup {NewNote("ESCALATION", Len(c.notes), "CRITICAL")}]
  PROVE  CaseSound(d) /\ d.pending = {NewNote("ESCALATION", Len(c.notes), "CRITICAL")}
<1>1. c \in CaseView
  BY DEF CaseSound
<1>2. NewNote("ESCALATION", Len(c.notes), "CRITICAL") \in Note
  BY <1>1, CaseFacts, NewNoteIsNote DEF Intents, Severities
<1>3. d \in CaseView
  <2>1. d.pending \subseteq Note
    BY <1>1, <1>2 DEF CaseView
  <2> QED
    BY <1>1, <2>1 DEF CaseView, Severities
<1>4. d.notes = c.notes /\ d.reminders = c.reminders /\ d.severity = "CRITICAL"
      /\ d.pending = {NewNote("ESCALATION", Len(c.notes), "CRITICAL")}
  BY <1>1 DEF CaseView
<1> HIDE DEF NewNote
<1>5. c.notes # <<>> /\ c.notes[1].severity # "CRITICAL" /\ \A k \in DOMAIN c.notes : c.notes[k].intent # "ESCALATION"
  <2>1. c.notes # <<>> /\ ((c.severity = c.notes[1].severity) <=> \A k \in DOMAIN c.notes : c.notes[k].intent # "ESCALATION")
    BY DEF CaseSound
  <2>2. c.notes[1].severity \in Severities
    <3>1. 1 \in DOMAIN c.notes /\ c.notes \in Seq(Note)
      BY <1>1, <2>1, CaseFacts
    <3>2. c.notes[1] \in Note
      BY <3>1
    <3> QED
      BY <3>2 DEF Note
  <2> QED
    BY <2>1, <2>2 DEF CaseSound, Severities
<1>6. Reminders(d) = Reminders(c)
  BY <1>4 DEF Reminders
<1> QED
  BY <1>3, <1>4, <1>5, <1>6 DEF CaseSound

LEMMA Appended ==
  ASSUME NEW T, NEW q \in Seq(T), NEW x \in T
  PROVE  /\ Append(q, x) \in Seq(T) /\ Len(Append(q, x)) = Len(q) + 1 /\ DOMAIN Append(q, x) = 1 .. Len(q) + 1
         /\ DOMAIN q = 1 .. Len(q) /\ Len(q) \in Nat /\ Append(q, x)[Len(q) + 1] = x
         /\ \A k \in 1 .. Len(q) : Append(q, x)[k] = q[k]
OBVIOUS

\* A notification that was already due to be written is written.
LEMMA IntentionSound ==
  ASSUME NEW c, CaseSound(c), NEW n \in c.pending, NEW id
  PROVE  /\ CaseSound(WithLine(c, Intended(id, n)))
         /\ WithLine(c, Intended(id, n)) = [c EXCEPT !.notes = Append(c.notes, n), !.pending = {}]
<1> DEFINE d == [c EXCEPT !.notes = Append(c.notes, n), !.pending = {}]
<1>1. c \in CaseView /\ n \in Note
  <2>1. c \in CaseView
    BY DEF CaseSound
  <2> QED
    BY <2>1, CaseFacts
<1>2. c.pending = {n} /\ n.intent \in {"OPENED", "ESCALATION"} /\ n.severity = c.severity /\ n.ordinal = Len(c.notes)
      /\ (n.intent = "OPENED" <=> c.notes = <<>>)
      /\ (n.intent = "ESCALATION" => c.severity # c.notes[1].severity /\ \A k \in DOMAIN c.notes : c.notes[k].intent # "ESCALATION")
  <2>1. \/ c.pending = {NewNote("OPENED", 0, c.severity)} /\ c.notes = <<>>
        \/ /\ c.pending = {NewNote("ESCALATION", Len(c.notes), c.severity)}
           /\ c.notes # <<>> /\ c.severity # c.notes[1].severity
           /\ \A k \in DOMAIN c.notes : c.notes[k].intent # "ESCALATION"
    BY DEF CaseSound
  <2>2. Len(<<>>) = 0
    OBVIOUS
  <2> QED
    BY <2>1, <2>2 DEF NewNote
<1>3. WithLine(c, Intended(id, n)) = d
  <2>1. {m \in c.pending : ~SameIntent(m, n)} = {}
    BY <1>2 DEF SameIntent
  <2> QED
    BY <1>1, <1>2, <2>1 DEF WithLine, Intended, CaseView
<1>4. d \in CaseView /\ d.notes = Append(c.notes, n) /\ d.pending = {} /\ d.severity = c.severity /\ d.reminders = c.reminders
  <2>1. Append(c.notes, n) \in Seq(Note)
    BY <1>1, CaseFacts, Appended
  <2> QED
    BY <1>1, <2>1 DEF CaseView
<1> HIDE DEF d
<1>5. /\ DOMAIN d.notes = 1 .. Len(c.notes) + 1 /\ DOMAIN c.notes = 1 .. Len(c.notes) /\ Len(c.notes) \in Nat
      /\ d.notes[Len(c.notes) + 1] = n /\ \A k \in 1 .. Len(c.notes) : d.notes[k] = c.notes[k]
  BY <1>1, <1>4, CaseFacts, Appended
<1>6. Reminders(d) = Reminders(c)
  BY <1>2, <1>5 DEF Reminders
<1>7. \A k \in DOMAIN d.notes : k \in DOMAIN c.notes \/ (k = Len(c.notes) + 1 /\ d.notes[k] = n)
  BY <1>5
<1>8. \A k \in DOMAIN d.notes : d.notes[k].ordinal = k - 1 /\ (d.notes[k].intent = "OPENED" <=> k = 1)
  <2>1. \A k \in DOMAIN c.notes : c.notes[k].ordinal = k - 1 /\ (c.notes[k].intent = "OPENED" <=> k = 1)
    BY DEF CaseSound
  <2>2. c.notes = <<>> <=> Len(c.notes) = 0
    BY <1>1, CaseFacts
  <2>3. ASSUME NEW k \in DOMAIN c.notes PROVE d.notes[k].ordinal = k - 1 /\ (d.notes[k].intent = "OPENED" <=> k = 1)
    BY <1>5, <2>1
  <2>4. Len(c.notes) + 1 - 1 = Len(c.notes) /\ (Len(c.notes) + 1 = 1 <=> Len(c.notes) = 0)
    BY <1>5
  <2>5. n.ordinal = Len(c.notes) + 1 - 1 /\ (n.intent = "OPENED" <=> Len(c.notes) + 1 = 1)
    BY <1>2, <2>2, <2>4
  <2> QED
    BY <1>7, <2>3, <2>5
<1>9. \A k, l \in DOMAIN d.notes : d.notes[k].intent = "ESCALATION" /\ d.notes[l].intent = "ESCALATION" => k = l
  <2>1. \A k, l \in DOMAIN c.notes : c.notes[k].intent = "ESCALATION" /\ c.notes[l].intent = "ESCALATION" => k = l
    BY DEF CaseSound
  <2> QED
    BY <1>2, <1>5, <1>7, <2>1
<1>10. d.notes # <<>>
  BY <1>5
<1>11. d.notes[1].severity = "CRITICAL" => d.severity = "CRITICAL"
  <2>1. c.notes # <<>> /\ c.notes[1].severity = "CRITICAL" => c.severity = "CRITICAL"
    BY DEF CaseSound
  <2>2. c.notes = <<>> <=> Len(c.notes) = 0
    BY <1>1, CaseFacts
  <2> QED
    BY <1>2, <1>4, <1>5, <2>1, <2>2
<1>12. (d.severity = d.notes[1].severity) <=> \A k \in DOMAIN d.notes : d.notes[k].intent # "ESCALATION"
  <2>1. c.notes = <<>> <=> Len(c.notes) = 0
    BY <1>1, CaseFacts
  <2>2. CASE n.intent = "OPENED"
    BY <1>2, <1>4, <1>5, <1>7, <2>1, <2>2
  <2>3. CASE n.intent = "ESCALATION"
    BY <1>2, <1>4, <1>5, <1>7, <2>1, <2>3
  <2> QED
    BY <1>2, <2>2, <2>3
<1>13. Cardinality(Reminders(d)) = d.reminders /\ d.reminders <= MaxReminders
  BY <1>4, <1>6 DEF CaseSound
<1>14. CaseSound(d)
  BY <1>4, <1>8, <1>9, <1>10, <1>11, <1>12, <1>13 DEF CaseSound
<1>15. d = [c EXCEPT !.notes = Append(c.notes, n), !.pending = {}]
  BY DEF d
<1> QED
  BY <1>3, <1>14, <1>15

LEMMA ReminderSound ==
  ASSUME NEW c, CaseSound(c), c.pending = {}, c.reminders < MaxReminders, NEW id,
         NEW n, n = NewNote("REMINDER", Len(c.notes), c.severity)
  PROVE  /\ CaseSound(WithLine(c, Intended(id, n))) /\ n \in Note
         /\ WithLine(c, Intended(id, n)) = [c EXCEPT !.notes = Append(c.notes, n), !.pending = {}, !.reminders = @ + 1]
<1> DEFINE d == [c EXCEPT !.notes = Append(c.notes, n), !.pending = {}, !.reminders = @ + 1]
<1>1. c \in CaseView /\ n \in Note /\ n.intent = "REMINDER" /\ n.ordinal = Len(c.notes)
  <2>1. c \in CaseView
    BY DEF CaseSound
  <2>2. n.intent = "REMINDER" /\ n.ordinal = Len(c.notes)
    BY DEF NewNote
  <2> QED
    BY <2>1, <2>2, CaseFacts, NewNoteIsNote DEF Intents
<1>3. WithLine(c, Intended(id, n)) = d
  <2>1. {m \in c.pending : ~SameIntent(m, n)} = {}
    OBVIOUS
  <2> QED
    BY <1>1, <2>1 DEF WithLine, Intended, CaseView
<1>4. d \in CaseView /\ d.notes = Append(c.notes, n) /\ d.pending = {} /\ d.severity = c.severity /\ d.reminders = c.reminders + 1
  <2>1. Append(c.notes, n) \in Seq(Note)
    BY <1>1, CaseFacts, Appended
  <2>2. c.reminders + 1 \in Nat
    BY <1>1, CaseFacts
  <2> QED
    BY <1>1, <2>1, <2>2 DEF CaseView
<1> HIDE DEF d
<1>5. /\ DOMAIN d.notes = 1 .. Len(c.notes) + 1 /\ DOMAIN c.notes = 1 .. Len(c.notes) /\ Len(c.notes) \in Nat
      /\ d.notes[Len(c.notes) + 1] = n /\ \A k \in 1 .. Len(c.notes) : d.notes[k] = c.notes[k]
  BY <1>1, <1>4, CaseFacts, Appended
<1>6. Reminders(d) = Reminders(c) \cup {Len(c.notes) + 1} /\ Len(c.notes) + 1 \notin Reminders(c)
  BY <1>1, <1>5 DEF Reminders
<1>7. \A k \in DOMAIN d.notes : k \in DOMAIN c.notes \/ (k = Len(c.notes) + 1 /\ d.notes[k] = n)
  BY <1>5
<1>0. c.notes # <<>> /\ ((c.severity = c.notes[1].severity) <=> \A k \in DOMAIN c.notes : c.notes[k].intent # "ESCALATION")
  BY DEF CaseSound
<1>a. 1 \in DOMAIN c.notes /\ Len(c.notes) # 0
  BY <1>0, <1>1, CaseFacts
<1>8. \A k \in DOMAIN d.notes : d.notes[k].ordinal = k - 1 /\ (d.notes[k].intent = "OPENED" <=> k = 1)
  <2>1. \A k \in DOMAIN c.notes : c.notes[k].ordinal = k - 1 /\ (c.notes[k].intent = "OPENED" <=> k = 1)
    BY DEF CaseSound
  <2> QED
    BY <1>1, <1>5, <1>7, <1>a, <2>1
<1>9. \A k, l \in DOMAIN d.notes : d.notes[k].intent = "ESCALATION" /\ d.notes[l].intent = "ESCALATION" => k = l
  <2>1. \A k, l \in DOMAIN c.notes : c.notes[k].intent = "ESCALATION" /\ c.notes[l].intent = "ESCALATION" => k = l
    BY DEF CaseSound
  <2> QED
    BY <1>1, <1>5, <1>7, <2>1
<1>10. d.notes # <<>> /\ d.notes[1] = c.notes[1]
  BY <1>5, <1>a
<1>11. d.notes[1].severity = "CRITICAL" => d.severity = "CRITICAL"
  BY <1>0, <1>4, <1>10 DEF CaseSound
<1>12. (d.severity = d.notes[1].severity) <=> \A k \in DOMAIN d.notes : d.notes[k].intent # "ESCALATION"
  BY <1>0, <1>1, <1>4, <1>5, <1>7, <1>10
<1>13. Cardinality(Reminders(d)) = d.reminders /\ d.reminders <= MaxReminders
  <2>1. IsFiniteSet(Reminders(c))
    <3>1. Reminders(c) \subseteq 1 .. Len(c.notes)
      BY <1>5 DEF Reminders
    <3>2. IsFiniteSet(1 .. Len(c.notes))
      BY <1>5, FS_Interval
    <3> QED
      BY <3>1, <3>2, FS_Subset
  <2>2. Cardinality(Reminders(d)) = Cardinality(Reminders(c)) + 1
    BY <1>6, <2>1, FS_AddElement
  <2>3. Cardinality(Reminders(c)) = c.reminders /\ c.reminders \in Nat /\ MaxReminders \in Nat
    BY <1>1, CaseFacts, Bounds DEF CaseSound
  <2> QED
    BY <1>4, <2>2, <2>3
<1>14. CaseSound(d)
  BY <1>4, <1>8, <1>9, <1>10, <1>11, <1>12, <1>13 DEF CaseSound
<1> QED
  BY <1>1, <1>3, <1>14 DEF d

\* An attempt or its result: the notification is the same one.
LEMMA DeliverySound ==
  ASSUME NEW c, CaseSound(c), NEW k \in DOMAIN c.notes, NEW m \in Note,
         m.intent = c.notes[k].intent, m.ordinal = c.notes[k].ordinal, m.severity = c.notes[k].severity
  PROVE  /\ CaseSound([c EXCEPT !.notes[k] = m])
         /\ [c EXCEPT !.notes[k] = m].notes = [c.notes EXCEPT ![k] = m]
         /\ [[c EXCEPT !.notes[k] = m] EXCEPT !.notes = c.notes, !.pending = c.pending] = c
<1> DEFINE d == [c EXCEPT !.notes[k] = m]
<1>1. c \in CaseView
  BY DEF CaseSound
<1>2. c.notes \in Seq(Note) /\ DOMAIN c.notes = 1 .. Len(c.notes)
  BY <1>1, CaseFacts
<1>3. [c.notes EXCEPT ![k] = m] \in Seq(Note) /\ DOMAIN [c.notes EXCEPT ![k] = m] = DOMAIN c.notes
  BY <1>2
<1>4. d \in CaseView /\ d.notes = [c.notes EXCEPT ![k] = m] /\ d.pending = c.pending /\ d.severity = c.severity
      /\ d.reminders = c.reminders
  BY <1>1, <1>3 DEF CaseView
<1>5. [d EXCEPT !.notes = c.notes, !.pending = c.pending] = c
  BY <1>1 DEF CaseView
<1> HIDE DEF d
<1>6. \A l \in DOMAIN c.notes : /\ d.notes[l].intent = c.notes[l].intent /\ d.notes[l].ordinal = c.notes[l].ordinal
                                /\ d.notes[l].severity = c.notes[l].severity
  BY <1>4
<1>7. DOMAIN d.notes = DOMAIN c.notes /\ Len(d.notes) = Len(c.notes) /\ d.notes # <<>> /\ c.notes # <<>> /\ 1 \in DOMAIN c.notes
  BY <1>2, <1>3, <1>4
<1>8. Reminders(d) = Reminders(c)
  BY <1>6, <1>7 DEF Reminders
<1> QED
  BY <1>4, <1>5, <1>6, <1>7, <1>8 DEF CaseSound, d

-----------------------------------------------------------------------------
(* A list of cases, one of them changed or one more.                       *)

LEMMA SoundFacts ==
  ASSUME NEW s, NEW cs, Sound(s, cs)
  PROVE  /\ cs \in Seq(CaseView) /\ DOMAIN cs = 1 .. Len(cs) /\ Len(cs) \in Nat
         /\ \A i \in 1 .. Len(cs) : cs[i] \in CaseView /\ CaseSound(cs[i]) /\ PlaceIn(cs, IdOf(cs[i])) = i
<1>1. cs \in Seq(CaseView)
  BY DEF Sound
<1>2. DOMAIN cs = 1 .. Len(cs) /\ Len(cs) \in Nat
  BY <1>1
<1>3. ASSUME NEW i \in 1 .. Len(cs) PROVE PlaceIn(cs, IdOf(cs[i])) = i
  <2>1. \A k \in DOMAIN cs : IdOf(cs[k]) = IdOf(cs[i]) => k = i
    BY <1>2 DEF Sound, OnceSound
  <2> QED
    BY <1>2, <2>1 DEF PlaceIn
<1> QED
  BY <1>1, <1>2, <1>3 DEF Sound, CaseSound

LEMMA IdFacts ==
  ASSUME NEW c, NEW d
  PROVE  IdOf(c) = IdOf(d) <=> c.kind = d.kind /\ c.subject = d.subject /\ c.born = d.born
<1>1. ASSUME IdOf(c) = IdOf(d) PROVE c.kind = d.kind /\ c.subject = d.subject /\ c.born = d.born
  <2>1. IdOf(c).kind = c.kind /\ IdOf(d).kind = d.kind /\ IdOf(c).subject = c.subject /\ IdOf(d).subject = d.subject
        /\ IdOf(c).born = IdOf(c).born /\ IdOf(c).key = c.born /\ IdOf(d).key = d.born
    BY DEF IdOf
  <2> QED
    BY <1>1, <2>1
<1> QED
  BY <1>1 DEF IdOf

LEMMA NotAfterOnward ==
  ASSUME NEW kind, NEW k1 \in Key, NEW k2 \in Key, NEW k3 \in Key, NotAfter(kind, k1, k2), NotAfter(kind, k2, k3)
  PROVE  NotAfter(kind, k1, k3)
<1>1. k1.at \in Nat /\ k2.at \in Nat /\ k3.at \in Nat
  BY DEF Key
<1> QED
  BY <1>1 DEF NotAfter

LEMMA ChangeSound ==
  ASSUME NEW s, NEW cs, Sound(s, cs), NEW i \in DOMAIN cs, NEW d, CaseSound(d), IdOf(d) = IdOf(cs[i]),
         cs[i].human = "RESOLVED" => d.human = "RESOLVED",
         d.key # cs[i].key =>
           /\ Shaped(d.kind, d.subject, d.key) /\ Reached(s, d.kind, d.subject, d.key)
           /\ NotAfter(d.kind, d.born, d.key)
           /\ \A j \in DOMAIN cs : j > i => ~SameSubject(cs[j], d)
           /\ Occupied(s, d) => d.key = d.born
  PROVE  Sound(s, [cs EXCEPT ![i] = d])
<1> DEFINE c == cs[i]
           ds == [cs EXCEPT ![i] = d]
<1>1. cs \in Seq(CaseView) /\ d \in CaseView /\ i \in 1 .. Len(cs) /\ DOMAIN cs = 1 .. Len(cs) /\ Len(cs) \in Nat
  BY SoundFacts DEF CaseSound
<1>2. ds \in Seq(CaseView) /\ DOMAIN ds = DOMAIN cs
  BY <1>1
<1>3. ds[i] = d /\ \A j \in DOMAIN cs : j # i => ds[j] = cs[j]
  OBVIOUS
<1>4. d.kind = c.kind /\ d.subject = c.subject /\ d.born = c.born
  BY IdFacts
<1>5. \A j \in DOMAIN cs : /\ ds[j].kind = cs[j].kind /\ ds[j].subject = cs[j].subject /\ ds[j].born = cs[j].born
                           /\ IdOf(ds[j]) = IdOf(cs[j])
  BY <1>3, <1>4
<1> HIDE DEF ds
<1>6. \A j, k \in DOMAIN cs : SameSubject(ds[j], ds[k]) <=> SameSubject(cs[j], cs[k])
  BY <1>5 DEF SameSubject
<1>7. \A j \in DOMAIN ds : CaseSound(ds[j])
  BY <1>2, <1>3 DEF Sound
<1>8. EvidenceSound(s, ds)
  <2>1. EvidenceSound(s, cs)
    BY DEF Sound
  <2>2. ASSUME NEW j \in DOMAIN ds
        PROVE  /\ Shaped(ds[j].kind, ds[j].subject, ds[j].born) /\ Shaped(ds[j].kind, ds[j].subject, ds[j].key)
               /\ NotAfter(ds[j].kind, ds[j].born, ds[j].key)
               /\ Reached(s, ds[j].kind, ds[j].subject, ds[j].born) /\ Reached(s, ds[j].kind, ds[j].subject, ds[j].key)
    <3>1. j \in DOMAIN cs
      BY <1>2
    <3>2. CASE j # i
      BY <1>3, <2>1, <3>1, <3>2 DEF EvidenceSound
    <3>3. CASE j = i
      BY <1>3, <1>4, <2>1, <3>1, <3>3 DEF EvidenceSound
    <3> QED
      BY <3>2, <3>3
  <2>3. ASSUME NEW j \in DOMAIN ds, NEW k \in DOMAIN ds, j < k, SameSubject(ds[j], ds[k])
        PROVE  NotAfter(ds[j].kind, ds[j].key, ds[k].born)
    <3>1. j \in DOMAIN cs /\ k \in DOMAIN cs /\ SameSubject(cs[j], cs[k])
      BY <1>2, <1>6, <2>3
    <3>2. NotAfter(cs[j].kind, cs[j].key, cs[k].born)
      BY <2>1, <2>3, <3>1 DEF EvidenceSound
    <3>3. ds[j].key = cs[j].key
      <4>1. CASE j # i
        BY <1>3, <3>1, <4>1
      <4>2. CASE j = i
        <5>1. k > i /\ SameSubject(cs[k], d)
          BY <1>1, <1>4, <2>3, <3>1, <4>2 DEF SameSubject
        <5>2. d.key = c.key
          BY <3>1, <5>1
        <5> QED
          BY <1>3, <4>2, <5>2
      <4> QED
        BY <4>1, <4>2
    <3> QED
      BY <1>5, <3>1, <3>2, <3>3
  <2> QED
    BY <2>2, <2>3 DEF EvidenceSound
<1>9. OccupiedSound(s, ds)
  <2>1. SUFFICES ASSUME NEW j \in DOMAIN ds, Occupied(s, ds[j])
                 PROVE  ds[j].key = ds[j].born /\ \A k \in DOMAIN ds : SameSubject(ds[j], ds[k]) => k <= j
    BY DEF OccupiedSound
  <2>2. j \in DOMAIN cs /\ Occupied(s, cs[j])
    BY <1>2, <1>5, <2>1 DEF Occupied
  <2>3. cs[j].key = cs[j].born /\ \A k \in DOMAIN cs : SameSubject(cs[j], cs[k]) => k <= j
    BY <2>2 DEF Sound, OccupiedSound
  <2>4. ds[j].key = ds[j].born
    BY <1>3, <1>4, <2>1, <2>2, <2>3
  <2> QED
    BY <1>2, <1>6, <2>2, <2>3, <2>4
<1>10. OnceSound(ds)
  <2>1. OnceSound(cs)
    BY DEF Sound
  <2>2. \A j \in DOMAIN cs : cs[j].human = "RESOLVED" => ds[j].human = "RESOLVED"
    BY <1>3
  <2> QED
    BY <1>2, <1>5, <1>6, <2>1, <2>2 DEF OnceSound
<1> QED
  BY <1>2, <1>7, <1>8, <1>9, <1>10 DEF Sound, ds

\* The opening of a case for new evidence, when no case of its subject waits for a human.
LEMMA AddSound ==
  ASSUME NEW s, EdgeInv(s), NEW cs, Sound(s, cs), NEW item \in Observe(s), NEW d, CaseSound(d),
         d.kind = item.kind, d.subject = item.subject, d.born = item.key, d.key = item.key,
         \A i \in DOMAIN cs : SameSubject(cs[i], item) => cs[i].human = "RESOLVED" /\ cs[i].born # item.key
  PROVE  Sound(s, Append(cs, d))
<1> DEFINE n == Len(cs) + 1
           ds == Append(cs, d)
<1>1. cs \in Seq(CaseView) /\ d \in CaseView /\ DOMAIN cs = 1 .. Len(cs) /\ Len(cs) \in Nat
  BY SoundFacts DEF CaseSound
<1>2. /\ ds \in Seq(CaseView) /\ DOMAIN ds = 1 .. n /\ ds[n] = d
      /\ \A j \in DOMAIN cs : ds[j] = cs[j] /\ j \in DOMAIN ds /\ j < n
      /\ \A j \in DOMAIN ds : j \in DOMAIN cs \/ j = n
      /\ \A j \in DOMAIN ds : j < n => j \in DOMAIN cs
  BY <1>1, Appended
<1> HIDE DEF ds
<1>3. /\ Shaped(d.kind, d.subject, d.key) /\ Reached(s, d.kind, d.subject, d.key)
      /\ \A key : Shaped(d.kind, d.subject, key) /\ Reached(s, d.kind, d.subject, key) => NotAfter(d.kind, key, d.key)
      /\ d.kind = "DEVICE_UNREACHABLE" => d.key = [at |-> s.device[d.subject].episode, with |-> OpenTaskOf(s, d.subject)]
  BY ItemFacts
<1>4. \A i \in DOMAIN cs : SameSubject(cs[i], d) => cs[i].human = "RESOLVED" /\ cs[i].born # d.born
  BY DEF SameSubject
<1>5. \A i \in DOMAIN cs : /\ Shaped(cs[i].kind, cs[i].subject, cs[i].born) /\ Shaped(cs[i].kind, cs[i].subject, cs[i].key)
                           /\ NotAfter(cs[i].kind, cs[i].born, cs[i].key)
                           /\ Reached(s, cs[i].kind, cs[i].subject, cs[i].born)
                           /\ Reached(s, cs[i].kind, cs[i].subject, cs[i].key)
  BY DEF Sound, EvidenceSound
<1>6. \A i \in DOMAIN cs : SameSubject(cs[i], d) => NotAfter(cs[i].kind, cs[i].key, d.born)
  BY <1>3, <1>5 DEF SameSubject
<1>7. \A j \in DOMAIN ds : CaseSound(ds[j])
  BY <1>2 DEF Sound
<1>8. EvidenceSound(s, ds)
  <2>1. ASSUME NEW j \in DOMAIN ds
        PROVE  /\ Shaped(ds[j].kind, ds[j].subject, ds[j].born) /\ Shaped(ds[j].kind, ds[j].subject, ds[j].key)
               /\ NotAfter(ds[j].kind, ds[j].born, ds[j].key)
               /\ Reached(s, ds[j].kind, ds[j].subject, ds[j].born) /\ Reached(s, ds[j].kind, ds[j].subject, ds[j].key)
    BY <1>2, <1>3, <1>5
  <2>2. ASSUME NEW j \in DOMAIN ds, NEW k \in DOMAIN ds, j < k, SameSubject(ds[j], ds[k])
        PROVE  NotAfter(ds[j].kind, ds[j].key, ds[k].born)
    <3>1. j \in DOMAIN cs
      BY <1>1, <1>2, <2>2
    <3>2. CASE k = n
      BY <1>2, <1>6, <2>2, <3>1, <3>2
    <3>3. CASE k \in DOMAIN cs
      BY <1>2, <2>2, <3>1, <3>3 DEF Sound, EvidenceSound
    <3> QED
      BY <1>2, <3>2, <3>3
  <2> QED
    BY <2>1, <2>2 DEF EvidenceSound
<1>9. ASSUME NEW i \in DOMAIN cs, SameSubject(cs[i], d), Occupied(s, cs[i]) PROVE FALSE
  <2>1. PICK t \in cs[i].born.with : TaskOpen(s, t)
    BY <1>9 DEF Occupied
  <2>2. cs[i].kind = "DEVICE_UNREACHABLE" /\ cs[i].kind = d.kind /\ cs[i].subject = d.subject
        /\ cs[i].born.at = s.device[d.subject].episode
    BY <1>9 DEF Occupied, SameSubject
  <2>3. PICK u \in Tasks : cs[i].born.with = {u} /\ RobotOf[u] = d.subject
    BY <1>5, <2>1, <2>2 DEF Shaped
  <2>4. OpenTaskOf(s, d.subject) = cs[i].born.with
    <3>1. t = u /\ u \in OpenTaskOf(s, d.subject)
      BY <2>1, <2>3 DEF OpenTaskOf
    <3> QED
      BY <2>3, <3>1, OneOpenTask
  <2>5. cs[i].born = [at |-> cs[i].born.at, with |-> cs[i].born.with]
    BY <1>1, CaseFacts DEF Key
  <2> QED
    BY <1>3, <1>4, <1>9, <2>2, <2>4, <2>5
<1>10. OccupiedSound(s, ds)
  <2>1. SUFFICES ASSUME NEW j \in DOMAIN ds, Occupied(s, ds[j])
                 PROVE  ds[j].key = ds[j].born /\ \A k \in DOMAIN ds : SameSubject(ds[j], ds[k]) => k <= j
    BY DEF OccupiedSound
  <2>2. CASE j = n
    BY <1>1, <1>2, <2>2
  <2>3. CASE j \in DOMAIN cs
    <3>1. Occupied(s, cs[j]) /\ ~SameSubject(cs[j], d)
      BY <1>2, <1>9, <2>1, <2>3
    <3>2. cs[j].key = cs[j].born /\ \A k \in DOMAIN cs : SameSubject(cs[j], cs[k]) => k <= j
      BY <2>3, <3>1 DEF Sound, OccupiedSound
    <3> QED
      BY <1>2, <2>3, <3>1, <3>2
  <2> QED
    BY <1>2, <2>2, <2>3
<1>11. OnceSound(ds)
  <2>1. OnceSound(cs)
    BY DEF Sound
  <2>2. \A i \in DOMAIN cs : IdOf(cs[i]) # IdOf(d)
    BY <1>4, IdFacts DEF SameSubject
  <2>3. \A i, j \in DOMAIN ds : IdOf(ds[i]) = IdOf(ds[j]) => i = j
    BY <1>2, <2>1, <2>2 DEF OnceSound
  <2>4. \A i, j \in DOMAIN ds : i < j /\ SameSubject(ds[i], ds[j]) => ds[i].human = "RESOLVED"
    <3> SUFFICES ASSUME NEW i \in DOMAIN ds, NEW j \in DOMAIN ds, i < j, SameSubject(ds[i], ds[j])
                 PROVE  ds[i].human = "RESOLVED"
      OBVIOUS
    <3>1. i \in DOMAIN cs
      BY <1>1, <1>2
    <3>2. CASE j = n
      BY <1>2, <1>4, <3>1, <3>2
    <3>3. CASE j \in DOMAIN cs
      BY <1>2, <2>1, <3>1, <3>3 DEF OnceSound
    <3> QED
      BY <1>2, <3>2, <3>3
  <2> QED
    BY <2>3, <2>4 DEF OnceSound
<1> QED
  BY <1>2, <1>7, <1>8, <1>10, <1>11 DEF Sound, ds

\* A case that is or was about this evidence: the last case of its subject was closed on this evidence.
LEMMA SeenBefore ==
  ASSUME NEW s, EdgeInv(s), NEW cs, Sound(s, cs), NEW item \in Observe(s),
         NEW i \in DOMAIN cs, SameSubject(cs[i], item), cs[i].born = item.key,
         NEW last \in DOMAIN cs, SameSubject(cs[last], item), \A j \in DOMAIN cs : SameSubject(cs[j], item) => j <= last
  PROVE  SameEvidence(cs[last], item)
<1> DEFINE L == cs[last]
<1>1. cs \in Seq(CaseView) /\ DOMAIN cs = 1 .. Len(cs) /\ Len(cs) \in Nat
  BY SoundFacts
<1>2. cs[i] \in CaseView /\ L \in CaseView
  BY <1>1
<1>3. cs[i].kind = item.kind /\ cs[i].subject = item.subject /\ L.kind = item.kind /\ L.subject = item.subject
  BY DEF SameSubject
<1>4. item.key \in Key /\ L.key \in Key /\ L.born \in Key /\ cs[i].key \in Key
  BY <1>2, CaseFacts, ItemFacts DEF Shaped
<1>5. NotAfter(item.kind, L.key, item.key)
  <2>1. Shaped(L.kind, L.subject, L.key) /\ Reached(s, L.kind, L.subject, L.key)
    BY DEF Sound, EvidenceSound
  <2> QED
    BY <1>3, <2>1, ItemFacts
<1>6. NotAfter(item.kind, item.key, L.key)
  <2>1. NotAfter(cs[i].kind, cs[i].born, cs[i].key) /\ NotAfter(L.kind, L.born, L.key)
    BY DEF Sound, EvidenceSound
  <2>2. CASE i = last
    BY <1>3, <2>1, <2>2
  <2>3. CASE i # last
    <3>1. i < last /\ SameSubject(cs[i], L)
      BY <1>1, <2>3 DEF SameSubject
    <3>2. NotAfter(cs[i].kind, cs[i].key, L.born)
      BY <3>1 DEF Sound, EvidenceSound
    <3>3. NotAfter(item.kind, item.key, L.born)
      BY <1>3, <1>4, <2>1, <3>2, NotAfterOnward
    <3> QED
      BY <1>3, <1>4, <2>1, <3>3, NotAfterOnward
  <2> QED
    BY <2>2, <2>3
<1>7. L.key.at = item.key.at
  BY <1>4, <1>5, <1>6 DEF NotAfter, Key
<1>8. L.key = [at |-> L.key.at, with |-> L.key.with] /\ item.key = [at |-> item.key.at, with |-> item.key.with]
  BY <1>4 DEF Key
<1>9. Shaped(item.kind, item.subject, L.key) /\ Shaped(item.kind, item.subject, item.key)
  BY <1>3, ItemFacts DEF Sound, EvidenceSound
<1>10. CASE item.kind = "DEVICE_UNREACHABLE"
  <2>1. CASE item.key.with = {}
    BY <1>7, <1>10, <2>1 DEF SameEvidence
  <2>2. CASE item.key.with # {}
    <3>1. item.key = [at |-> s.device[item.subject].episode, with |-> OpenTaskOf(s, item.subject)]
      BY <1>10, ItemFacts
    <3>2. \E t \in item.key.with : TaskOpen(s, t)
      BY <2>2, <3>1 DEF OpenTaskOf
    <3>3. Occupied(s, cs[i])
      BY <1>3, <1>10, <3>1, <3>2 DEF Occupied
    <3>4. cs[i].key = cs[i].born /\ \A j \in DOMAIN cs : SameSubject(cs[i], cs[j]) => j <= i
      BY <3>3 DEF Sound, OccupiedSound
    <3>5. last = i
      <4>1. last <= i /\ i <= last
        BY <1>3, <3>4 DEF SameSubject
      <4> QED
        BY <1>1, <4>1
    <3> QED
      BY <1>7, <1>10, <3>4, <3>5 DEF SameEvidence
  <2> QED
    BY <2>1, <2>2
<1>11. CASE item.kind = "EVIDENCE_CONFLICT"
  <2>1. L.key.with = item.key.with
    BY <1>5, <1>6, <1>11 DEF NotAfter
  <2> QED
    BY <1>7, <1>8, <1>11, <2>1 DEF SameEvidence
<1>12. CASE item.kind = "RESULT_UNCONFIRMED"
  <2>1. L.key.with = item.key.with
    BY <1>5, <1>6, <1>9, <1>12 DEF NotAfter, Shaped
  <2> QED
    BY <1>7, <1>8, <1>12, <2>1 DEF SameEvidence
<1>13. CASE item.kind = "ASSISTANCE_REQUIRED"
  <2>1. L.key.with = item.key.with
    BY <1>9, <1>13 DEF Shaped
  <2> QED
    BY <1>7, <1>8, <1>13, <2>1 DEF SameEvidence
<1> QED
  BY <1>10, <1>11, <1>12, <1>13, ItemFacts DEF Kinds

-----------------------------------------------------------------------------
(* One line, for a case that is there.                                     *)

LEMMA GrowsAtOne ==
  ASSUME NEW cs \in Seq(CaseView), NEW i \in DOMAIN cs, NEW d \in CaseView, CaseGrows(cs[i], d)
  PROVE  Grows(cs, [cs EXCEPT ![i] = d])
<1> DEFINE ds == [cs EXCEPT ![i] = d]
<1>1. ds[i] = d /\ (\A j \in DOMAIN cs : j # i => ds[j] = cs[j]) /\ Len(ds) = Len(cs) /\ DOMAIN cs = 1 .. Len(cs) /\ Len(cs) \in Nat
      /\ \A j \in 1 .. Len(cs) : cs[j] \in CaseView
  OBVIOUS
<1> HIDE DEF ds
<1>2. ASSUME NEW c \in CaseView PROVE CaseGrows(c, c)
  <2>1. [c EXCEPT !.notes = c.notes, !.pending = c.pending] = c
    BY DEF CaseView
  <2>2. Len(c.notes) \in Nat
    BY CaseFacts
  <2> QED
    BY <2>1, <2>2 DEF CaseGrows, NoteKept, FinalKept
<1>3. \A j \in 1 .. Len(cs) : CaseGrows(cs[j], ds[j])
  BY <1>1, <1>2
<1> QED
  BY <1>1, <1>3 DEF Grows, ds

\* A line that is about the case at place i.
LEMMA LineStep ==
  ASSUME NEW s, NEW cs, Sound(s, cs), NEW i \in DOMAIN cs, NEW l,
         l.line \notin {"opened", "attempted", "result", "exhausted"}, l.case = IdOf(cs[i]),
         NEW d, d = WithLine(cs[i], l), CaseSound(d), CaseGrows(cs[i], d),
         cs[i].human = "RESOLVED" => d.human = "RESOLVED",
         d.key # cs[i].key =>
           /\ Shaped(d.kind, d.subject, d.key) /\ Reached(s, d.kind, d.subject, d.key)
           /\ NotAfter(d.kind, d.born, d.key)
           /\ \A j \in DOMAIN cs : j > i => ~SameSubject(cs[j], d)
           /\ Occupied(s, d) => d.key = d.born
  PROVE  Step(s, cs, l, [cs EXCEPT ![i] = d])
<1>1. PlaceIn(cs, l.case) = i /\ cs \in Seq(CaseView) /\ d \in CaseView
  BY SoundFacts DEF CaseSound
<1>2. After(cs, l) = [cs EXCEPT ![i] = d]
  BY <1>1 DEF After
<1>3. Sound(s, [cs EXCEPT ![i] = d])
  BY ChangeSound DEF CaseGrows
<1>4. Grows(cs, [cs EXCEPT ![i] = d])
  BY <1>1, GrowsAtOne
<1> QED
  BY <1>2, <1>3, <1>4 DEF Step

\* The same, for a case that is not closed and keeps its notifications.
LEMMA QuietStep ==
  ASSUME NEW s, NEW cs, Sound(s, cs), NEW i \in DOMAIN cs, NEW l,
         l.line \notin {"opened", "attempted", "result", "exhausted"}, l.case = IdOf(cs[i]),
         NEW d, d = WithLine(cs[i], l), CaseSound(d), IdOf(d) = IdOf(cs[i]), d.notes = cs[i].notes,
         cs[i].human # "RESOLVED",
         d.key # cs[i].key =>
           /\ Shaped(d.kind, d.subject, d.key) /\ Reached(s, d.kind, d.subject, d.key)
           /\ NotAfter(d.kind, d.born, d.key)
           /\ \A j \in DOMAIN cs : j > i => ~SameSubject(cs[j], d)
           /\ Occupied(s, d) => d.key = d.born
  PROVE  Step(s, cs, l, [cs EXCEPT ![i] = d])
<1>1. cs[i] \in CaseView
  BY SoundFacts
<1>2. CaseGrows(cs[i], d)
  <2>1. Len(cs[i].notes) \in Nat
    BY <1>1, CaseFacts
  <2> QED
    BY <2>1 DEF CaseGrows, NoteKept
<1> QED
  BY <1>2, LineStep

\* Evidence that is supported now may become the evidence of an unresolved case.
LEMMA KeyMoves ==
  ASSUME NEW s, EdgeInv(s), NEW cs, Sound(s, cs), NEW i \in DOMAIN cs, cs[i].human # "RESOLVED",
         NEW item \in Observe(s), SameSubject(cs[i], item)
  PROVE  /\ item.key \in Key
         /\ Shaped(cs[i].kind, cs[i].subject, item.key) /\ Reached(s, cs[i].kind, cs[i].subject, item.key)
         /\ NotAfter(cs[i].kind, cs[i].born, item.key)
         /\ \A j \in DOMAIN cs : j > i => ~SameSubject(cs[j], cs[i])
         /\ Occupied(s, cs[i]) => item.key = cs[i].born
<1> DEFINE c == cs[i]
<1>1. c \in CaseView /\ c.kind = item.kind /\ c.subject = item.subject
  BY SoundFacts DEF SameSubject
<1>2. /\ Shaped(c.kind, c.subject, item.key) /\ Reached(s, c.kind, c.subject, item.key)
      /\ \A key : Shaped(c.kind, c.subject, key) /\ Reached(s, c.kind, c.subject, key) => NotAfter(c.kind, key, item.key)
      /\ c.kind = "DEVICE_UNREACHABLE" => item.key = [at |-> s.device[c.subject].episode, with |-> OpenTaskOf(s, c.subject)]
  BY <1>1, ItemFacts
<1>3. Shaped(c.kind, c.subject, c.born) /\ Reached(s, c.kind, c.subject, c.born)
  BY DEF Sound, EvidenceSound
<1>4. \A j \in DOMAIN cs : j > i => ~SameSubject(cs[j], c)
  <2>1. SUFFICES ASSUME NEW j \in DOMAIN cs, j > i, SameSubject(cs[j], c) PROVE FALSE
    OBVIOUS
  <2>2. i < j
    BY <2>1, SoundFacts
  <2> QED
    BY <2>1, <2>2 DEF Sound, OnceSound, SameSubject
<1>5. ASSUME Occupied(s, c) PROVE item.key = c.born
  <2>1. PICK t \in c.born.with : TaskOpen(s, t)
    BY <1>5 DEF Occupied
  <2>2. c.kind = "DEVICE_UNREACHABLE" /\ c.born.at = s.device[c.subject].episode
    BY <1>5 DEF Occupied
  <2>3. PICK u \in Tasks : c.born.with = {u} /\ RobotOf[u] = c.subject
    BY <1>3, <2>1, <2>2 DEF Shaped
  <2>4. OpenTaskOf(s, c.subject) = c.born.with
    <3>1. t = u /\ u \in OpenTaskOf(s, c.subject)
      BY <2>1, <2>3 DEF OpenTaskOf
    <3> QED
      BY <2>3, <3>1, OneOpenTask
  <2>5. c.born = [at |-> c.born.at, with |-> c.born.with]
    BY <1>1, CaseFacts DEF Key
  <2> QED
    BY <1>2, <2>2, <2>4, <2>5
<1> QED
  BY <1>2, <1>3, <1>4, <1>5 DEF Shaped

LEMMA IntentionStep ==
  ASSUME NEW s, NEW cs, Sound(s, cs), NEW i \in DOMAIN cs, NEW n \in cs[i].pending
  PROVE  /\ Intended(IdOf(cs[i]), n) \in Lines
         /\ Step(s, cs, Intended(IdOf(cs[i]), n), [cs EXCEPT ![i] = [cs[i] EXCEPT !.notes = Append(cs[i].notes, n), !.pending = {}]])
<1> DEFINE c == cs[i]
           l == Intended(IdOf(c), n)
           d == [c EXCEPT !.notes = Append(c.notes, n), !.pending = {}]
<1>1. c \in CaseView /\ CaseSound(c) /\ n \in Note
  BY SoundFacts, CaseFacts
<1>2. CaseSound(d) /\ d = WithLine(c, l)
  <2>1. c.pending = cs[i].pending /\ n \in c.pending
    OBVIOUS
  <2> HIDE DEF c
  <2>2. /\ CaseSound(WithLine(c, Intended(IdOf(c), n)))
        /\ WithLine(c, Intended(IdOf(c), n)) = [c EXCEPT !.notes = Append(c.notes, n), !.pending = {}]
    BY <1>1, <2>1, IntentionSound
  <2> QED
    BY <2>2
<1>3. l.line = "intended" /\ l.case = IdOf(c) /\ l \in Lines
  BY <1>1, CaseFacts DEF Intended, Lines, CaseId, IdOf
<1>4. d.notes = Append(c.notes, n) /\ d.key = c.key /\ d.human = c.human /\ IdOf(d) = IdOf(c)
      /\ [d EXCEPT !.notes = c.notes, !.pending = c.pending] = c
  BY <1>1 DEF CaseView, IdOf
<1>5. /\ Len(d.notes) = Len(c.notes) + 1 /\ Len(c.notes) \in Nat /\ d.notes[Len(c.notes) + 1] = n
      /\ \A k \in 1 .. Len(c.notes) : d.notes[k] = c.notes[k]
  BY <1>1, <1>4, CaseFacts, Appended
<1>6. Unused(n)
  <2>1. c.pending = {} \/ c.pending = {NewNote("OPENED", 0, c.severity)} \/ c.pending = {NewNote("ESCALATION", Len(c.notes), c.severity)}
    BY <1>1 DEF CaseSound
  <2> QED
    BY <2>1 DEF NewNote, Unused
<1> HIDE DEF d, l
<1>7. CaseGrows(c, d)
  <2>1. FinalKept(c, d)
    BY <1>4 DEF FinalKept
  <2> QED
    BY <1>4, <1>5, <1>6, <2>1 DEF CaseGrows, NoteKept
<1>8. Step(s, cs, l, [cs EXCEPT ![i] = d])
  BY <1>2, <1>3, <1>4, <1>7, LineStep
<1> QED
  BY <1>3, <1>8 DEF d, l

LEMMA ReminderStep ==
  ASSUME NEW s, NEW cs, Sound(s, cs), NEW i \in DOMAIN cs, cs[i].pending = {}, cs[i].human # "RESOLVED",
         cs[i].reminders < MaxReminders, NEW n, n = NewNote("REMINDER", Len(cs[i].notes), cs[i].severity)
  PROVE  /\ Intended(IdOf(cs[i]), n) \in Lines
         /\ Step(s, cs, Intended(IdOf(cs[i]), n),
                 [cs EXCEPT ![i] = [cs[i] EXCEPT !.notes = Append(cs[i].notes, n), !.pending = {}, !.reminders = @ + 1]])
<1> DEFINE c == cs[i]
           l == Intended(IdOf(c), n)
           d == [c EXCEPT !.notes = Append(c.notes, n), !.pending = {}, !.reminders = @ + 1]
<1>1. c \in CaseView /\ CaseSound(c)
  BY SoundFacts
<1>2. CaseSound(d) /\ d = WithLine(c, l) /\ n \in Note
  BY <1>1, ReminderSound
<1>3. l.line = "intended" /\ l.case = IdOf(c) /\ l \in Lines
  BY <1>1, <1>2, CaseFacts DEF Intended, Lines, CaseId, IdOf
<1>4. d.notes = Append(c.notes, n) /\ d.key = c.key /\ d.human = c.human /\ IdOf(d) = IdOf(c)
  BY <1>1 DEF CaseView, IdOf
<1>5. /\ Len(d.notes) = Len(c.notes) + 1 /\ Len(c.notes) \in Nat /\ d.notes[Len(c.notes) + 1] = n
      /\ \A k \in 1 .. Len(c.notes) : d.notes[k] = c.notes[k]
  BY <1>1, <1>2, <1>4, CaseFacts, Appended
<1>6. Unused(n)
  BY DEF NewNote, Unused
<1> HIDE DEF d, l
<1>7. CaseGrows(c, d)
  BY <1>4, <1>5, <1>6 DEF CaseGrows, NoteKept
<1>8. Step(s, cs, l, [cs EXCEPT ![i] = d])
  BY <1>2, <1>3, <1>4, <1>7, LineStep
<1> QED
  BY <1>3, <1>8 DEF d, l

\* The other lines about a case, without evidence.
LEMMA AboutStep ==
  ASSUME NEW s, NEW cs, Sound(s, cs), NEW i \in DOMAIN cs, cs[i].human # "RESOLVED",
         NEW what \in {"condition_cleared", "reminders_exhausted", "acknowledged", "resolved"}
  PROVE  /\ About(what, IdOf(cs[i])) \in Lines
         /\ Step(s, cs, About(what, IdOf(cs[i])), [cs EXCEPT ![i] = WithLine(cs[i], About(what, IdOf(cs[i])))])
         /\ WithLine(cs[i], About(what, IdOf(cs[i]))) =
              CASE what = "condition_cleared"   -> [cs[i] EXCEPT !.active = FALSE]
                [] what = "reminders_exhausted" -> [cs[i] EXCEPT !.quiet = TRUE]
                [] what = "acknowledged"        -> [cs[i] EXCEPT !.human = "ACKNOWLEDGED"]
                [] what = "resolved"            -> [cs[i] EXCEPT !.human = "RESOLVED"]
<1> DEFINE c == cs[i]
           l == About(what, IdOf(c))
           d == WithLine(c, l)
<1>1. c \in CaseView /\ CaseSound(c)
  BY SoundFacts
<1>2. l.line = what /\ l.case = IdOf(c) /\ l \in Lines
  BY <1>1, CaseFacts DEF About, Lines, CaseId, IdOf
<1>3. d = CASE what = "condition_cleared"   -> [c EXCEPT !.active = FALSE]
            [] what = "reminders_exhausted" -> [c EXCEPT !.quiet = TRUE]
            [] what = "acknowledged"        -> [c EXCEPT !.human = "ACKNOWLEDGED"]
            [] what = "resolved"            -> [c EXCEPT !.human = "RESOLVED"]
  BY <1>2 DEF WithLine
<1> HIDE DEF d, l
<1>4. /\ d \in CaseView /\ d.notes = c.notes /\ d.pending = c.pending /\ d.severity = c.severity /\ d.reminders = c.reminders
      /\ d.key = c.key /\ IdOf(d) = IdOf(c)
  <2>1. CASE what = "condition_cleared"
    BY <1>1, <1>3, <2>1 DEF CaseView, IdOf
  <2>2. CASE what = "reminders_exhausted"
    BY <1>1, <1>3, <2>2 DEF CaseView, IdOf
  <2>3. CASE what = "acknowledged"
    BY <1>1, <1>3, <2>3 DEF CaseView, IdOf
  <2>4. CASE what = "resolved"
    BY <1>1, <1>3, <2>4 DEF CaseView, IdOf
  <2> QED
    BY <2>1, <2>2, <2>3, <2>4
<1>5. CaseSound(d)
  BY <1>1, <1>4, QuietChange
<1>6. l.line \notin {"opened", "attempted", "result", "exhausted"}
  BY <1>2
<1>7. Step(s, cs, l, [cs EXCEPT ![i] = d])
  BY <1>2, <1>4, <1>5, <1>6, QuietStep DEF d
<1> QED
  BY <1>2, <1>3, <1>7 DEF d, l

\* New evidence for an unresolved case.
LEMMA EvidenceStep ==
  ASSUME NEW s, EdgeInv(s), NEW cs, Sound(s, cs), NEW i \in DOMAIN cs, cs[i].human # "RESOLVED",
         NEW item \in Observe(s), SameSubject(cs[i], item), NEW what \in {"evidence_added", "condition_returned"}
  PROVE  /\ Evidence(what, IdOf(cs[i]), item) \in Lines
         /\ Step(s, cs, Evidence(what, IdOf(cs[i]), item), [cs EXCEPT ![i] = WithLine(cs[i], Evidence(what, IdOf(cs[i]), item))])
         /\ WithLine(cs[i], Evidence(what, IdOf(cs[i]), item)) =
              IF what = "evidence_added" THEN [cs[i] EXCEPT !.key = item.key] ELSE [cs[i] EXCEPT !.active = TRUE, !.key = item.key]
<1> DEFINE c == cs[i]
           l == Evidence(what, IdOf(c), item)
           d == WithLine(c, l)
<1>1. c \in CaseView /\ CaseSound(c) /\ item.key \in Key /\ item.severity \in Severities
  BY SoundFacts, KeyMoves, ItemFacts
<1>2. l.line = what /\ l.case = IdOf(c) /\ l.key = item.key /\ l \in Lines
  BY <1>1, CaseFacts DEF Evidence, Lines, CaseId, IdOf
<1>3. d = IF what = "evidence_added" THEN [c EXCEPT !.key = item.key] ELSE [c EXCEPT !.active = TRUE, !.key = item.key]
  BY <1>2 DEF WithLine
<1> HIDE DEF d, l
<1>4. /\ d \in CaseView /\ d.notes = c.notes /\ d.pending = c.pending /\ d.severity = c.severity /\ d.reminders = c.reminders
      /\ d.key = item.key /\ d.kind = c.kind /\ d.subject = c.subject /\ d.born = c.born
  <2>1. CASE what = "evidence_added"
    BY <1>1, <1>3, <2>1 DEF CaseView
  <2>2. CASE what = "condition_returned"
    BY <1>1, <1>3, <2>2 DEF CaseView
  <2> QED
    BY <2>1, <2>2
<1>5. CaseSound(d) /\ IdOf(d) = IdOf(c)
  BY <1>1, <1>4, QuietChange, IdFacts
<1>6. l.line \notin {"opened", "attempted", "result", "exhausted"}
  BY <1>2
<1>7. /\ Shaped(d.kind, d.subject, d.key) /\ Reached(s, d.kind, d.subject, d.key)
      /\ NotAfter(d.kind, d.born, d.key)
      /\ \A j \in DOMAIN cs : j > i => ~SameSubject(cs[j], d)
      /\ Occupied(s, d) => d.key = d.born
  BY <1>4, KeyMoves DEF SameSubject, Occupied
<1>8. Step(s, cs, l, [cs EXCEPT ![i] = d])
  BY <1>2, <1>4, <1>5, <1>6, <1>7, QuietStep DEF d
<1> QED
  BY <1>2, <1>3, <1>8 DEF d, l

LEMMA EscalationStep ==
  ASSUME NEW s, EdgeInv(s), NEW cs, Sound(s, cs), NEW i \in DOMAIN cs, cs[i].human # "RESOLVED",
         NEW item \in Observe(s), SameSubject(cs[i], item), cs[i].pending = {}, cs[i].severity = "WARNING", item.severity = "CRITICAL"
  PROVE  /\ Evidence("escalated", IdOf(cs[i]), item) \in Lines
         /\ Step(s, cs, Evidence("escalated", IdOf(cs[i]), item),
                 [cs EXCEPT ![i] = [cs[i] EXCEPT !.severity = "CRITICAL", !.key = item.key,
                                                 !.pending = {NewNote("ESCALATION", Len(cs[i].notes), "CRITICAL")}]])
<1> DEFINE c == cs[i]
           l == Evidence("escalated", IdOf(c), item)
           d == [c EXCEPT !.severity = "CRITICAL", !.key = item.key, !.pending = {NewNote("ESCALATION", Len(c.notes), "CRITICAL")}]
<1>1. c \in CaseView /\ CaseSound(c) /\ item.key \in Key /\ item.severity \in Severities
  BY SoundFacts, KeyMoves, ItemFacts
<1>2. l.line = "escalated" /\ l.case = IdOf(c) /\ l.key = item.key /\ l.severity = "CRITICAL" /\ l \in Lines
  BY <1>1, CaseFacts DEF Evidence, Lines, CaseId, IdOf
<1>3. d = [c EXCEPT !.severity = "CRITICAL", !.key = item.key, !.pending = @ \cup {NewNote("ESCALATION", Len(c.notes), "CRITICAL")}]
  BY <1>1 DEF CaseView
<1>4. d = WithLine(c, l)
  BY <1>2, <1>3 DEF WithLine
<1>5. CaseSound(d)
  <2> HIDE DEF d, l, c
  <2> QED
    BY <1>1, <1>3, EscalationSound DEF c
<1>6. /\ d.notes = c.notes /\ d.key = item.key /\ d.kind = c.kind /\ d.subject = c.subject /\ d.born = c.born
  BY <1>1 DEF CaseView
<1> HIDE DEF d, l
<1>7. l.line \notin {"opened", "attempted", "result", "exhausted"} /\ IdOf(d) = IdOf(c)
  BY <1>2, <1>6, IdFacts
<1>8. /\ Shaped(d.kind, d.subject, d.key) /\ Reached(s, d.kind, d.subject, d.key)
      /\ NotAfter(d.kind, d.born, d.key)
      /\ \A j \in DOMAIN cs : j > i => ~SameSubject(cs[j], d)
      /\ Occupied(s, d) => d.key = d.born
  BY <1>6, KeyMoves DEF SameSubject, Occupied
<1>9. Step(s, cs, l, [cs EXCEPT ![i] = d])
  BY <1>2, <1>4, <1>5, <1>6, <1>7, <1>8, QuietStep
<1> QED
  BY <1>2, <1>9 DEF d, l

\* A case is opened.
LEMMA OpenStep ==
  ASSUME NEW s, EdgeInv(s), NEW cs, Sound(s, cs), NEW item \in Observe(s), NEW recurs \in Nat,
         \A i \in DOMAIN cs : SameSubject(cs[i], item) => cs[i].human = "RESOLVED" /\ cs[i].born # item.key,
         NEW l, l = [line |-> "opened", kind |-> item.kind, subject |-> item.subject, severity |-> item.severity,
                     key |-> item.key, recurs |-> recurs]
  PROVE  l \in Lines /\ Step(s, cs, l, Append(cs, CaseOf(l))) /\ CaseOf(l) \in CaseView
<1> DEFINE d == CaseOf(l)
<1>1. item.kind \in Kinds /\ item.subject \in Subjects /\ item.severity \in Severities /\ item.key \in Key
  BY ItemFacts DEF Shaped
<1>2. l \in Lines /\ l.line = "opened"
  BY <1>1 DEF Lines
<1>3. NewNote("OPENED", 0, item.severity) \in Note
  BY <1>1, NewNoteIsNote DEF Intents
<1>4. <<>> \in Seq(Note)
  OBVIOUS
<1> HIDE DEF NewNote
<1>5. /\ d.kind = item.kind /\ d.subject = item.subject /\ d.born = item.key /\ d.key = item.key /\ d.severity = item.severity
      /\ d.pending = {NewNote("OPENED", 0, item.severity)} /\ d.notes = <<>> /\ d.reminders = 0
  BY DEF CaseOf
<1>6. d \in CaseView
  BY <1>1, <1>3, <1>4 DEF CaseView, CaseOf
<1> HIDE DEF d
<1>7. CaseSound(d)
  <2>1. Reminders(d) = {} /\ DOMAIN <<>> = {}
    BY <1>5 DEF Reminders
  <2>2. Cardinality({}) = 0 /\ 0 <= MaxReminders
    BY FS_EmptySet, Bounds
  <2> QED
    BY <1>5, <1>6, <2>1, <2>2 DEF CaseSound
<1>8. Sound(s, Append(cs, d))
  BY <1>5, <1>7, AddSound
<1>9. Grows(cs, Append(cs, d))
  <2>1. /\ cs \in Seq(CaseView) /\ Len(cs) \in Nat /\ Len(Append(cs, d)) = Len(cs) + 1
        /\ Append(cs, d)[Len(cs) + 1] = d /\ \A i \in 1 .. Len(cs) : Append(cs, d)[i] = cs[i]
    BY <1>6, SoundFacts, Appended
  <2>2. ASSUME NEW i \in 1 .. Len(cs) PROVE CaseGrows(cs[i], Append(cs, d)[i])
    <3>1. cs[i] \in CaseView /\ Append(cs, d)[i] = cs[i]
      BY <2>1
    <3>2. [cs[i] EXCEPT !.notes = cs[i].notes, !.pending = cs[i].pending] = cs[i] /\ Len(cs[i].notes) \in Nat
      BY <3>1, CaseFacts DEF CaseView
    <3> QED
      BY <3>1, <3>2 DEF CaseGrows, NoteKept, FinalKept
  <2>3. Len(<<>>) = 0
    OBVIOUS
  <2>4. \A i \in 1 .. Len(Append(cs, d)) : i > Len(cs) => Append(cs, d)[i].notes = <<>>
    BY <1>5, <2>1
  <2>5. Len(cs) <= Len(Append(cs, d))
    BY <2>1
  <2> QED
    BY <2>2, <2>4, <2>5 DEF Grows
<1>10. After(cs, l) = Append(cs, d)
  BY <1>2 DEF After, d
<1> QED
  BY <1>2, <1>6, <1>8, <1>9, <1>10 DEF Step, d

-----------------------------------------------------------------------------
(* Notifications and their deliveries.                                     *)

\* Notification k of case i has this identity.
Stands(cs, nid, i, k) == i \in DOMAIN cs /\ k \in DOMAIN cs[i].notes /\ nid = NoteIdOf(IdOf(cs[i]), cs[i].notes[k])

LEMMA NotePlaces ==
  ASSUME NEW s, NEW cs, Sound(s, cs), NEW nid, NEW i, NEW k, Stands(cs, nid, i, k)
  PROVE  /\ PlaceIn(cs, nid.case) = i /\ NotePlaceIn(cs, nid) = k /\ nid \in NoteId /\ cs[i].notes[k] \in Note
         /\ i \in 1 .. Len(cs) /\ k \in 1 .. Len(cs[i].notes)
<1>1. i \in 1 .. Len(cs) /\ cs[i] \in CaseView /\ CaseSound(cs[i]) /\ nid = NoteIdOf(IdOf(cs[i]), cs[i].notes[k])
      /\ k \in DOMAIN cs[i].notes
  BY SoundFacts DEF Stands
<1>2. nid.case = IdOf(cs[i]) /\ nid.ordinal = cs[i].notes[k].ordinal
  BY <1>1 DEF NoteIdOf
<1>3. PlaceIn(cs, nid.case) = i
  BY <1>1, <1>2, SoundFacts
<1>4. k \in 1 .. Len(cs[i].notes) /\ DOMAIN cs[i].notes = 1 .. Len(cs[i].notes) /\ cs[i].notes[k] \in Note
  BY <1>1, CaseFacts
<1>5. \A l \in DOMAIN cs[i].notes : NoteIdOf(nid.case, cs[i].notes[l]) = nid => l = k
  <2>1. \A l \in DOMAIN cs[i].notes : cs[i].notes[l].ordinal = l - 1
    BY <1>1 DEF CaseSound
  <2>2. \A l \in DOMAIN cs[i].notes : NoteIdOf(nid.case, cs[i].notes[l]).ordinal = cs[i].notes[l].ordinal
    BY DEF NoteIdOf
  <2> QED
    BY <1>1, <1>2, <1>4, <2>1, <2>2
<1>6. NotePlaceIn(cs, nid) = k
  BY <1>1, <1>2, <1>3, <1>5 DEF NotePlaceIn
<1>7. nid \in NoteId
  BY <1>1, <1>4, CaseFacts DEF NoteIdOf, NoteId, CaseId, IdOf, Note
<1> QED
  BY <1>1, <1>3, <1>4, <1>6, <1>7

LEMMA NotesOfCases ==
  ASSUME NEW s, Sound(s, cases)
  PROVE  /\ \A nid : nid \in NoteIds <=> \E i, k : Stands(cases, nid, i, k)
         /\ \A nid, i, k : Stands(cases, nid, i, k) => TheNote(nid) = cases[i].notes[k]
<1>1. \A nid : nid \in NoteIds <=> \E i, k : Stands(cases, nid, i, k)
  BY DEF NoteIds, Stands
<1>2. ASSUME NEW nid, NEW i, NEW k, Stands(cases, nid, i, k) PROVE TheNote(nid) = cases[i].notes[k]
  <2>1. PlaceIn(cases, nid.case) = i /\ NotePlaceIn(cases, nid) = k
    BY <1>2, NotePlaces
  <2> QED
    BY <2>1 DEF TheNote, Place, PlaceIn, NotePlace, NotePlaceIn
<1> QED
  BY <1>1, <1>2

LEMMA NoteIdsAreFinite ==
  ASSUME NEW s, Sound(s, cases)
  PROVE  IsFiniteSet(NoteIds)
<1> DEFINE Of(i) == {NoteIdOf(IdOf(cases[i]), cases[i].notes[k]) : k \in DOMAIN cases[i].notes}
           All == {Of(i) : i \in DOMAIN cases}
<1>1. DOMAIN cases = 1 .. Len(cases) /\ Len(cases) \in Nat /\ \A i \in 1 .. Len(cases) : cases[i] \in CaseView
  BY SoundFacts
<1>2. ASSUME NEW i \in DOMAIN cases PROVE IsFiniteSet(Of(i))
  <2>1. DOMAIN cases[i].notes = 1 .. Len(cases[i].notes) /\ Len(cases[i].notes) \in Nat
    BY <1>1, CaseFacts
  <2> DEFINE f == [k \in DOMAIN cases[i].notes |-> NoteIdOf(IdOf(cases[i]), cases[i].notes[k])]
  <2>2. f \in Surjection(DOMAIN cases[i].notes, Of(i))
    BY DEF Surjection
  <2>3. IsFiniteSet(DOMAIN cases[i].notes)
    <3>1. IsFiniteSet(1 .. Len(cases[i].notes))
      BY <2>1, FS_Interval
    <3> QED
      BY <2>1, <3>1
  <2> HIDE DEF f, Of
  <2> QED
    BY <2>2, <2>3, FS_Surjection
<1>3. IsFiniteSet(All)
  <2> DEFINE g == [i \in DOMAIN cases |-> Of(i)]
  <2>1. g \in Surjection(DOMAIN cases, All)
    BY DEF Surjection
  <2>2. IsFiniteSet(DOMAIN cases)
    BY <1>1, FS_Interval
  <2> HIDE DEF g, All
  <2> QED
    BY <2>1, <2>2, FS_Surjection
<1>4. \A T \in All : IsFiniteSet(T)
  BY <1>2
<1>5. NoteIds = UNION All
  BY DEF NoteIds
<1> HIDE DEF All
<1> QED
  BY <1>3, <1>4, <1>5, FS_UNION

\* Note m takes the place of notification k of case i, and nothing else changes.
OnlyNote(cs, ds, i, k, m) ==
  \E d : /\ ds = [cs EXCEPT ![i] = d] /\ d.notes = [cs[i].notes EXCEPT ![k] = m] /\ d.pending = cs[i].pending
        /\ IdOf(d) = IdOf(cs[i]) /\ FinalKept(cs[i], d)

LEMMA DeliveryAfter ==
  ASSUME NEW s, NEW cs, Sound(s, cs), NEW nid, NEW i, NEW k, Stands(cs, nid, i, k),
         NEW what \in {"attempted", "result", "exhausted"}, NEW value,
         what = "attempted" => value \in Nat, what = "result" => value \in NoteStates
  PROVE  /\ OnlyNote(cs, After(cs, Delivery(what, nid, value)), i, k, WithDelivery(cs[i].notes[k], Delivery(what, nid, value)))
         /\ Sound(s, After(cs, Delivery(what, nid, value)))
         /\ WithDelivery(cs[i].notes[k], Delivery(what, nid, value)).intent = cs[i].notes[k].intent
         /\ WithDelivery(cs[i].notes[k], Delivery(what, nid, value)).ordinal = cs[i].notes[k].ordinal
<1> DEFINE n == cs[i].notes[k]
           l == Delivery(what, nid, value)
           m == WithDelivery(n, l)
           d == [cs[i] EXCEPT !.notes[k] = m]
<1>1. /\ PlaceIn(cs, nid.case) = i /\ NotePlaceIn(cs, nid) = k /\ n \in Note /\ i \in DOMAIN cs /\ k \in DOMAIN cs[i].notes
      /\ cs[i] \in CaseView /\ CaseSound(cs[i]) /\ cs \in Seq(CaseView)
  BY NotePlaces, SoundFacts DEF Stands
<1>2. l.line = what /\ l.note = nid /\ l.value = value
  BY DEF Delivery
<1>3. m = CASE what = "attempted" -> [n EXCEPT !.attempts = value, !.state = "ATTEMPTING"]
            [] what = "result"    -> [n EXCEPT !.state = value]
            [] what = "exhausted" -> [n EXCEPT !.state = "EXHAUSTED"]
  BY <1>2 DEF WithDelivery
<1>m. m = WithDelivery(cs[i].notes[k], Delivery(what, nid, value))
  OBVIOUS
<1> HIDE DEF l, m
<1>4. m \in Note /\ m.intent = n.intent /\ m.ordinal = n.ordinal /\ m.severity = n.severity
  <2>1. CASE what = "attempted"
    BY <1>1, <1>3, <2>1 DEF Note, NoteStates
  <2>2. CASE what = "result"
    BY <1>1, <1>3, <2>2 DEF Note
  <2>3. CASE what = "exhausted"
    BY <1>1, <1>3, <2>3 DEF Note, NoteStates
  <2> QED
    BY <2>1, <2>2, <2>3
<1>5. After(cs, l) = [cs EXCEPT ![i] = d]
  <2>1. After(cs, l) = [cs EXCEPT ![i].notes[k] = m]
    BY <1>1, <1>2 DEF After, m
  <2>2. [cs EXCEPT ![i].notes[k] = m] = [cs EXCEPT ![i] = d]
    OBVIOUS
  <2> QED
    BY <2>1, <2>2
<1>6. /\ CaseSound(d) /\ d.notes = [cs[i].notes EXCEPT ![k] = m]
      /\ [d EXCEPT !.notes = cs[i].notes, !.pending = cs[i].pending] = cs[i]
  <2> DEFINE c == cs[i]
  <2>1. CaseSound(c) /\ k \in DOMAIN c.notes /\ m \in Note
        /\ m.intent = c.notes[k].intent /\ m.ordinal = c.notes[k].ordinal /\ m.severity = c.notes[k].severity
    BY <1>1, <1>4
  <2> HIDE DEF c
  <2>2. CaseSound([c EXCEPT !.notes[k] = m])
        /\ [[c EXCEPT !.notes[k] = m] EXCEPT !.notes = c.notes, !.pending = c.pending] = c
    BY <2>1, DeliverySound
  <2>3. [c EXCEPT !.notes[k] = m].notes = [c.notes EXCEPT ![k] = m]
    BY <2>1 DEF CaseSound, CaseView
  <2> QED
    BY <2>2, <2>3 DEF c
<1>7. d.key = cs[i].key /\ d.human = cs[i].human /\ d.pending = cs[i].pending /\ IdOf(d) = IdOf(cs[i])
  BY <1>1 DEF CaseView, IdOf
<1> HIDE DEF d
<1>8. Sound(s, [cs EXCEPT ![i] = d])
  BY <1>1, <1>6, <1>7, ChangeSound
<1>9. FinalKept(cs[i], d)
  <2>1. cs[i].notes \in Seq(Note)
    BY <1>1, CaseFacts
  <2>2. Len(d.notes) = Len(cs[i].notes)
    BY <1>4, <1>6, <2>1
  <2> QED
    BY <1>6, <2>2 DEF FinalKept
<1>10. After(cs, Delivery(what, nid, value)) = [cs EXCEPT ![i] = d]
  BY <1>5 DEF l
<1>11. OnlyNote(cs, After(cs, Delivery(what, nid, value)), i, k, m)
  BY <1>6, <1>7, <1>9, <1>10 DEF OnlyNote
<1>12. Sound(s, After(cs, Delivery(what, nid, value)))
  BY <1>8, <1>10
<1> QED
  BY <1>m, <1>4, <1>11, <1>12

\* An attempt that is given up.
LEMMA GivingUpStep ==
  ASSUME NEW s, NEW cs, Sound(s, cs), NEW nid, NEW i, NEW k, Stands(cs, nid, i, k),
         NEW what \in {"result", "exhausted"}, NEW value, value = IF what = "result" THEN "UNKNOWN" ELSE 0
  PROVE  /\ Delivery(what, nid, value) \in Lines
         /\ Step(s, cs, Delivery(what, nid, value),
                 [cs EXCEPT ![i] = [cs[i] EXCEPT !.notes[k] = [@ EXCEPT !.state = IF what = "result" THEN "UNKNOWN" ELSE "EXHAUSTED"]]])
<1> DEFINE n == cs[i].notes[k]
           l == Delivery(what, nid, value)
           m == [n EXCEPT !.state = IF what = "result" THEN "UNKNOWN" ELSE "EXHAUSTED"]
           d == [cs[i] EXCEPT !.notes[k] = m]
<1>1. /\ n \in Note /\ nid \in NoteId /\ i \in DOMAIN cs /\ k \in DOMAIN cs[i].notes /\ k \in 1 .. Len(cs[i].notes)
      /\ cs[i] \in CaseView /\ CaseSound(cs[i]) /\ cs \in Seq(CaseView)
  BY NotePlaces, SoundFacts DEF Stands
<1>0. PlaceIn(cs, nid.case) = i /\ NotePlaceIn(cs, nid) = k
  BY NotePlaces
<1>2. After(cs, l) = [cs EXCEPT ![i] = d]
  <2>1. l.line = what /\ l.note = nid /\ l.value = value
    BY DEF Delivery
  <2> HIDE DEF l
  <2>2. WithDelivery(n, l) = m
    BY <2>1 DEF WithDelivery
  <2> HIDE DEF m
  <2>3. After(cs, l) = [cs EXCEPT ![i].notes[k] = m]
    BY <1>0, <1>1, <2>1, <2>2 DEF After
  <2> QED
    BY <2>3
<1>3. l \in Lines
  BY <1>1 DEF Delivery, Lines, NoteStates
<1>4. m \in Note /\ m.intent = n.intent /\ m.ordinal = n.ordinal /\ m.severity = n.severity /\ m.attempts = n.attempts
      /\ m.state # "DELIVERED"
  BY <1>1 DEF Note, NoteStates
<1>5. /\ CaseSound(d) /\ d.notes = [cs[i].notes EXCEPT ![k] = m]
      /\ [d EXCEPT !.notes = cs[i].notes, !.pending = cs[i].pending] = cs[i]
  <2> DEFINE c == cs[i]
  <2>1. CaseSound(c) /\ k \in DOMAIN c.notes /\ m \in Note
        /\ m.intent = c.notes[k].intent /\ m.ordinal = c.notes[k].ordinal /\ m.severity = c.notes[k].severity
    BY <1>1, <1>4
  <2> HIDE DEF c, m
  <2>2. CaseSound([c EXCEPT !.notes[k] = m])
        /\ [[c EXCEPT !.notes[k] = m] EXCEPT !.notes = c.notes, !.pending = c.pending] = c
    BY <2>1, DeliverySound
  <2>3. [c EXCEPT !.notes[k] = m].notes = [c.notes EXCEPT ![k] = m]
    BY <2>1 DEF CaseSound, CaseView
  <2> QED
    BY <2>2, <2>3 DEF c
<1>6. IdOf(d) = IdOf(cs[i]) /\ d.key = cs[i].key /\ d.human = cs[i].human
  BY <1>1 DEF CaseView, IdOf
<1> HIDE DEF d, m, l
<1>7. Len(d.notes) = Len(cs[i].notes) /\ Len(cs[i].notes) \in Nat /\ DOMAIN cs[i].notes = 1 .. Len(cs[i].notes)
      /\ \A j \in 1 .. Len(cs[i].notes) : d.notes[j] = IF j = k THEN m ELSE cs[i].notes[j]
  <2>1. cs[i].notes \in Seq(Note)
    BY <1>1, CaseFacts
  <2> QED
    BY <1>5, <2>1
<1>8. CaseGrows(cs[i], d)
  <2>1. \A j \in 1 .. Len(cs[i].notes) : NoteKept(cs[i].notes[j], d.notes[j])
    BY <1>4, <1>7 DEF NoteKept
  <2>2. FinalKept(cs[i], d)
    BY <1>5, <1>7 DEF FinalKept
  <2> QED
    BY <1>6, <1>7, <2>1, <2>2 DEF CaseGrows
<1>9. Grows(cs, [cs EXCEPT ![i] = d])
  BY <1>1, <1>5, <1>8, GrowsAtOne DEF CaseSound
<1>10. Sound(s, [cs EXCEPT ![i] = d])
  BY <1>1, <1>5, <1>6, ChangeSound
<1> QED
  BY <1>2, <1>3, <1>9, <1>10 DEF Step, d, m, l

-----------------------------------------------------------------------------
(* The batches.                                                            *)

NoPending(cs) == \A i \in DOMAIN cs : cs[i].pending = {}

LEMMA StepTypes ==
  ASSUME NEW s, NEW cs, NEW l, NEW ds, Step(s, cs, l, ds)
  PROVE  cs \in Seq(CaseView) /\ ds \in Seq(CaseView) /\ Sound(s, cs) /\ Sound(s, ds)
BY DEF Step, Sound

LEMMA LeadsTwice ==
  ASSUME NEW s, NEW cs, NEW ds, NEW es, NEW k \in Lines, NEW l \in Lines, Step(s, cs, k, ds), Step(s, ds, l, es)
  PROVE  Leads(s, cs, <<k, l>>, es)
<1>1. Leads(s, cs, <<k>>, ds) /\ Leads(s, ds, <<l>>, es)
  BY LeadsOnce
<1>2. <<k>> \in Seq(Lines) /\ <<l>> \in Seq(Lines)
  OBVIOUS
<1>3. <<k, l>> = <<k>> \o <<l>>
  <2> DEFINE q == <<k>> \o <<l>>
             r == <<k, l>>
  <2>1. q \in Seq(Lines) /\ Len(q) = 2 /\ q[1] = k /\ q[2] = l
    OBVIOUS
  <2>2. r \in Seq(Lines) /\ Len(r) = 2 /\ r[1] = k /\ r[2] = l
    OBVIOUS
  <2> HIDE DEF q, r
  <2>3. \A i \in 1 .. 2 : q[i] = r[i]
    <3>1. \A i \in 1 .. 2 : i = 1 \/ i = 2
      OBVIOUS
    <3> QED
      BY <2>1, <2>2, <3>1
  <2>4. q = r
    BY <2>1, <2>2, <2>3
  <2> QED
    BY <2>4 DEF q, r
<1> QED
  BY <1>1, <1>2, <1>3, LeadsOn

LEMMA Replaced ==
  ASSUME NEW T, NEW q \in Seq(T), NEW i \in DOMAIN q, NEW x \in T
  PROVE  /\ [q EXCEPT ![i] = x] \in Seq(T) /\ Len([q EXCEPT ![i] = x]) = Len(q) /\ DOMAIN [q EXCEPT ![i] = x] = DOMAIN q
         /\ [q EXCEPT ![i] = x][i] = x /\ (\A j \in DOMAIN q : j # i => [q EXCEPT ![i] = x][j] = q[j])
         /\ \A y : [[q EXCEPT ![i] = x] EXCEPT ![i] = y] = [q EXCEPT ![i] = y]
         /\ DOMAIN q = 1 .. Len(q) /\ Len(q) \in Nat
OBVIOUS

\* Repair writes what a torn batch left out.
LEMMA RepairLeads ==
  ASSUME NEW s, Sound(s, cases)
  PROVE  PendingIntents \in Seq(Lines) /\ \E es : Leads(s, cases, PendingIntents, es) /\ NoPending(es)
<1> DEFINE lines(i) == {Intended(IdOf(cases[i]), n) : n \in cases[i].pending}
           seqs == [i \in DOMAIN cases |-> Listed(lines(i))]
           N == Len(cases)
           Mid(k, ds) == /\ Sound(s, ds) /\ Len(ds) = N
                         /\ \A i \in 1 .. k : ds[i].pending = {}
                         /\ \A i \in 1 .. N : i > k => ds[i] = cases[i]
           P == {p \in Nat \X Seq(CaseView) : Mid(p[1], p[2])}
<1>1. cases \in Seq(CaseView) /\ DOMAIN cases = 1 .. N /\ N \in Nat
  BY SoundFacts
<1>2. ASSUME NEW i \in 1 .. N
      PROVE  \/ cases[i].pending = {} /\ Listed(lines(i)) = <<>>
             \/ \E n : /\ cases[i].pending = {n} /\ Listed(lines(i)) = <<Intended(IdOf(cases[i]), n)>>
                       /\ Intended(IdOf(cases[i]), n) \in Lines
  <2>1. CaseSound(cases[i])
    BY SoundFacts
  <2>2. CASE cases[i].pending = {}
    <3>1. lines(i) = {}
      BY <2>2
    <3> HIDE DEF lines
    <3> QED
      BY <2>2, <3>1, ListedOne
  <2>3. CASE cases[i].pending # {}
    <3>1. PICK n : cases[i].pending = {n}
      BY <2>1, <2>3 DEF CaseSound
    <3>2. lines(i) = {Intended(IdOf(cases[i]), n)}
      BY <3>1
    <3>3. Intended(IdOf(cases[i]), n) \in Lines
      BY <1>1, <3>1, IntentionStep
    <3> HIDE DEF lines
    <3> QED
      BY <3>1, <3>2, <3>3, ListedOne
  <2> QED
    BY <2>2, <2>3
<1>3. seqs \in Seq(Seq(Lines)) /\ Len(seqs) = N /\ \A i \in 1 .. N : seqs[i] = Listed(lines(i))
  <2> HIDE DEF lines
  <2>1. <<>> \in Seq(Lines) /\ \A l \in Lines : <<l>> \in Seq(Lines)
    OBVIOUS
  <2>2. \A i \in 1 .. N : Listed(lines(i)) \in Seq(Lines)
    BY <1>2, <2>1
  <2> QED
    BY <1>1, <2>2
<1>4. PendingIntents = FlattenSeq(seqs)
  BY DEF PendingIntents
<1>5. \A k \in Nat, ds \in Seq(CaseView) : <<k, ds>> \in P <=> Mid(k, ds)
  OBVIOUS
<1> HIDE DEF seqs, P, lines
<1>6. Mid(0, cases)
  BY <1>1
<1>7. ASSUME NEW k \in 1 .. N, NEW ds \in Seq(CaseView), Mid(k - 1, ds)
      PROVE  \E es \in Seq(CaseView) : Mid(k, es) /\ Leads(s, ds, seqs[k], es)
  <2>1. ds[k] = cases[k] /\ k \in DOMAIN ds /\ Sound(s, ds) /\ DOMAIN ds = 1 .. N
    BY <1>1, <1>7
  <2>2. CASE cases[k].pending = {} /\ Listed(lines(k)) = <<>>
    <3>1. Leads(s, ds, seqs[k], ds)
      BY <1>3, <2>2, LeadsNowhere
    <3>2. Mid(k, ds)
      BY <1>1, <1>7, <2>1, <2>2
    <3> QED
      BY <3>1, <3>2
  <2>3. ASSUME NEW n, cases[k].pending = {n}, Listed(lines(k)) = <<Intended(IdOf(cases[k]), n)>>
        PROVE  \E es \in Seq(CaseView) : Mid(k, es) /\ Leads(s, ds, seqs[k], es)
    <3> DEFINE d == [ds[k] EXCEPT !.notes = Append(ds[k].notes, n), !.pending = {}]
               es == [ds EXCEPT ![k] = d]
    <3>1. Step(s, ds, Intended(IdOf(ds[k]), n), es)
      BY <2>1, <2>3, IntentionStep
    <3>2. Sound(s, es) /\ es \in Seq(CaseView)
      BY <3>1, StepTypes
    <3>3. d.pending = {}
      <4>1. ds[k] \in CaseView
        BY <2>1
      <4> QED
        BY <4>1 DEF CaseView
    <3> HIDE DEF d
    <3>4. es[k] = d /\ Len(es) = N /\ \A i \in 1 .. N : i # k => es[i] = ds[i]
      BY <1>7, <2>1
    <3> HIDE DEF es
    <3>5. Leads(s, ds, seqs[k], es)
      BY <1>3, <2>1, <2>3, <3>1, LeadsOnce
    <3>6. Mid(k, es)
      <4>1. Sound(s, es) /\ Len(es) = N /\ es[k].pending = {} /\ \A i \in 1 .. N : i # k => es[i] = ds[i]
        BY <3>2, <3>3, <3>4
      <4>2. \A i \in 1 .. k : es[i].pending = {}
        BY <1>1, <1>7, <4>1
      <4>3. \A i \in 1 .. N : i > k => es[i] = cases[i]
        BY <1>1, <1>7, <4>1
      <4> QED
        BY <4>1, <4>2, <4>3
    <3> QED
      BY <3>2, <3>5, <3>6
  <2> QED
    BY <1>2, <2>2, <2>3
<1> HIDE DEF Mid
<1>8. \A k \in 1 .. Len(seqs) : k \in Nat /\ k - 1 \in Nat /\ k \in 1 .. N
  BY <1>1, <1>3
<1>9. \A k \in 1 .. Len(seqs) : \A ds \in Seq(CaseView) : <<k - 1, ds>> \in P =>
        \E es \in Seq(CaseView) : <<k, es>> \in P /\ Leads(s, ds, seqs[k], es)
  BY <1>5, <1>7, <1>8
<1>10. <<0, cases>> \in P
  BY <1>1, <1>5, <1>6
<1>11. /\ FlattenSeq(seqs) \in Seq(Lines)
       /\ \E es \in Seq(CaseView) : <<N, es>> \in P /\ Leads(s, cases, FlattenSeq(seqs), es)
  BY <1>1, <1>3, <1>9, <1>10, LeadsThrough
<1>12. \A es \in Seq(CaseView) : Mid(N, es) => NoPending(es)
  BY <1>1 DEF Mid, NoPending
<1> QED
  BY <1>1, <1>4, <1>5, <1>11, <1>12

-----------------------------------------------------------------------------
(* Reconciliation, one condition after another.                            *)

\* Covered, of any list of cases.
CoveredIn(cs, item) ==
  \E last \in DOMAIN cs :
    /\ SameSubject(cs[last], item) /\ \A j \in DOMAIN cs : SameSubject(cs[j], item) => j <= last
    /\ IF cs[last].human = "RESOLVED" THEN SameEvidence(cs[last], item)
       ELSE cs[last].active /\ cs[last].key = item.key /\ (item.severity = "CRITICAL" => cs[last].severity = "CRITICAL")

LEMMA LatestIsLast ==
  ASSUME cases \in Seq(CaseView), NEW item, NEW last \in DOMAIN cases, SameSubject(cases[last], item),
         \A j \in DOMAIN cases : SameSubject(cases[j], item) => j <= last
  PROVE  LatestCase(item) = last /\ AllOf(item.kind, item.subject) # {}
<1> DEFINE T == AllOf(item.kind, item.subject)
<1>1. DOMAIN cases = 1 .. Len(cases) /\ Len(cases) \in Nat
  OBVIOUS
<1>2. T = {j \in DOMAIN cases : SameSubject(cases[j], item)}
  BY DEF AllOf, SameSubject
<1>3. T \subseteq 1 .. Len(cases) /\ last \in T
  BY <1>1, <1>2
<1> HIDE DEF T
<1>4. Max(T) \in T /\ \A x \in T : x <= Max(T)
  BY <1>1, <1>3, MaximumExists
<1>5. Max(T) <= last /\ last <= Max(T)
  BY <1>2, <1>3, <1>4
<1>6. Max(T) = last
  BY <1>1, <1>3, <1>4, <1>5
<1> QED
  BY <1>3, <1>6 DEF LatestCase, T

LEMMA CoveredByLast ==
  ASSUME cases \in Seq(CaseView), NEW item, CoveredIn(cases, item)
  PROVE  Covered(item)
<1>1. PICK last \in DOMAIN cases :
        /\ SameSubject(cases[last], item) /\ \A j \in DOMAIN cases : SameSubject(cases[j], item) => j <= last
        /\ IF cases[last].human = "RESOLVED" THEN SameEvidence(cases[last], item)
           ELSE cases[last].active /\ cases[last].key = item.key /\ (item.severity = "CRITICAL" => cases[last].severity = "CRITICAL")
  BY DEF CoveredIn
<1>2. LatestCase(item) = last /\ AllOf(item.kind, item.subject) # {}
  BY <1>1, LatestIsLast
<1> QED
  BY <1>1, <1>2 DEF Covered

\* The last of the cases of a subject.
LEMMA LastExists ==
  ASSUME NEW cs \in Seq(CaseView), NEW item, NEW i \in DOMAIN cs, SameSubject(cs[i], item)
  PROVE  \E last \in DOMAIN cs : SameSubject(cs[last], item) /\ \A j \in DOMAIN cs : SameSubject(cs[j], item) => j <= last
<1> DEFINE T == {j \in DOMAIN cs : SameSubject(cs[j], item)}
<1>1. T \subseteq 1 .. Len(cs) /\ Len(cs) \in Nat /\ T # {}
  OBVIOUS
<1>2. Max(T) \in T /\ \A x \in T : x <= Max(T)
  <2> HIDE DEF T
  <2> QED
    BY <1>1, MaximumExists
<1> QED
  BY <1>2

\* What becomes of the cases when a condition is handled.
Handled(s, item, ds, es) ==
  /\ Sound(s, es) /\ NoPending(es) /\ Len(ds) <= Len(es) /\ CoveredIn(es, item)
  /\ \A j \in 1 .. Len(ds) : IdOf(es[j]) = IdOf(ds[j]) /\ (~SameSubject(ds[j], item) => es[j] = ds[j])
  /\ \A j \in 1 .. Len(es) : j > Len(ds) => SameSubject(es[j], item)

LEMMA HandledInPlace ==
  ASSUME NEW s, NEW ds, Sound(s, ds), NoPending(ds), NEW i \in DOMAIN ds, NEW item, SameSubject(ds[i], item),
         NEW d \in CaseView, d.pending = {}, IdOf(d) = IdOf(ds[i]), d.active, d.key = item.key, d.human # "RESOLVED",
         item.severity = "CRITICAL" => d.severity = "CRITICAL",
         \A j \in DOMAIN ds : j > i => ~SameSubject(ds[j], ds[i]), Sound(s, [ds EXCEPT ![i] = d])
  PROVE  Handled(s, item, ds, [ds EXCEPT ![i] = d])
<1> DEFINE es == [ds EXCEPT ![i] = d]
<1>1. /\ ds \in Seq(CaseView) /\ Len(es) = Len(ds) /\ DOMAIN es = DOMAIN ds /\ es[i] = d
      /\ \A j \in DOMAIN ds : j # i => es[j] = ds[j]
      /\ DOMAIN ds = 1 .. Len(ds) /\ Len(ds) \in Nat
  BY SoundFacts, Replaced
<1> HIDE DEF es
<1>2. NoPending(es)
  BY <1>1 DEF NoPending
<1>3. \A j \in 1 .. Len(ds) : IdOf(es[j]) = IdOf(ds[j]) /\ (~SameSubject(ds[j], item) => es[j] = ds[j])
  BY <1>1
<1>4. CoveredIn(es, item)
  <2>1. d.kind = ds[i].kind /\ d.subject = ds[i].subject
    BY IdFacts
  <2>2. ASSUME NEW j \in DOMAIN es, SameSubject(es[j], item) PROVE j <= i
    <3>1. CASE j = i
      BY <1>1, <3>1
    <3>2. CASE j # i
      <4>1. j \in DOMAIN ds /\ SameSubject(ds[j], ds[i])
        BY <1>1, <2>2, <3>2 DEF SameSubject
      <4> QED
        BY <1>1, <4>1
    <3> QED
      BY <3>1, <3>2
  <2>3. SameSubject(es[i], item)
    BY <1>1, <2>1 DEF SameSubject
  <2> QED
    BY <1>1, <2>2, <2>3 DEF CoveredIn
<1> QED
  BY <1>1, <1>2, <1>3, <1>4 DEF Handled, es

\* An unresolved case takes the evidence.
LEMMA UpdateLeads ==
  ASSUME NEW s, EdgeInv(s), NEW ds, Sound(s, ds), NoPending(ds), NEW i \in DOMAIN ds, ds[i].human # "RESOLVED",
         NEW item \in Observe(s), SameSubject(ds[i], item), cases[OpenCase(item)] = ds[i]
  PROVE  UpdateCase(item) \in Seq(Lines) /\ \E es : Leads(s, ds, UpdateCase(item), es) /\ Handled(s, item, ds, es)
<1> DEFINE c == ds[i]
           id == IdOf(c)
           back == Evidence("condition_returned", id, item)
           R == IF c.active THEN <<>> ELSE <<back>>
           c1 == IF c.active THEN c ELSE [c EXCEPT !.active = TRUE, !.key = item.key]
           m == [ds EXCEPT ![i] = c1]
           note == NewNote("ESCALATION", Len(c.notes), item.severity)
           up == item.severity = "CRITICAL" /\ c.severity = "WARNING"
           S == IF up THEN <<Evidence("escalated", id, item), Intended(id, note)>>
                ELSE IF item.key # c1.key THEN <<Evidence("evidence_added", id, item)>> ELSE <<>>
<1>1. /\ ds \in Seq(CaseView) /\ c \in CaseView /\ CaseSound(c) /\ DOMAIN ds = 1 .. Len(ds) /\ c.pending = {}
      /\ c.active \in BOOLEAN /\ c.severity \in Severities
  <2>1. ds \in Seq(CaseView) /\ c \in CaseView /\ CaseSound(c) /\ DOMAIN ds = 1 .. Len(ds)
    BY SoundFacts
  <2> QED
    BY <2>1, CaseFacts DEF NoPending
<1>0. item.severity \in Severities /\ item.key \in Key
  BY ItemFacts DEF Shaped
<1>2. UpdateCase(item) = R \o S
  BY <1>1 DEF UpdateCase
<1>3. R \in Seq(Lines) /\ Leads(s, ds, R, m) /\ Sound(s, m) /\ c1 \in CaseView
  <2>1. CASE c.active
    <3>1. R = <<>> /\ c1 = c
      BY <2>1
    <3>2. m = ds
      BY <1>1, <3>1
    <3> HIDE DEF R, m, c1
    <3> QED
      BY <1>1, <3>1, <3>2, LeadsNowhere
  <2>2. CASE ~c.active
    <3>0. /\ back \in Lines
          /\ Step(s, ds, back, [ds EXCEPT ![i] = WithLine(c, back)])
      <4>1. "condition_returned" \in {"evidence_added", "condition_returned"}
        OBVIOUS
      <4> QED
        BY <4>1, EvidenceStep
    <3>1. WithLine(c, back) = [c EXCEPT !.active = TRUE, !.key = item.key]
      BY DEF WithLine, Evidence
    <3>2. R = <<back>> /\ c1 = [c EXCEPT !.active = TRUE, !.key = item.key]
      BY <2>2
    <3>3. Step(s, ds, back, m)
      BY <3>0, <3>1, <3>2
    <3> HIDE DEF R, m, back
    <3>4. Sound(s, m) /\ Leads(s, ds, R, m)
      BY <3>2, <3>3, StepTypes, LeadsOnce
    <3>5. c1 \in CaseView
      BY <1>0, <1>1, <3>2 DEF CaseView
    <3> QED
      BY <3>0, <3>2, <3>4, <3>5
  <2> QED
    BY <2>1, <2>2
<1>4. /\ c1.notes = c.notes /\ c1.pending = {} /\ c1.severity = c.severity /\ c1.human = c.human /\ IdOf(c1) = id /\ c1.active
      /\ c1.kind = c.kind /\ c1.subject = c.subject
  <2>1. CASE c.active
    BY <1>1, <2>1
  <2>2. CASE ~c.active
    BY <1>1, <2>2 DEF CaseView, IdOf
  <2> QED
    BY <2>1, <2>2
<1> HIDE DEF c1
<1>5. m[i] = c1 /\ i \in DOMAIN m /\ m \in Seq(CaseView) /\ \A d : [m EXCEPT ![i] = d] = [ds EXCEPT ![i] = d]
  BY <1>1, <1>3, Replaced
<1> HIDE DEF m, R
<1>6. m[i].human # "RESOLVED" /\ SameSubject(m[i], item)
  BY <1>4, <1>5 DEF SameSubject
<1>7. \A j \in DOMAIN ds : j > i => ~SameSubject(ds[j], ds[i])
  BY KeyMoves
<1>8. CASE up
  <2> DEFINE e == Evidence("escalated", id, item)
             c2 == [c1 EXCEPT !.severity = "CRITICAL", !.key = item.key, !.pending = {NewNote("ESCALATION", Len(c1.notes), "CRITICAL")}]
             m2 == [m EXCEPT ![i] = c2]
             c3 == [c2 EXCEPT !.notes = Append(c2.notes, note), !.pending = {}]
             es == [m2 EXCEPT ![i] = c3]
  <2>1. e \in Lines /\ Step(s, m, e, m2)
    <3> HIDE DEF id
    <3>1. /\ i \in DOMAIN m /\ m[i].pending = {} /\ m[i].severity = "WARNING" /\ item.severity = "CRITICAL"
          /\ IdOf(m[i]) = id
      BY <1>4, <1>5, <1>8
    <3>2. /\ Evidence("escalated", IdOf(m[i]), item) \in Lines
          /\ Step(s, m, Evidence("escalated", IdOf(m[i]), item),
                  [m EXCEPT ![i] = [m[i] EXCEPT !.severity = "CRITICAL", !.key = item.key,
                                                !.pending = {NewNote("ESCALATION", Len(m[i].notes), "CRITICAL")}]])
      BY <1>3, <1>6, <3>1, EscalationStep
    <3> QED
      BY <1>5, <3>1, <3>2
  <2>2. /\ c2.pending = {note} /\ IdOf(c2) = id /\ c2.key = item.key /\ c2.severity = "CRITICAL" /\ c2.active
        /\ c2.human = c.human
    <3>1. /\ c2.pending = {NewNote("ESCALATION", Len(c1.notes), "CRITICAL")} /\ c2.key = item.key /\ c2.severity = "CRITICAL"
          /\ c2.kind = c1.kind /\ c2.subject = c1.subject /\ c2.born = c1.born /\ c2.active = c1.active /\ c2.human = c1.human
      BY <1>3 DEF CaseView
    <3>2. NewNote("ESCALATION", Len(c1.notes), "CRITICAL") = note
      BY <1>4, <1>8
    <3> HIDE DEF c2, note
    <3>3. IdOf(c2) = IdOf(c1)
      BY <3>1 DEF IdOf
    <3> HIDE DEF id
    <3> QED
      BY <1>4, <3>1, <3>2, <3>3
  <2>3. Sound(s, m2) /\ m2 \in Seq(CaseView)
    BY <2>1, StepTypes
  <2> HIDE DEF c2, note
  <2>4. m2[i] = c2 /\ i \in DOMAIN m2 /\ (\A d : [m2 EXCEPT ![i] = d] = [m EXCEPT ![i] = d]) /\ c2 \in CaseView
    <3>1. m2[i] = c2 /\ i \in DOMAIN m2 /\ (\A d : [m2 EXCEPT ![i] = d] = [m EXCEPT ![i] = d])
      BY <1>5
    <3> HIDE DEF m2
    <3> QED
      BY <2>3, <3>1, SoundFacts
  <2> HIDE DEF m2, e
  <2>5. Intended(id, note) \in Lines /\ Step(s, m2, Intended(id, note), es)
    <3>1. i \in DOMAIN m2 /\ note \in m2[i].pending /\ IdOf(m2[i]) = id
      BY <2>2, <2>4
    <3>2. /\ Intended(IdOf(m2[i]), note) \in Lines
          /\ Step(s, m2, Intended(IdOf(m2[i]), note),
                  [m2 EXCEPT ![i] = [m2[i] EXCEPT !.notes = Append(m2[i].notes, note), !.pending = {}]])
      BY <2>3, <3>1, IntentionStep
    <3> QED
      BY <2>4, <3>1, <3>2
  <2>6. S = <<e, Intended(id, note)>>
    BY <1>8 DEF e
  <2>7. S \in Seq(Lines) /\ Leads(s, m, S, es)
    <3> HIDE DEF S, es
    <3> QED
      BY <2>1, <2>5, <2>6, LeadsTwice
  <2>8. Leads(s, ds, R \o S, es)
    <3> HIDE DEF S, es
    <3> QED
      BY <1>3, <2>7, LeadsOn
  <2>9. es = [ds EXCEPT ![i] = c3]
    BY <1>5, <2>4
  <2>10. c3.pending = {} /\ IdOf(c3) = id /\ c3.key = item.key /\ c3.severity = "CRITICAL" /\ c3.active /\ c3.human = c.human
    BY <2>2, <2>4 DEF CaseView, IdOf
  <2>11. Sound(s, es) /\ c3 \in CaseView
    <3>1. Sound(s, es) /\ es \in Seq(CaseView)
      BY <2>5, StepTypes
    <3>2. es[i] = c3 /\ i \in DOMAIN es
      BY <1>1, <2>9
    <3> HIDE DEF es, c3
    <3> QED
      BY <3>1, <3>2, SoundFacts
  <2> HIDE DEF es, c3
  <2>12. Handled(s, item, ds, es)
    BY <1>7, <2>9, <2>10, <2>11, HandledInPlace
  <2>13. R \o S \in Seq(Lines)
    <3> HIDE DEF S
    <3> QED
      BY <1>3, <2>7
  <2> QED
    BY <1>2, <2>8, <2>12, <2>13
<1>9. CASE ~up
  <2> DEFINE e == Evidence("evidence_added", id, item)
             c2 == IF item.key # c1.key THEN [c1 EXCEPT !.key = item.key] ELSE c1
             es == [m EXCEPT ![i] = c2]
  <2>1. S \in Seq(Lines) /\ Leads(s, m, S, es) /\ Sound(s, es)
    <3>1. CASE item.key # c1.key
      <4>0. "evidence_added" \in {"evidence_added", "condition_returned"} /\ i \in DOMAIN m
        BY <1>5
      <4>1. /\ Evidence("evidence_added", IdOf(m[i]), item) \in Lines
            /\ Step(s, m, Evidence("evidence_added", IdOf(m[i]), item),
                    [m EXCEPT ![i] = WithLine(m[i], Evidence("evidence_added", IdOf(m[i]), item))])
        BY <1>3, <1>6, <4>0, EvidenceStep
      <4>2. WithLine(m[i], Evidence("evidence_added", IdOf(m[i]), item)) = [m[i] EXCEPT !.key = item.key]
        BY DEF WithLine, Evidence
      <4>3. S = <<e>> /\ e \in Lines /\ Step(s, m, e, es)
        BY <1>4, <1>5, <1>9, <3>1, <4>1, <4>2
      <4> HIDE DEF S, es, e
      <4> QED
        BY <4>3, StepTypes, LeadsOnce
    <3>2. CASE item.key = c1.key
      <4>1. S = <<>> /\ es = m
        BY <1>5, <1>9, <3>2
      <4> HIDE DEF S, es
      <4> QED
        BY <1>3, <1>5, <4>1, LeadsNowhere
    <3> QED
      BY <3>1, <3>2
  <2>2. c2.pending = {} /\ IdOf(c2) = id /\ c2.key = item.key /\ c2.severity = c.severity /\ c2.active /\ c2.human = c.human
        /\ c2 \in CaseView
    <3>1. CASE item.key # c1.key
      BY <1>0, <1>3, <1>4, <3>1 DEF CaseView, IdOf
    <3>2. CASE item.key = c1.key
      BY <1>3, <1>4, <3>2
    <3> QED
      BY <3>1, <3>2
  <2>3. es = [ds EXCEPT ![i] = c2]
    BY <1>5
  <2>4. item.severity = "CRITICAL" => c2.severity = "CRITICAL"
    BY <1>1, <1>9, <2>2 DEF Severities
  <2> HIDE DEF es, c2, S
  <2>5. Handled(s, item, ds, es)
    BY <1>7, <2>1, <2>2, <2>3, <2>4, HandledInPlace
  <2>6. Leads(s, ds, R \o S, es) /\ R \o S \in Seq(Lines)
    BY <1>3, <2>1, LeadsOn
  <2> QED
    BY <1>2, <2>5, <2>6
<1> QED
  BY <1>8, <1>9

\* The cases of this subject are still as they were when the lines were decided.
Untouched(item, ds) ==
  /\ Len(cases) <= Len(ds)
  /\ \A i \in 1 .. Len(cases) : IdOf(ds[i]) = IdOf(cases[i]) /\ (SameSubject(cases[i], item) => ds[i] = cases[i])
  /\ \A i \in 1 .. Len(ds) : i > Len(cases) => ~SameSubject(ds[i], item)

LEMMA UntouchedFacts ==
  ASSUME NEW s, Sound(s, cases), NEW ds, Sound(s, ds), NEW item, Untouched(item, ds)
  PROVE  /\ \A j \in DOMAIN ds : SameSubject(ds[j], item) => j \in DOMAIN cases /\ SameSubject(cases[j], item)
         /\ \A j \in DOMAIN cases : j \in DOMAIN ds /\ (SameSubject(cases[j], item) => ds[j] = cases[j])
<1>1. DOMAIN ds = 1 .. Len(ds) /\ Len(ds) \in Nat /\ DOMAIN cases = 1 .. Len(cases) /\ Len(cases) \in Nat
  BY SoundFacts
<1>2. ASSUME NEW j \in DOMAIN ds, SameSubject(ds[j], item) PROVE j \in DOMAIN cases /\ SameSubject(cases[j], item)
  <2>1. j \in DOMAIN cases
    BY <1>1, <1>2 DEF Untouched
  <2>2. IdOf(ds[j]) = IdOf(cases[j])
    BY <1>1, <2>1 DEF Untouched
  <2> QED
    BY <1>2, <2>1, <2>2, IdFacts DEF SameSubject
<1>3. \A j \in DOMAIN cases : j \in DOMAIN ds /\ (SameSubject(cases[j], item) => ds[j] = cases[j])
  BY <1>1 DEF Untouched
<1> QED
  BY <1>2, <1>3

\* Evidence that a human has already dealt with opens no case.
LEMMA SkipLeads ==
  ASSUME NEW s, EdgeInv(s), Sound(s, cases), NEW ds, Sound(s, ds), NoPending(ds),
         NEW item \in Observe(s), Untouched(item, ds), Unresolved(item.kind, item.subject) = {},
         NEW last \in DOMAIN cases, SameSubject(cases[last], item), \A j \in DOMAIN cases : SameSubject(cases[j], item) => j <= last,
         SameEvidence(cases[last], item)
  PROVE  Leads(s, ds, <<>>, ds) /\ Handled(s, item, ds, ds)
<1>1. ds \in Seq(CaseView) /\ DOMAIN ds = 1 .. Len(ds) /\ Len(ds) \in Nat
  BY SoundFacts
<1>2. last \in DOMAIN ds /\ ds[last] = cases[last] /\ \A j \in DOMAIN ds : SameSubject(ds[j], item) => j <= last
  BY UntouchedFacts
<1>3. ds[last].human = "RESOLVED"
  BY <1>2 DEF Unresolved, SameSubject
<1>4. CoveredIn(ds, item)
  BY <1>2, <1>3 DEF CoveredIn
<1>5. Handled(s, item, ds, ds)
  BY <1>1, <1>4 DEF Handled
<1> QED
  BY <1>1, <1>5, LeadsNowhere

LEMMA OpenLeads ==
  ASSUME NEW s, EdgeInv(s), NEW ds, Sound(s, ds), NoPending(ds), NEW item \in Observe(s), NEW recurs \in Nat,
         \A i \in DOMAIN ds : SameSubject(ds[i], item) => ds[i].human = "RESOLVED" /\ ds[i].born # item.key,
         NEW id, id = [kind |-> item.kind, subject |-> item.subject, key |-> item.key],
         NEW l, l = [line |-> "opened", kind |-> item.kind, subject |-> item.subject, severity |-> item.severity,
                     key |-> item.key, recurs |-> recurs]
  PROVE  /\ <<l, Intended(id, NewNote("OPENED", 0, item.severity))>> \in Seq(Lines)
         /\ \E es : Leads(s, ds, <<l, Intended(id, NewNote("OPENED", 0, item.severity))>>, es) /\ Handled(s, item, ds, es)
<1> DEFINE note == NewNote("OPENED", 0, item.severity)
           c == CaseOf(l)
           N == Len(ds)
           m == Append(ds, c)
           d == [c EXCEPT !.notes = Append(c.notes, note), !.pending = {}]
           es == [m EXCEPT ![N + 1] = d]
<1>1. ds \in Seq(CaseView) /\ DOMAIN ds = 1 .. N /\ N \in Nat /\ \A j \in 1 .. N : ds[j].pending = {}
  BY SoundFacts DEF NoPending
<1>2. l \in Lines /\ Step(s, ds, l, m) /\ c \in CaseView
  BY OpenStep
<1>3. c.pending = {note} /\ IdOf(c) = id /\ c.key = item.key /\ c.severity = item.severity /\ c.active /\ c.human = "OPEN"
  BY DEF CaseOf, IdOf
<1> HIDE DEF c, note
<1>4. /\ m \in Seq(CaseView) /\ Len(m) = N + 1 /\ m[N + 1] = c /\ N + 1 \in DOMAIN m
      /\ \A j \in 1 .. N : m[j] = ds[j]
  BY <1>1, <1>2, Appended
<1>5. Sound(s, m)
  BY <1>2, StepTypes
<1> HIDE DEF m
<1>6. Intended(id, note) \in Lines /\ Step(s, m, Intended(id, note), es)
  <2>1. note \in m[N + 1].pending /\ IdOf(m[N + 1]) = id
    BY <1>3, <1>4
  <2>2. /\ Intended(IdOf(m[N + 1]), note) \in Lines
        /\ Step(s, m, Intended(IdOf(m[N + 1]), note),
                [m EXCEPT ![N + 1] = [m[N + 1] EXCEPT !.notes = Append(m[N + 1].notes, note), !.pending = {}]])
    BY <1>4, <1>5, <2>1, IntentionStep
  <2> QED
    BY <1>4, <2>1, <2>2
<1>7. d.pending = {} /\ IdOf(d) = id /\ d.key = item.key /\ d.severity = item.severity /\ d.active /\ d.human = "OPEN"
  BY <1>2, <1>3 DEF CaseView, IdOf
<1> HIDE DEF d
<1>8. es[N + 1] = d /\ Len(es) = N + 1 /\ \A j \in 1 .. N : es[j] = ds[j]
  BY <1>1, <1>4
<1>9. Sound(s, es) /\ DOMAIN es = 1 .. N + 1
  <2>1. Sound(s, es)
    BY <1>6, StepTypes
  <2> HIDE DEF es
  <2> QED
    BY <1>8, <2>1, SoundFacts
<1> HIDE DEF es
<1>10. \A j \in 1 .. N + 1 : j \in 1 .. N \/ j = N + 1
  BY <1>1
<1>11. SameSubject(d, item)
  <2>1. IdOf(d).kind = d.kind /\ IdOf(d).subject = d.subject
    BY DEF IdOf
  <2> QED
    BY <1>7, <2>1 DEF SameSubject
<1>12. NoPending(es)
  BY <1>1, <1>7, <1>8, <1>9, <1>10 DEF NoPending
<1>13. CoveredIn(es, item)
  <2>1. N + 1 \in DOMAIN es /\ \A j \in DOMAIN es : j <= N + 1
    BY <1>1, <1>9
  <2> QED
    BY <1>7, <1>8, <1>11, <2>1 DEF CoveredIn
<1>14. Handled(s, item, ds, es)
  <2>1. N <= N + 1 /\ \A j \in 1 .. N + 1 : j > N => j = N + 1
    BY <1>1
  <2> QED
    BY <1>8, <1>9, <1>11, <1>12, <1>13, <2>1 DEF Handled
<1>15. Leads(s, ds, <<l, Intended(id, note)>>, es)
  BY <1>2, <1>6, LeadsTwice
<1>16. <<l, Intended(id, note)>> \in Seq(Lines)
  BY <1>2, <1>6
<1> QED
  BY <1>14, <1>15, <1>16 DEF note

LEMMA HandleLeads ==
  ASSUME NEW s, EdgeInv(s), Sound(s, cases), NEW ds, Sound(s, ds), NoPending(ds), NEW item \in Observe(s), Untouched(item, ds)
  PROVE  Handle(item) \in Seq(Lines) /\ \E es : Leads(s, ds, Handle(item), es) /\ Handled(s, item, ds, es)
<1>1. /\ \A j \in DOMAIN ds : SameSubject(ds[j], item) => j \in DOMAIN cases /\ SameSubject(cases[j], item)
      /\ \A j \in DOMAIN cases : j \in DOMAIN ds /\ (SameSubject(cases[j], item) => ds[j] = cases[j])
  BY UntouchedFacts
<1>2. cases \in Seq(CaseView) /\ DOMAIN cases = 1 .. Len(cases) /\ Len(cases) \in Nat
  BY SoundFacts
<1>3. CASE Unresolved(item.kind, item.subject) # {}
  <2>1. PICK i \in DOMAIN cases : SameSubject(cases[i], item) /\ cases[i].human # "RESOLVED"
    BY <1>3 DEF Unresolved, SameSubject
  <2>2. Unresolved(item.kind, item.subject) = {i}
    <3>1. i \in Unresolved(item.kind, item.subject)
      BY <2>1 DEF Unresolved, SameSubject
    <3>2. ASSUME NEW j \in Unresolved(item.kind, item.subject) PROVE j = i
      <4>1. j \in DOMAIN cases /\ cases[j].human # "RESOLVED" /\ SameSubject(cases[j], cases[i]) /\ SameSubject(cases[i], cases[j])
        BY <2>1 DEF Unresolved, SameSubject
      <4>2. ~ (i < j) /\ ~ (j < i)
        BY <2>1, <4>1 DEF Sound, OnceSound
      <4> QED
        BY <1>2, <4>1, <4>2
    <3> QED
      BY <3>1, <3>2
  <2>3. OpenCase(item) = i
    BY <1>2, <2>2, MinimumOfOne DEF OpenCase
  <2>4. ds[i] = cases[i] /\ i \in DOMAIN ds
    BY <1>1, <2>1
  <2>5. Handle(item) = UpdateCase(item)
    BY <1>3 DEF Handle
  <2>6. cases[OpenCase(item)] = ds[i] /\ ds[i].human # "RESOLVED" /\ SameSubject(ds[i], item)
    BY <2>1, <2>3, <2>4
  <2> QED
    BY <2>4, <2>5, <2>6, UpdateLeads
<1>4. CASE Unresolved(item.kind, item.subject) = {}
  <2> DEFINE id == [kind |-> item.kind, subject |-> item.subject, key |-> item.key]
             handled == AllOf(item.kind, item.subject) # {} /\ SameEvidence(cases[LatestCase(item)], item)
  <2>1. Handle(item) = IF handled \/ id \in CaseIds THEN <<>>
                       ELSE << Opened(item), Intended(id, NewNote("OPENED", 0, item.severity)) >>
    BY <1>4 DEF Handle, OpenOrSkip
  <2>2. \A i \in DOMAIN cases : id = IdOf(cases[i]) <=> SameSubject(cases[i], item) /\ cases[i].born = item.key
    <3>1. ASSUME NEW i \in DOMAIN cases, id = IdOf(cases[i]) PROVE SameSubject(cases[i], item) /\ cases[i].born = item.key
      <4>1. /\ IdOf(cases[i]).kind = cases[i].kind /\ IdOf(cases[i]).subject = cases[i].subject
            /\ IdOf(cases[i]).key = cases[i].born
        BY DEF IdOf
      <4>2. id.kind = item.kind /\ id.subject = item.subject /\ id.key = item.key
        OBVIOUS
      <4> HIDE DEF id
      <4> QED
        BY <3>1, <4>1, <4>2 DEF SameSubject
    <3> QED
      BY <3>1 DEF SameSubject, IdOf
  <2>3. ASSUME NEW i \in DOMAIN cases, SameSubject(cases[i], item)
        PROVE  \E last \in DOMAIN cases : /\ SameSubject(cases[last], item) /\ LatestCase(item) = last
                                          /\ \A j \in DOMAIN cases : SameSubject(cases[j], item) => j <= last
    <3>1. PICK last \in DOMAIN cases : /\ SameSubject(cases[last], item)
                                       /\ \A j \in DOMAIN cases : SameSubject(cases[j], item) => j <= last
      BY <1>2, <2>3, LastExists
    <3>2. LatestCase(item) = last
      BY <1>2, <3>1, LatestIsLast
    <3> QED
      BY <3>1, <3>2
  <2>4. CASE handled \/ id \in CaseIds
    <3>1. \E i \in DOMAIN cases : SameSubject(cases[i], item) /\ (handled \/ cases[i].born = item.key)
      <4>1. CASE handled
        BY <4>1 DEF AllOf, SameSubject
      <4>2. CASE id \in CaseIds
        BY <2>2, <4>2 DEF CaseIds
      <4> QED
        BY <2>4, <4>1, <4>2
    <3>2. PICK i \in DOMAIN cases : SameSubject(cases[i], item) /\ (handled \/ cases[i].born = item.key)
      BY <3>1
    <3>3. PICK last \in DOMAIN cases : /\ SameSubject(cases[last], item) /\ LatestCase(item) = last
                                       /\ \A j \in DOMAIN cases : SameSubject(cases[j], item) => j <= last
      BY <2>3, <3>2
    <3>4. SameEvidence(cases[last], item)
      <4>1. CASE handled
        BY <3>3, <4>1
      <4>2. CASE cases[i].born = item.key
        BY <3>2, <3>3, <4>2, SeenBefore
      <4> QED
        BY <3>2, <4>1, <4>2
    <3>5. Leads(s, ds, <<>>, ds) /\ Handled(s, item, ds, ds)
      BY <1>4, <3>3, <3>4, SkipLeads
    <3>6. Handle(item) = <<>>
      BY <2>1, <2>4
    <3>7. <<>> \in Seq(Lines)
      OBVIOUS
    <3> QED
      BY <3>5, <3>6, <3>7
  <2>5. CASE ~ (handled \/ id \in CaseIds)
    <3> DEFINE recurs == IF AllOf(item.kind, item.subject) = {} THEN 0 ELSE LatestCase(item)
    <3>1. recurs \in Nat
      <4>1. CASE AllOf(item.kind, item.subject) = {}
        BY <4>1
      <4>2. CASE AllOf(item.kind, item.subject) # {}
        <5>1. PICK i \in DOMAIN cases : SameSubject(cases[i], item)
          BY <4>2 DEF AllOf, SameSubject
        <5>2. LatestCase(item) \in DOMAIN cases
          BY <2>3, <5>1
        <5> QED
          BY <1>2, <4>2, <5>2
      <4> QED
        BY <4>1, <4>2
    <3>2. \A i \in DOMAIN ds : SameSubject(ds[i], item) => ds[i].human = "RESOLVED" /\ ds[i].born # item.key
      <4>1. \A i \in DOMAIN cases : SameSubject(cases[i], item) => cases[i].human = "RESOLVED" /\ cases[i].born # item.key
        BY <1>4, <2>2, <2>5 DEF CaseIds, Unresolved, SameSubject
      <4> QED
        BY <1>1, <4>1
    <3>3. Opened(item) = [line |-> "opened", kind |-> item.kind, subject |-> item.subject, severity |-> item.severity,
                          key |-> item.key, recurs |-> recurs]
      BY DEF Opened
    <3>4. Handle(item) = << Opened(item), Intended(id, NewNote("OPENED", 0, item.severity)) >>
      BY <2>1, <2>5
    <3> HIDE DEF recurs
    <3> QED
      BY <3>1, <3>2, <3>3, <3>4, OpenLeads
  <2> QED
    BY <2>4, <2>5
<1> QED
  BY <1>3, <1>4

LEMMA FlatOfNothing ==
  ASSUME NEW seqs \in Seq(Seq(Lines)), \A k \in 1 .. Len(seqs) : seqs[k] = <<>>
  PROVE  FlattenSeq(seqs) = <<>>
<1>0. Len(seqs) \in Nat
  OBVIOUS
<1>1. CASE Len(seqs) = 0
  <2>1. FlattenSeq(seqs) = seqs /\ seqs = <<>>
    BY <1>1, FlatIsChosen
  <2> QED
    BY <2>1
<1>2. CASE Len(seqs) # 0
  <2>1. PICK g : g = (CHOOSE f : Flattens(seqs, f)) /\ Flattens(seqs, g)
    BY FlatExists
  <2>2. FlattenSeq(seqs) = g[Len(seqs)]
    BY <1>2, <2>1, FlatIsChosen
  <2>3. \A i \in 1 .. Len(seqs) : g[i] = IF i = 1 THEN seqs[i] ELSE g[i - 1] \o seqs[i]
    BY <2>1 DEF Flattens
  <2>4. <<>> \o <<>> = <<>>
    OBVIOUS
  <2> DEFINE Good == {n \in Nat : n = 0 \/ g[n] = <<>>}
  <2>5. 0 \in Good
    OBVIOUS
  <2>6. ASSUME NEW n \in 1 .. Len(seqs), n - 1 \in Good PROVE n \in Good
    <3>1. n \in Nat /\ seqs[n] = <<>>
      OBVIOUS
    <3>2. CASE n = 1
      <4>1. g[n] = seqs[n]
        BY <2>3, <3>2
      <4> QED
        BY <3>1, <4>1
    <3>3. CASE n # 1
      <4>1. n - 1 # 0
        BY <3>1, <3>3
      <4>2. g[n - 1] = <<>> /\ g[n] = g[n - 1] \o seqs[n]
        BY <2>3, <2>6, <3>3, <4>1
      <4> QED
        BY <2>4, <3>1, <4>2
    <3> QED
      BY <3>2, <3>3
  <2>7. Len(seqs) \in Good
    <3> HIDE DEF Good
    <3> QED
      BY <1>0, <2>5, <2>6, Climb
  <2> QED
    BY <1>2, <2>2, <2>7
<1> QED
  BY <1>1, <1>2

LEMMA NothingPending ==
  ASSUME NEW s, Sound(s, cases), NoPending(cases)
  PROVE  PendingIntents = <<>>
<1> DEFINE seqs == [i \in DOMAIN cases |-> Listed({Intended(IdOf(cases[i]), n) : n \in cases[i].pending})]
<1>1. DOMAIN cases = 1 .. Len(cases) /\ Len(cases) \in Nat
  BY SoundFacts
<1>2. ASSUME NEW i \in DOMAIN cases PROVE seqs[i] = <<>>
  <2>1. {Intended(IdOf(cases[i]), n) : n \in cases[i].pending} = {}
    BY DEF NoPending
  <2> QED
    BY <2>1, ListedOne
<1>3. seqs \in Seq(Seq(Lines)) /\ Len(seqs) = Len(cases)
  <2>1. <<>> \in Seq(Lines)
    OBVIOUS
  <2>2. DOMAIN seqs = 1 .. Len(cases) /\ seqs = [i \in DOMAIN seqs |-> seqs[i]]
    BY <1>1
  <2>3. \A i \in 1 .. Len(cases) : seqs[i] \in Seq(Lines)
    BY <1>1, <1>2, <2>1
  <2> HIDE DEF seqs
  <2>4. seqs \in [1 .. Len(cases) -> Seq(Lines)]
    BY <2>2, <2>3
  <2> QED
    BY <1>1, <2>4
<1>4. PendingIntents = FlattenSeq(seqs)
  BY DEF PendingIntents
<1> HIDE DEF seqs
<1> QED
  BY <1>1, <1>2, <1>3, <1>4, FlatOfNothing

LEMMA CoveredKept ==
  ASSUME NEW ds \in Seq(CaseView), NEW es \in Seq(CaseView), Len(ds) <= Len(es), NEW item, CoveredIn(ds, item),
         \A j \in 1 .. Len(ds) : SameSubject(ds[j], item) => es[j] = ds[j],
         \A j \in 1 .. Len(es) : SameSubject(es[j], item) => j <= Len(ds) /\ SameSubject(ds[j], item)
  PROVE  CoveredIn(es, item)
<1>1. DOMAIN ds = 1 .. Len(ds) /\ DOMAIN es = 1 .. Len(es) /\ Len(ds) \in Nat /\ Len(es) \in Nat
  OBVIOUS
<1>2. PICK last \in DOMAIN ds :
        /\ SameSubject(ds[last], item) /\ \A j \in DOMAIN ds : SameSubject(ds[j], item) => j <= last
        /\ IF ds[last].human = "RESOLVED" THEN SameEvidence(ds[last], item)
           ELSE ds[last].active /\ ds[last].key = item.key /\ (item.severity = "CRITICAL" => ds[last].severity = "CRITICAL")
  BY DEF CoveredIn
<1>3. es[last] = ds[last] /\ last \in DOMAIN es
  BY <1>1, <1>2
<1>4. \A j \in DOMAIN es : SameSubject(es[j], item) => j <= last
  BY <1>1, <1>2
<1> QED
  BY <1>2, <1>3, <1>4 DEF CoveredIn

\* What a case has to do with what is supported now.
Supported(s, c) == \E item \in Observe(s) : SameSubject(c, item)

\* All conditions are handled, and the cases that none of them is about are as they were.
AllHandled(s, ds) ==
  /\ Sound(s, ds) /\ NoPending(ds) /\ Len(cases) <= Len(ds)
  /\ \A i \in 1 .. Len(cases) : IdOf(ds[i]) = IdOf(cases[i]) /\ (~Supported(s, cases[i]) => ds[i] = cases[i])
  /\ \A i \in 1 .. Len(ds) : i > Len(cases) => Supported(s, ds[i])
  /\ \A item \in Observe(s) : CoveredIn(ds, item)

LEMMA ItemsLead ==
  ASSUME NEW s, EdgeInv(s), Sound(s, cases), NoPending(cases), NEW items, ListOf(items, Observe(s))
  PROVE  /\ FlattenSeq([k \in DOMAIN items |-> Handle(items[k])]) \in Seq(Lines)
         /\ \E es : Leads(s, cases, FlattenSeq([k \in DOMAIN items |-> Handle(items[k])]), es) /\ AllHandled(s, es)
<1> DEFINE seqs == [k \in DOMAIN items |-> Handle(items[k])]
           N == Len(items)
           C == Len(cases)
           Mid(k, ds) ==
             /\ Sound(s, ds) /\ NoPending(ds) /\ C <= Len(ds)
             /\ \A i \in 1 .. C : /\ IdOf(ds[i]) = IdOf(cases[i])
                                  /\ (\A m \in 1 .. k : ~SameSubject(cases[i], items[m])) => ds[i] = cases[i]
             /\ \A i \in 1 .. Len(ds) : i > C => \E m \in 1 .. k : SameSubject(ds[i], items[m])
             /\ \A m \in 1 .. k : CoveredIn(ds, items[m])
           P == {p \in Nat \X Seq(CaseView) : Mid(p[1], p[2])}
<1>1. cases \in Seq(CaseView) /\ DOMAIN cases = 1 .. C /\ C \in Nat
  BY SoundFacts
<1>2. /\ items \in Seq(Observe(s)) /\ DOMAIN items = 1 .. N /\ N \in Nat
      /\ (\A x \in Observe(s) : \E k \in 1 .. N : items[k] = x)
      /\ (\A k, l \in 1 .. N : items[k] = items[l] => k = l)
      /\ \A k \in 1 .. N : items[k] \in Observe(s)
  BY DEF ListOf
<1>3. \A k, l \in 1 .. N : \A c : SameSubject(c, items[k]) /\ SameSubject(c, items[l]) => k = l
  BY <1>2, ItemsDiffer DEF SameSubject
<1>4. \A k \in Nat, ds \in Seq(CaseView) : <<k, ds>> \in P <=> Mid(k, ds)
  OBVIOUS
<1> HIDE DEF P
<1>5. \A k \in 1 .. N : Handle(items[k]) \in Seq(Lines)
  <2> SUFFICES ASSUME NEW k \in 1 .. N PROVE Handle(items[k]) \in Seq(Lines)
    OBVIOUS
  <2>1. Untouched(items[k], cases)
    BY <1>1 DEF Untouched
  <2> QED
    BY <1>2, <2>1, HandleLeads
<1>6. seqs \in Seq(Seq(Lines)) /\ Len(seqs) = N /\ \A k \in 1 .. N : seqs[k] = Handle(items[k])
  BY <1>2, <1>5
<1> HIDE DEF seqs
<1>7. Mid(0, cases)
  BY <1>1
<1>8. ASSUME NEW k \in 1 .. N, NEW ds \in Seq(CaseView), Mid(k - 1, ds)
      PROVE  \E es \in Seq(CaseView) : Mid(k, es) /\ Leads(s, ds, seqs[k], es)
  <2> DEFINE item == items[k]
  <2>0. /\ item \in Observe(s) /\ k \in Nat /\ k - 1 \in Nat /\ k - 1 < k /\ Len(ds) \in Nat /\ DOMAIN ds = 1 .. Len(ds)
        /\ (\A m \in 1 .. k - 1 : m \in 1 .. N /\ m # k)
        /\ (\A m \in 1 .. k : m \in 1 .. k - 1 \/ m = k)
    BY <1>2
  <2>1. Untouched(item, ds)
    <3>1. \A i \in 1 .. C : SameSubject(cases[i], item) => ds[i] = cases[i]
      BY <1>3, <1>8, <2>0
    <3>2. \A i \in 1 .. Len(ds) : i > C => ~SameSubject(ds[i], item)
      BY <1>3, <1>8, <2>0
    <3> QED
      BY <1>8, <3>1, <3>2 DEF Untouched
  <2>2. PICK es : Leads(s, ds, Handle(item), es) /\ Handled(s, item, ds, es)
    BY <1>8, <2>0, <2>1, HandleLeads
  <2>3. es \in Seq(CaseView) /\ Len(es) \in Nat
    BY <2>2, SoundFacts DEF Handled
  <2>4. \A i \in 1 .. C : /\ i \in 1 .. Len(ds) /\ IdOf(es[i]) = IdOf(ds[i])
                          /\ IdOf(ds[i]) = IdOf(cases[i])
                          /\ ~SameSubject(ds[i], item) => es[i] = ds[i]
    <3>1. \A i \in 1 .. C : i \in 1 .. Len(ds)
      BY <1>1, <1>8, <2>0
    <3> QED
      BY <1>8, <2>2, <3>1 DEF Handled
  <2>5. \A i \in 1 .. C : (\A m \in 1 .. k : ~SameSubject(cases[i], items[m])) => es[i] = cases[i]
    <3> SUFFICES ASSUME NEW i \in 1 .. C, \A m \in 1 .. k : ~SameSubject(cases[i], items[m]) PROVE es[i] = cases[i]
      OBVIOUS
    <3>1. ds[i] = cases[i]
      BY <1>8, <2>0
    <3>2. k \in 1 .. k
      BY <2>0
    <3> QED
      BY <2>4, <3>1, <3>2
  <2>6. ASSUME NEW i \in 1 .. Len(es), i > C PROVE \E m \in 1 .. k : SameSubject(es[i], items[m])
    <3>1. CASE i > Len(ds)
      <4>1. SameSubject(es[i], item) /\ k \in 1 .. k
        BY <2>0, <2>2, <3>1 DEF Handled
      <4> QED
        BY <4>1
    <3>2. CASE ~ (i > Len(ds))
      <4>1. i \in 1 .. Len(ds)
        BY <2>0, <2>3, <3>2
      <4>2. PICK m \in 1 .. k - 1 : SameSubject(ds[i], items[m])
        BY <1>8, <2>6, <4>1
      <4>3. IdOf(es[i]) = IdOf(ds[i])
        BY <2>2, <4>1 DEF Handled
      <4>4. SameSubject(es[i], items[m]) /\ m \in 1 .. k
        BY <2>0, <4>2, <4>3, IdFacts DEF SameSubject
      <4> QED
        BY <4>4
    <3> QED
      BY <3>1, <3>2
  <2>7. ASSUME NEW m \in 1 .. k PROVE CoveredIn(es, items[m])
    <3>1. CASE m = k
      BY <2>2, <3>1 DEF Handled
    <3>2. CASE m # k
      <4>1. m \in 1 .. k - 1 /\ m \in 1 .. N
        BY <2>0, <3>2
      <4>2. CoveredIn(ds, items[m])
        BY <1>8, <4>1
      <4>3. \A j \in 1 .. Len(ds) : SameSubject(ds[j], items[m]) => es[j] = ds[j]
        BY <1>3, <2>2, <3>2, <4>1 DEF Handled
      <4>4. ASSUME NEW j \in 1 .. Len(es), SameSubject(es[j], items[m]) PROVE j <= Len(ds) /\ SameSubject(ds[j], items[m])
        <5>1. ~ (j > Len(ds))
          BY <1>3, <2>2, <3>2, <4>1, <4>4 DEF Handled
        <5>2. j \in 1 .. Len(ds)
          BY <2>0, <2>3, <5>1
        <5>3. IdOf(es[j]) = IdOf(ds[j])
          BY <2>2, <5>2 DEF Handled
        <5> QED
          BY <4>4, <5>2, <5>3, IdFacts DEF SameSubject
      <4>5. Len(ds) <= Len(es)
        BY <2>2 DEF Handled
      <4> QED
        BY <2>3, <4>2, <4>3, <4>4, <4>5, CoveredKept
    <3> QED
      BY <3>1, <3>2
  <2>8. C <= Len(es)
    BY <1>1, <1>8, <2>0, <2>2, <2>3 DEF Handled
  <2>9. Mid(k, es)
    <3>1. Sound(s, es) /\ NoPending(es)
      BY <2>2 DEF Handled
    <3>2. \A i \in 1 .. C : IdOf(es[i]) = IdOf(cases[i])
      BY <2>4
    <3> QED
      BY <2>5, <2>6, <2>7, <2>8, <3>1, <3>2
  <2> HIDE DEF Mid
  <2> QED
    BY <1>6, <2>2, <2>3, <2>9
<1>9. \A es \in Seq(CaseView) : Mid(N, es) => AllHandled(s, es)
  <2> SUFFICES ASSUME NEW es \in Seq(CaseView), Mid(N, es) PROVE AllHandled(s, es)
    OBVIOUS
  <2>1. \A i \in 1 .. C : ~Supported(s, cases[i]) => es[i] = cases[i]
    BY <1>2 DEF Supported
  <2>2. \A i \in 1 .. Len(es) : i > C => Supported(s, es[i])
    BY <1>2 DEF Supported
  <2>3. \A item \in Observe(s) : CoveredIn(es, item)
    BY <1>2
  <2> QED
    BY <2>1, <2>2, <2>3 DEF AllHandled
<1> HIDE DEF Mid
<1>10. \A k \in 1 .. Len(seqs) : k \in Nat /\ k - 1 \in Nat /\ k \in 1 .. N
  BY <1>2, <1>6
<1>11. \A k \in 1 .. Len(seqs) : \A ds \in Seq(CaseView) : <<k - 1, ds>> \in P =>
         \E es \in Seq(CaseView) : <<k, es>> \in P /\ Leads(s, ds, seqs[k], es)
  BY <1>4, <1>8, <1>10
<1>12. <<0, cases>> \in P
  BY <1>1, <1>4, <1>7
<1>13. /\ FlattenSeq(seqs) \in Seq(Lines)
       /\ \E es \in Seq(CaseView) : <<N, es>> \in P /\ Leads(s, cases, FlattenSeq(seqs), es)
  BY <1>1, <1>6, <1>11, <1>12, LeadsThrough
<1>14. FlattenSeq(seqs) \in Seq(Lines) /\ \E es : Leads(s, cases, FlattenSeq(seqs), es) /\ AllHandled(s, es)
  BY <1>2, <1>4, <1>9, <1>13
<1> QED
  BY <1>14 DEF seqs

\* After reconciliation the cases are what the snapshot supports.
Reconciled(s, ds) ==
  /\ Sound(s, ds) /\ NoPending(ds)
  /\ \A item \in Observe(s) : CoveredIn(ds, item)
  /\ \A i \in DOMAIN ds : ds[i].human # "RESOLVED" /\ ds[i].active => Supported(s, ds[i])

LEMMA SeenIsSupported ==
  ASSUME NEW s, Sound(s, cases), NEW i \in DOMAIN cases, cases[i].human # "RESOLVED"
  PROVE  i \in Seen(s) <=> Supported(s, cases[i])
<1>1. DOMAIN cases = 1 .. Len(cases) /\ Len(cases) \in Nat
  BY SoundFacts
<1>2. ASSUME NEW item, NEW j \in DOMAIN cases, SameSubject(cases[j], item), cases[j].human # "RESOLVED"
      PROVE  Unresolved(item.kind, item.subject) = {j} /\ OpenCase(item) = j
  <2>1. j \in Unresolved(item.kind, item.subject)
    BY <1>2 DEF Unresolved, SameSubject
  <2>2. ASSUME NEW k \in Unresolved(item.kind, item.subject) PROVE k = j
    <3>1. k \in DOMAIN cases /\ cases[k].human # "RESOLVED" /\ SameSubject(cases[k], cases[j]) /\ SameSubject(cases[j], cases[k])
      BY <1>2, <2>2 DEF Unresolved, SameSubject
    <3>2. ~ (k < j) /\ ~ (j < k)
      BY <1>2, <3>1 DEF Sound, OnceSound
    <3> QED
      BY <1>1, <3>1, <3>2
  <2>3. Unresolved(item.kind, item.subject) = {j}
    BY <2>1, <2>2
  <2> QED
    BY <1>1, <2>3, MinimumOfOne DEF OpenCase
<1>3. ASSUME Supported(s, cases[i]) PROVE i \in Seen(s)
  <2>1. PICK item \in Observe(s) : SameSubject(cases[i], item)
    BY <1>3 DEF Supported
  <2>2. Unresolved(item.kind, item.subject) = {i} /\ OpenCase(item) = i
    BY <1>2, <2>1
  <2>3. Unresolved(item.kind, item.subject) # {}
    BY <2>2
  <2> QED
    BY <2>2, <2>3 DEF Seen
<1>4. ASSUME i \in Seen(s) PROVE Supported(s, cases[i])
  <2>1. PICK item \in Observe(s) : Unresolved(item.kind, item.subject) # {} /\ OpenCase(item) = i
    BY <1>4 DEF Seen
  <2>2. PICK j \in DOMAIN cases : SameSubject(cases[j], item) /\ cases[j].human # "RESOLVED"
    BY <2>1 DEF Unresolved, SameSubject
  <2>3. j = i
    BY <1>2, <2>1, <2>2
  <2> QED
    BY <2>2, <2>3 DEF Supported
<1> QED
  BY <1>3, <1>4

LEMMA ClearLeads ==
  ASSUME NEW s, EdgeInv(s), Sound(s, cases), NEW start, AllHandled(s, start)
  PROVE  Clear(s) \in Seq(Lines) /\ \E es : Leads(s, start, Clear(s), es) /\ Reconciled(s, es)
<1> DEFINE gone(i) == cases[i].human # "RESOLVED" /\ i \notin Seen(s) /\ cases[i].active
           line(i) == About("condition_cleared", IdOf(cases[i]))
           seqs == [i \in DOMAIN cases |-> IF gone(i) THEN << line(i) >> ELSE <<>>]
           C == Len(cases)
           N == Len(start)
           Mid(k, ds) ==
             /\ Sound(s, ds) /\ NoPending(ds) /\ Len(ds) = N
             /\ \A i \in 1 .. N : IdOf(ds[i]) = IdOf(start[i])
             /\ \A i \in 1 .. C : i > k /\ ~Supported(s, cases[i]) => ds[i] = cases[i]
             /\ \A i \in 1 .. C : i <= k /\ ~Supported(s, cases[i]) => ds[i].human = "RESOLVED" \/ ~ds[i].active
             /\ \A item \in Observe(s) : CoveredIn(ds, item)
           P == {p \in Nat \X Seq(CaseView) : Mid(p[1], p[2])}
<1>1. /\ cases \in Seq(CaseView) /\ DOMAIN cases = 1 .. C /\ C \in Nat /\ start \in Seq(CaseView) /\ N \in Nat
      /\ DOMAIN start = 1 .. N /\ C <= N
  BY SoundFacts DEF AllHandled
<1>2. \A k \in Nat, ds \in Seq(CaseView) : <<k, ds>> \in P <=> Mid(k, ds)
  OBVIOUS
<1> HIDE DEF P
<1>3. ASSUME NEW i \in 1 .. C, gone(i) PROVE line(i) \in Lines /\ ~Supported(s, cases[i])
  <2>1. line(i) \in Lines
    <3>1. "condition_cleared" \in {"condition_cleared", "reminders_exhausted", "acknowledged", "resolved"}
      OBVIOUS
    <3> QED
      BY <1>1, <1>3, <3>1, AboutStep
  <2> QED
    BY <1>1, <1>3, <2>1, SeenIsSupported
<1>4. seqs \in Seq(Seq(Lines)) /\ Len(seqs) = C /\ \A i \in 1 .. C : seqs[i] = IF gone(i) THEN << line(i) >> ELSE <<>>
  <2>1. <<>> \in Seq(Lines) /\ \A l \in Lines : <<l>> \in Seq(Lines)
    OBVIOUS
  <2>2. \A i \in 1 .. C : (IF gone(i) THEN << line(i) >> ELSE <<>>) \in Seq(Lines)
    <3> HIDE DEF gone, line
    <3> QED
      BY <1>3, <2>1
  <2> HIDE DEF gone, line
  <2> QED
    BY <1>1, <2>2
<1>5. Clear(s) = FlattenSeq(seqs)
  BY DEF Clear
<1> HIDE DEF seqs
<1>6. Mid(0, start)
  BY <1>1 DEF AllHandled
<1>7. ASSUME NEW k \in 1 .. C, NEW ds \in Seq(CaseView), Mid(k - 1, ds)
      PROVE  \E es \in Seq(CaseView) : Mid(k, es) /\ Leads(s, ds, seqs[k], es)
  <2>0. /\ k \in Nat /\ k - 1 \in Nat /\ k > k - 1 /\ k \in 1 .. N /\ DOMAIN ds = 1 .. N /\ Sound(s, ds)
        /\ (\A i \in 1 .. C : i > k => i > k - 1) /\ (\A i \in 1 .. C : i <= k => i <= k - 1 \/ i = k)
    BY <1>1, <1>7
  <2>1. CASE gone(k)
    <3>1. ~Supported(s, cases[k]) /\ ds[k] = cases[k] /\ k \in DOMAIN ds /\ ds[k].human # "RESOLVED"
      BY <1>3, <1>7, <2>0, <2>1
    <3> DEFINE d == [ds[k] EXCEPT !.active = FALSE]
               es == [ds EXCEPT ![k] = d]
    <3>2. line(k) \in Lines /\ Step(s, ds, line(k), es)
      <4>1. "condition_cleared" \in {"condition_cleared", "reminders_exhausted", "acknowledged", "resolved"}
        OBVIOUS
      <4>2. /\ About("condition_cleared", IdOf(ds[k])) \in Lines
            /\ Step(s, ds, About("condition_cleared", IdOf(ds[k])),
                    [ds EXCEPT ![k] = WithLine(ds[k], About("condition_cleared", IdOf(ds[k])))])
        BY <2>0, <3>1, <4>1, AboutStep
      <4>3. WithLine(ds[k], About("condition_cleared", IdOf(ds[k]))) = d
        BY DEF WithLine, About
      <4> QED
        BY <3>1, <4>2, <4>3
    <3>3. Sound(s, es) /\ es \in Seq(CaseView)
      BY <3>2, StepTypes
    <3>4. IdOf(d) = IdOf(ds[k]) /\ ~d.active /\ d.pending = ds[k].pending
      <4>1. ds[k] \in CaseView
        BY <3>1
      <4> QED
        BY <4>1 DEF CaseView, IdOf
    <3> HIDE DEF d
    <3>5. es[k] = d /\ Len(es) = N /\ DOMAIN es = 1 .. N /\ \A i \in 1 .. N : i # k => es[i] = ds[i]
      BY <1>7, <2>0
    <3> HIDE DEF es
    <3>6. \A i \in 1 .. N : IdOf(es[i]) = IdOf(ds[i])
      BY <3>4, <3>5
    <3>7. NoPending(es)
      BY <1>7, <2>0, <3>4, <3>5 DEF NoPending
    <3>8. ASSUME NEW item \in Observe(s) PROVE CoveredIn(es, item)
      <4>1. ~SameSubject(ds[k], item)
        BY <3>1 DEF Supported
      <4>2. \A j \in 1 .. Len(ds) : SameSubject(ds[j], item) => es[j] = ds[j]
        BY <1>7, <3>5, <4>1
      <4>3. \A j \in 1 .. Len(es) : SameSubject(es[j], item) => j <= Len(ds) /\ SameSubject(ds[j], item)
        BY <1>1, <1>7, <3>5, <3>6, IdFacts DEF SameSubject
      <4>4. CoveredIn(ds, item) /\ Len(ds) <= Len(es)
        BY <1>1, <1>7, <3>5
      <4> QED
        BY <3>3, <4>2, <4>3, <4>4, CoveredKept
    <3>9. \A i \in 1 .. C : i > k /\ ~Supported(s, cases[i]) => es[i] = cases[i]
      BY <1>1, <1>7, <2>0, <3>5
    <3>10. \A i \in 1 .. C : i <= k /\ ~Supported(s, cases[i]) => es[i].human = "RESOLVED" \/ ~es[i].active
      BY <1>1, <1>7, <2>0, <3>4, <3>5
    <3>11. \A i \in 1 .. N : IdOf(es[i]) = IdOf(start[i])
      BY <1>7, <3>6
    <3>12. Mid(k, es)
      BY <3>3, <3>5, <3>7, <3>8, <3>9, <3>10, <3>11
    <3>13. Leads(s, ds, seqs[k], es)
      <4>1. seqs[k] = << line(k) >>
        BY <1>4, <2>1
      <4> QED
        BY <3>2, <4>1, LeadsOnce
    <3> QED
      BY <3>3, <3>12, <3>13
  <2>2. CASE ~gone(k)
    <3>1. Leads(s, ds, seqs[k], ds)
      <4>1. seqs[k] = <<>>
        BY <1>4, <2>2
      <4> QED
        BY <4>1, LeadsNowhere
    <3>2. ~Supported(s, cases[k]) => ds[k].human = "RESOLVED" \/ ~ds[k].active
      <4>1. ~Supported(s, cases[k]) => ds[k] = cases[k]
        BY <1>7, <2>0
      <4>2. cases[k].human # "RESOLVED" /\ ~Supported(s, cases[k]) => k \notin Seen(s)
        BY <1>1, SeenIsSupported
      <4> QED
        BY <2>2, <4>1, <4>2
    <3>3. Mid(k, ds)
      BY <1>7, <2>0, <3>2
    <3> QED
      BY <3>1, <3>3
  <2> QED
    BY <2>1, <2>2
<1>8. ASSUME NEW es \in Seq(CaseView), Mid(C, es) PROVE Reconciled(s, es)
  <2>1. DOMAIN es = 1 .. N
    BY <1>8
  <2>2. ASSUME NEW i \in DOMAIN es, es[i].human # "RESOLVED", es[i].active PROVE Supported(s, es[i])
    <3>1. i \in 1 .. N /\ IdOf(es[i]) = IdOf(start[i])
      BY <1>8, <2>1
    <3>2. CASE i > C
      <4>1. Supported(s, start[i])
        BY <3>1, <3>2 DEF AllHandled
      <4> QED
        BY <3>1, <4>1, IdFacts DEF Supported, SameSubject
    <3>3. CASE ~ (i > C)
      <4>1. i \in 1 .. C /\ i <= C
        BY <1>1, <3>1, <3>3
      <4>2. Supported(s, cases[i])
        BY <1>8, <2>2, <4>1
      <4>3. IdOf(start[i]) = IdOf(cases[i])
        BY <4>1 DEF AllHandled
      <4> QED
        BY <3>1, <4>2, <4>3, IdFacts DEF Supported, SameSubject
    <3> QED
      BY <3>2, <3>3
  <2> QED
    BY <1>8, <2>2 DEF Reconciled
<1> HIDE DEF Mid
<1>9. \A k \in 1 .. Len(seqs) : k \in Nat /\ k - 1 \in Nat /\ k \in 1 .. C
  BY <1>1, <1>4
<1>10. \A k \in 1 .. Len(seqs) : \A ds \in Seq(CaseView) : <<k - 1, ds>> \in P =>
         \E es \in Seq(CaseView) : <<k, es>> \in P /\ Leads(s, ds, seqs[k], es)
  BY <1>2, <1>7, <1>9
<1>11. <<0, start>> \in P
  BY <1>1, <1>2, <1>6
<1>12. /\ FlattenSeq(seqs) \in Seq(Lines)
       /\ \E es \in Seq(CaseView) : <<C, es>> \in P /\ Leads(s, start, FlattenSeq(seqs), es)
  BY <1>1, <1>4, <1>10, <1>11, LeadsThrough
<1> QED
  BY <1>1, <1>2, <1>5, <1>8, <1>12

LEMMA ReconcileLeads ==
  ASSUME NEW s, EdgeInv(s), Sound(s, cases), NoPending(cases)
  PROVE  Reconcile(s) \in Seq(Lines) /\ \E es : Leads(s, cases, Reconcile(s), es) /\ Reconciled(s, es)
<1> DEFINE items == Listed(Observe(s))
           first == FlattenSeq([k \in DOMAIN items |-> Handle(items[k])])
<1>1. ListOf(items, Observe(s))
  BY ObserveIsFinite, ListedFacts
<1>2. Reconcile(s) = first \o Clear(s)
  BY NothingPending DEF Reconcile
<1> HIDE DEF items
<1>3. first \in Seq(Lines) /\ \E ds : Leads(s, cases, first, ds) /\ AllHandled(s, ds)
  BY <1>1, ItemsLead
<1> HIDE DEF first
<1>4. PICK ds : Leads(s, cases, first, ds) /\ AllHandled(s, ds)
  BY <1>3
<1>5. PICK es : Leads(s, ds, Clear(s), es) /\ Reconciled(s, es)
  BY <1>4, ClearLeads
<1>6. Clear(s) \in Seq(Lines)
  BY <1>4, ClearLeads
<1>7. Leads(s, cases, first \o Clear(s), es)
  BY <1>3, <1>4, <1>5, <1>6, LeadsOn
<1> QED
  BY <1>2, <1>3, <1>5, <1>6, <1>7

-----------------------------------------------------------------------------
(* Reminders, and notifications that are given up.                         *)

LEMMA StandsStays ==
  ASSUME NEW s, NEW cs, NEW ds, Sound(s, cs), Sound(s, ds), Grows(cs, ds), NEW nid, NEW i, NEW k, Stands(cs, nid, i, k)
  PROVE  Stands(ds, nid, i, k) /\ NoteKept(cs[i].notes[k], ds[i].notes[k])
<1>1. i \in 1 .. Len(cs) /\ k \in 1 .. Len(cs[i].notes) /\ nid = NoteIdOf(IdOf(cs[i]), cs[i].notes[k])
  BY NotePlaces DEF Stands
<1>2. Len(cs) \in Nat /\ Len(ds) \in Nat /\ Len(cs) <= Len(ds) /\ DOMAIN ds = 1 .. Len(ds) /\ CaseGrows(cs[i], ds[i])
  BY <1>1, SoundFacts DEF Grows
<1>3. i \in 1 .. Len(ds) /\ ds[i] \in CaseView
  BY <1>1, <1>2, SoundFacts
<1>4. Len(cs[i].notes) \in Nat /\ Len(ds[i].notes) \in Nat /\ DOMAIN ds[i].notes = 1 .. Len(ds[i].notes)
  BY <1>1, <1>3, SoundFacts, CaseFacts
<1>5. k \in DOMAIN ds[i].notes /\ NoteKept(cs[i].notes[k], ds[i].notes[k]) /\ IdOf(ds[i]) = IdOf(cs[i])
  BY <1>1, <1>2, <1>4 DEF CaseGrows
<1> QED
  BY <1>1, <1>2, <1>3, <1>5 DEF Stands, NoteIdOf, NoteKept

AllStand(ds) == \A nid \in NoteIds : \E i, k : Stands(ds, nid, i, k)

LEMMA AllStandOn ==
  ASSUME NEW s, NEW ds, NEW l, NEW es, AllStand(ds), Step(s, ds, l, es)
  PROVE  AllStand(es)
BY StandsStays DEF AllStand, Step

LEMMA RemindLeads ==
  ASSUME NEW s, Sound(s, cases), NoPending(cases), NEW late
  PROVE  /\ FlattenSeq([i \in DOMAIN cases |-> Remind(cases[i], late)]) \in Seq(Lines)
         /\ \E es : /\ Leads(s, cases, FlattenSeq([i \in DOMAIN cases |-> Remind(cases[i], late)]), es)
                    /\ Sound(s, es) /\ NoPending(es) /\ AllStand(es)
<1> DEFINE seqs == [i \in DOMAIN cases |-> Remind(cases[i], late)]
           C == Len(cases)
           Mid(k, ds) == /\ Sound(s, ds) /\ NoPending(ds) /\ Len(ds) = C /\ AllStand(ds)
                         /\ \A i \in 1 .. C : i > k => ds[i] = cases[i]
           P == {p \in Nat \X Seq(CaseView) : Mid(p[1], p[2])}
<1>1. cases \in Seq(CaseView) /\ DOMAIN cases = 1 .. C /\ C \in Nat
  BY SoundFacts
<1>2. \A k \in Nat, ds \in Seq(CaseView) : <<k, ds>> \in P <=> Mid(k, ds)
  OBVIOUS
<1> HIDE DEF P
<1>3. ASSUME NEW i \in 1 .. C
      PROVE  LET c == cases[i]
                 over == About("reminders_exhausted", IdOf(c))
                 n    == NewNote("REMINDER", Len(c.notes), c.severity)
             IN  \/ Remind(c, late) = <<>>
                 \/ Remind(c, late) = << over >> /\ over \in Lines /\ c.human # "RESOLVED"
                 \/ /\ Remind(c, late) = << Intended(IdOf(c), n) >> /\ Intended(IdOf(c), n) \in Lines
                    /\ c.human # "RESOLVED" /\ c.reminders < MaxReminders
  <2> DEFINE c == cases[i]
             over == About("reminders_exhausted", IdOf(c))
             n    == NewNote("REMINDER", Len(c.notes), c.severity)
  <2>1. c \in CaseView /\ c.reminders \in Nat /\ MaxReminders \in Nat /\ c.pending = {}
    BY <1>1, SoundFacts, CaseFacts, Bounds DEF NoPending
  <2>2. \/ Remind(c, late) = <<>>
        \/ Remind(c, late) = << over >> /\ c.human = "OPEN"
        \/ Remind(c, late) = << Intended(IdOf(c), n) >> /\ c.human = "OPEN" /\ ~ (c.reminders >= MaxReminders)
    BY DEF Remind
  <2>3. c.human = "OPEN" => over \in Lines
    <3>1. "reminders_exhausted" \in {"condition_cleared", "reminders_exhausted", "acknowledged", "resolved"}
      OBVIOUS
    <3> QED
      BY <1>1, <3>1, AboutStep
  <2>4. c.human = "OPEN" /\ ~ (c.reminders >= MaxReminders) => Intended(IdOf(c), n) \in Lines /\ c.reminders < MaxReminders
    <3>1. ~ (c.reminders >= MaxReminders) => c.reminders < MaxReminders
      BY <2>1
    <3>2. c.human = "OPEN" => c.human # "RESOLVED"
      OBVIOUS
    <3> HIDE DEF n
    <3>3. n = NewNote("REMINDER", Len(cases[i].notes), cases[i].severity)
      BY DEF n
    <3> QED
      BY <1>1, <2>1, <3>1, <3>2, <3>3, ReminderStep
  <2> HIDE DEF n, over
  <2>5. c.human = "OPEN" => c.human # "RESOLVED"
    OBVIOUS
  <2>6. \/ Remind(c, late) = <<>>
        \/ Remind(c, late) = << over >> /\ over \in Lines /\ c.human # "RESOLVED"
        \/ /\ Remind(c, late) = << Intended(IdOf(c), n) >> /\ Intended(IdOf(c), n) \in Lines
           /\ c.human # "RESOLVED" /\ c.reminders < MaxReminders
    BY <2>2, <2>3, <2>4, <2>5
  <2> QED
    BY <2>6 DEF n, over
<1>4. seqs \in Seq(Seq(Lines)) /\ Len(seqs) = C /\ \A i \in 1 .. C : seqs[i] = Remind(cases[i], late)
  <2>1. <<>> \in Seq(Lines) /\ \A l \in Lines : <<l>> \in Seq(Lines)
    OBVIOUS
  <2>2. \A i \in 1 .. C : Remind(cases[i], late) \in Seq(Lines)
    BY <1>3, <2>1
  <2> QED
    BY <1>1, <2>2
<1> HIDE DEF seqs
<1>5. Mid(0, cases)
  BY <1>1, NotesOfCases DEF AllStand
<1>6. ASSUME NEW k \in 1 .. C, NEW ds \in Seq(CaseView), Mid(k - 1, ds)
      PROVE  \E es \in Seq(CaseView) : Mid(k, es) /\ Leads(s, ds, seqs[k], es)
  <2> DEFINE c == cases[k]
             over == About("reminders_exhausted", IdOf(c))
             n    == NewNote("REMINDER", Len(c.notes), c.severity)
  <2>0. /\ k \in Nat /\ k > k - 1 /\ DOMAIN ds = 1 .. C /\ k \in DOMAIN ds /\ (\A i \in 1 .. C : i > k => i > k - 1)
        /\ ds[k] = c /\ ds[k].pending = {} /\ Sound(s, ds) /\ AllStand(ds)
    BY <1>1, <1>6 DEF NoPending
  <2>1. CASE Remind(c, late) = <<>>
    <3>1. Leads(s, ds, seqs[k], ds)
      BY <1>4, <2>1, LeadsNowhere
    <3>2. Mid(k, ds)
      BY <1>6, <2>0
    <3> QED
      BY <3>1, <3>2
  <2>2. ASSUME NEW l, Remind(c, late) = <<l>>, NEW d, d.pending = {}, Step(s, ds, l, [ds EXCEPT ![k] = d])
        PROVE  \E es \in Seq(CaseView) : Mid(k, es) /\ Leads(s, ds, seqs[k], es)
    <3> DEFINE es == [ds EXCEPT ![k] = d]
    <3>1. Sound(s, es) /\ es \in Seq(CaseView) /\ AllStand(es)
      BY <2>0, <2>2, StepTypes, AllStandOn
    <3>2. es[k] = d /\ Len(es) = C /\ DOMAIN es = 1 .. C /\ \A i \in 1 .. C : i # k => es[i] = ds[i]
      BY <1>6, <2>0
    <3>3. Leads(s, ds, seqs[k], es)
      <4>1. seqs[k] = <<l>>
        BY <1>4, <2>2
      <4> HIDE DEF es
      <4> QED
        BY <2>2, <4>1, LeadsOnce DEF es
    <3> HIDE DEF es
    <3>4. NoPending(es)
      BY <1>6, <2>0, <2>2, <3>2 DEF NoPending
    <3>5. Mid(k, es)
      BY <1>1, <1>6, <2>0, <3>1, <3>2, <3>4
    <3> QED
      BY <3>1, <3>3, <3>5
  <2>3. CASE Remind(c, late) = << over >> /\ c.human # "RESOLVED"
    <3>1. "reminders_exhausted" \in {"condition_cleared", "reminders_exhausted", "acknowledged", "resolved"}
      OBVIOUS
    <3>2. Step(s, ds, About("reminders_exhausted", IdOf(ds[k])),
               [ds EXCEPT ![k] = WithLine(ds[k], About("reminders_exhausted", IdOf(ds[k])))])
      <4>1. Sound(s, ds) /\ k \in DOMAIN ds /\ ds[k].human # "RESOLVED"
        BY <2>0, <2>3
      <4> HIDE DEF over, n, c
      <4> QED
        BY <3>1, <4>1, AboutStep
    <3>3. WithLine(ds[k], About("reminders_exhausted", IdOf(ds[k]))) = [ds[k] EXCEPT !.quiet = TRUE]
      BY DEF WithLine, About
    <3>4. [ds[k] EXCEPT !.quiet = TRUE].pending = {}
      <4>1. ds[k] \in CaseView
        BY <2>0
      <4> QED
        BY <2>0, <4>1 DEF CaseView
    <3> QED
      BY <2>0, <2>2, <2>3, <3>2, <3>3, <3>4
  <2>4. CASE Remind(c, late) = << Intended(IdOf(c), n) >> /\ c.human # "RESOLVED" /\ c.reminders < MaxReminders
    <3> DEFINE d == [ds[k] EXCEPT !.notes = Append(ds[k].notes, n), !.pending = {}, !.reminders = @ + 1]
    <3>1. n = NewNote("REMINDER", Len(ds[k].notes), ds[k].severity)
      BY <2>0
    <3> HIDE DEF n
    <3>2. Step(s, ds, Intended(IdOf(ds[k]), n), [ds EXCEPT ![k] = d])
      <4>1. ds[k].human # "RESOLVED" /\ ds[k].reminders < MaxReminders
        BY <2>0, <2>4
      <4> QED
        BY <2>0, <3>1, <4>1, ReminderStep
    <3>3. d.pending = {}
      <4>1. ds[k] \in CaseView
        BY <2>0
      <4> QED
        BY <4>1 DEF CaseView
    <3> HIDE DEF d
    <3> QED
      BY <2>0, <2>2, <2>4, <3>2, <3>3
  <2> HIDE DEF Mid
  <2> QED
    BY <1>3, <2>1, <2>3, <2>4
<1> HIDE DEF Mid
<1>7. \A k \in 1 .. Len(seqs) : k \in Nat /\ k - 1 \in Nat /\ k \in 1 .. C
  BY <1>1, <1>4
<1>8. \A k \in 1 .. Len(seqs) : \A ds \in Seq(CaseView) : <<k - 1, ds>> \in P =>
         \E es \in Seq(CaseView) : <<k, es>> \in P /\ Leads(s, ds, seqs[k], es)
  BY <1>2, <1>6, <1>7
<1>9. <<0, cases>> \in P
  BY <1>1, <1>2, <1>5
<1>10. /\ FlattenSeq(seqs) \in Seq(Lines)
       /\ \E es \in Seq(CaseView) : <<C, es>> \in P /\ Leads(s, cases, FlattenSeq(seqs), es)
  BY <1>1, <1>4, <1>8, <1>9, LeadsThrough
<1>11. \A es \in Seq(CaseView) : Mid(C, es) => Sound(s, es) /\ NoPending(es) /\ AllStand(es)
  BY DEF Mid
<1>12. FlattenSeq(seqs) \in Seq(Lines)
       /\ \E es : Leads(s, cases, FlattenSeq(seqs), es) /\ Sound(s, es) /\ NoPending(es) /\ AllStand(es)
  BY <1>1, <1>2, <1>10, <1>11
<1> QED
  BY <1>12 DEF seqs

\* A notification whose attempts are used up is given up.
LEMMA ExhaustOne ==
  ASSUME NEW s, NEW ds, Sound(s, ds), NoPending(ds), AllStand(ds), NEW nid \in NoteIds,
         NEW what \in {"result", "exhausted"}, NEW value, value = IF what = "result" THEN "UNKNOWN" ELSE 0
  PROVE  /\ Delivery(what, nid, value) \in Lines
         /\ \E es : Step(s, ds, Delivery(what, nid, value), es) /\ Sound(s, es) /\ NoPending(es) /\ AllStand(es)
<1>1. PICK i, k : Stands(ds, nid, i, k)
  BY DEF AllStand
<1> DEFINE d == [ds[i] EXCEPT !.notes[k] = [@ EXCEPT !.state = IF what = "result" THEN "UNKNOWN" ELSE "EXHAUSTED"]]
           es == [ds EXCEPT ![i] = d]
<1>2. Delivery(what, nid, value) \in Lines /\ Step(s, ds, Delivery(what, nid, value), es)
  BY <1>1, GivingUpStep
<1>3. i \in DOMAIN ds /\ ds[i] \in CaseView /\ ds \in Seq(CaseView)
  BY <1>1, SoundFacts DEF Stands
<1>4. d.pending = ds[i].pending
  BY <1>3 DEF CaseView
<1> HIDE DEF d
<1>5. NoPending(es)
  BY <1>3, <1>4 DEF NoPending
<1> HIDE DEF es
<1>6. Sound(s, es) /\ AllStand(es)
  BY <1>2, StepTypes, AllStandOn
<1> QED
  BY <1>2, <1>5, <1>6

LEMMA ExhaustLeads ==
  ASSUME NEW s, Sound(s, cases), NEW start, Sound(s, start), NoPending(start), AllStand(start),
         NEW nids, ListOf(nids, NoteIds)
  PROVE  /\ FlattenSeq([k \in DOMAIN nids |-> Exhaust(nids[k])]) \in Seq(Lines)
         /\ \E es : Leads(s, start, FlattenSeq([k \in DOMAIN nids |-> Exhaust(nids[k])]), es) /\ NoPending(es)
<1> DEFINE seqs == [k \in DOMAIN nids |-> Exhaust(nids[k])]
           N == Len(nids)
           P == {p \in Nat \X Seq(CaseView) : Sound(s, p[2]) /\ NoPending(p[2]) /\ AllStand(p[2])}
<1>1. nids \in Seq(NoteIds) /\ DOMAIN nids = 1 .. N /\ N \in Nat /\ \A k \in 1 .. N : nids[k] \in NoteIds
  BY DEF ListOf
<1>2. \A k \in Nat, ds \in Seq(CaseView) : <<k, ds>> \in P <=> Sound(s, ds) /\ NoPending(ds) /\ AllStand(ds)
  OBVIOUS
<1> HIDE DEF P
<1>3. start \in Seq(CaseView)
  BY SoundFacts
<1>4. ASSUME NEW nid \in NoteIds, NEW ds, Sound(s, ds), NoPending(ds), AllStand(ds)
      PROVE  /\ Exhaust(nid) \in Seq(Lines)
             /\ \E es \in Seq(CaseView) : Sound(s, es) /\ NoPending(es) /\ AllStand(es) /\ Leads(s, ds, Exhaust(nid), es)
  <2> DEFINE unknown == Delivery("result", nid, "UNKNOWN")
             over    == Delivery("exhausted", nid, 0)
  <2>1. /\ unknown \in Lines
        /\ \E es : Step(s, ds, unknown, es) /\ Sound(s, es) /\ NoPending(es) /\ AllStand(es)
    <3>1. "result" \in {"result", "exhausted"} /\ "UNKNOWN" = IF "result" = "result" THEN "UNKNOWN" ELSE 0
      OBVIOUS
    <3> QED
      BY <1>4, <3>1, ExhaustOne
  <2>2. ASSUME NEW fs, Sound(s, fs), NoPending(fs), AllStand(fs)
        PROVE  /\ over \in Lines
               /\ \E es : Step(s, fs, over, es) /\ Sound(s, es) /\ NoPending(es) /\ AllStand(es)
    <3>1. "exhausted" \in {"result", "exhausted"} /\ 0 = IF "exhausted" = "result" THEN "UNKNOWN" ELSE 0
      OBVIOUS
    <3> QED
      BY <2>2, <3>1, ExhaustOne
  <2>3. ds \in Seq(CaseView)
    BY <1>4, SoundFacts
  <2>4. \/ Exhaust(nid) = <<>>
        \/ Exhaust(nid) = <<>> \o << over >>
        \/ Exhaust(nid) = << unknown >> \o << over >>
    BY DEF Exhaust
  <2> HIDE DEF unknown, over
  <2>5. over \in Lines /\ <<>> \in Seq(Lines) /\ << over >> \in Seq(Lines) /\ << unknown >> \in Seq(Lines)
        /\ <<>> \o << over >> \in Seq(Lines) /\ << unknown >> \o << over >> \in Seq(Lines)
    BY <1>4, <2>1, <2>2
  <2>6. CASE Exhaust(nid) = <<>>
    <3>1. Leads(s, ds, <<>>, ds)
      BY <2>3, LeadsNowhere
    <3> QED
      BY <1>4, <2>3, <2>5, <2>6, <3>1
  <2>7. CASE Exhaust(nid) = <<>> \o << over >>
    <3>1. PICK es : Step(s, ds, over, es) /\ Sound(s, es) /\ NoPending(es) /\ AllStand(es)
      BY <1>4, <2>2
    <3>2. Leads(s, ds, <<>>, ds) /\ Leads(s, ds, << over >>, es) /\ es \in Seq(CaseView)
      BY <2>3, <3>1, LeadsNowhere, LeadsOnce, StepTypes
    <3>3. Leads(s, ds, <<>> \o << over >>, es)
      BY <2>5, <3>2, LeadsOn
    <3> QED
      BY <2>5, <2>7, <3>1, <3>2, <3>3
  <2>8. CASE Exhaust(nid) = << unknown >> \o << over >>
    <3>1. PICK fs : Step(s, ds, unknown, fs) /\ Sound(s, fs) /\ NoPending(fs) /\ AllStand(fs)
      BY <2>1
    <3>2. PICK es : Step(s, fs, over, es) /\ Sound(s, es) /\ NoPending(es) /\ AllStand(es)
      BY <2>2, <3>1
    <3>3. Leads(s, ds, << unknown >>, fs) /\ Leads(s, fs, << over >>, es) /\ es \in Seq(CaseView)
      BY <3>1, <3>2, LeadsOnce, StepTypes
    <3>4. Leads(s, ds, << unknown >> \o << over >>, es)
      BY <2>5, <3>3, LeadsOn
    <3> QED
      BY <2>5, <2>8, <3>2, <3>3, <3>4
  <2> QED
    BY <2>4, <2>6, <2>7, <2>8
<1>5. seqs \in Seq(Seq(Lines)) /\ Len(seqs) = N /\ \A k \in 1 .. N : seqs[k] = Exhaust(nids[k])
  <2>1. \A k \in 1 .. N : Exhaust(nids[k]) \in Seq(Lines)
    BY <1>1, <1>4
  <2> QED
    BY <1>1, <2>1
<1> HIDE DEF seqs
<1>6. \A k \in 1 .. Len(seqs) : k \in Nat /\ k - 1 \in Nat /\ k \in 1 .. N
  BY <1>1, <1>5
<1>7. \A k \in 1 .. Len(seqs) : \A ds \in Seq(CaseView) : <<k - 1, ds>> \in P =>
         \E es \in Seq(CaseView) : <<k, es>> \in P /\ Leads(s, ds, seqs[k], es)
  <2> SUFFICES ASSUME NEW k \in 1 .. Len(seqs), NEW ds \in Seq(CaseView), <<k - 1, ds>> \in P
               PROVE  \E es \in Seq(CaseView) : <<k, es>> \in P /\ Leads(s, ds, seqs[k], es)
    OBVIOUS
  <2>1. Sound(s, ds) /\ NoPending(ds) /\ AllStand(ds) /\ seqs[k] = Exhaust(nids[k]) /\ nids[k] \in NoteIds /\ k \in Nat
    BY <1>1, <1>2, <1>5, <1>6
  <2>2. PICK es \in Seq(CaseView) : Sound(s, es) /\ NoPending(es) /\ AllStand(es) /\ Leads(s, ds, Exhaust(nids[k]), es)
    BY <1>4, <2>1
  <2> QED
    BY <1>2, <2>1, <2>2
<1>8. <<0, start>> \in P
  BY <1>2, <1>3
<1>9. /\ FlattenSeq(seqs) \in Seq(Lines)
      /\ \E es \in Seq(CaseView) : <<N, es>> \in P /\ Leads(s, start, FlattenSeq(seqs), es)
  BY <1>3, <1>5, <1>7, <1>8, LeadsThrough
<1>10. FlattenSeq(seqs) \in Seq(Lines) /\ \E es : Leads(s, start, FlattenSeq(seqs), es) /\ NoPending(es)
  BY <1>1, <1>2, <1>9
<1> QED
  BY <1>10 DEF seqs

LEMMA TickLeads ==
  ASSUME NEW s, Sound(s, cases), NoPending(cases), NEW late
  PROVE  TickLines(late) \in Seq(Lines) /\ \E es : Leads(s, cases, TickLines(late), es) /\ NoPending(es)
<1> DEFINE first == FlattenSeq([i \in DOMAIN cases |-> Remind(cases[i], late)])
           nids == Listed(NoteIds)
           second == FlattenSeq([k \in DOMAIN nids |-> Exhaust(nids[k])])
<1>1. TickLines(late) = first \o second
  BY DEF TickLines
<1>2. ListOf(nids, NoteIds)
  BY NoteIdsAreFinite, ListedFacts
<1> HIDE DEF nids
<1>3. first \in Seq(Lines) /\ \E ds : Leads(s, cases, first, ds) /\ Sound(s, ds) /\ NoPending(ds) /\ AllStand(ds)
  BY RemindLeads
<1> HIDE DEF first
<1>4. PICK ds : Leads(s, cases, first, ds) /\ Sound(s, ds) /\ NoPending(ds) /\ AllStand(ds)
  BY <1>3
<1>5. second \in Seq(Lines) /\ \E es : Leads(s, ds, second, es) /\ NoPending(es)
  BY <1>2, <1>4, ExhaustLeads
<1> HIDE DEF second
<1>6. PICK es : Leads(s, ds, second, es) /\ NoPending(es)
  BY <1>5
<1>7. Leads(s, cases, first \o second, es)
  BY <1>3, <1>4, <1>5, <1>6, LeadsOn
<1> QED
  BY <1>1, <1>3, <1>5, <1>6, <1>7

-----------------------------------------------------------------------------
(* What a step makes of the notifications.                                 *)

NotesIn(cs) == UNION {{NoteIdOf(IdOf(cs[i]), cs[i].notes[k]) : k \in DOMAIN cs[i].notes} : i \in DOMAIN cs}
NoteIn(cs, nid) == cs[PlaceIn(cs, nid.case)].notes[NotePlaceIn(cs, nid)]

LEMMA NotesAreThose ==
  /\ NoteIds = NotesIn(cases) /\ NoteIds' = NotesIn(cases')
  /\ \A nid : TheNote(nid) = NoteIn(cases, nid)
  /\ \A nid : TheNote(nid)' = NoteIn(cases', nid)
<1>1. NoteIds = NotesIn(cases) /\ NoteIds' = NotesIn(cases')
  BY DEF NoteIds, NotesIn
<1>2. \A nid : TheNote(nid) = NoteIn(cases, nid)
  BY DEF TheNote, NoteIn, Place, PlaceIn, NotePlace, NotePlaceIn
<1>3. \A nid : TheNote(nid)' = NoteIn(cases', nid)
  BY DEF TheNote, NoteIn, Place, PlaceIn, NotePlace, NotePlaceIn
<1> QED
  BY <1>1, <1>2, <1>3

LEMMA NotesStand ==
  ASSUME NEW s, NEW cs, Sound(s, cs)
  PROVE  /\ \A nid : nid \in NotesIn(cs) <=> \E i, k : Stands(cs, nid, i, k)
         /\ \A nid, i, k : Stands(cs, nid, i, k) => NoteIn(cs, nid) = cs[i].notes[k]
         /\ \A nid \in NotesIn(cs) : NoteIn(cs, nid) \in Note
<1>1. \A nid : nid \in NotesIn(cs) <=> \E i, k : Stands(cs, nid, i, k)
  BY DEF NotesIn, Stands
<1>2. ASSUME NEW nid, NEW i, NEW k, Stands(cs, nid, i, k)
      PROVE  NoteIn(cs, nid) = cs[i].notes[k] /\ cs[i].notes[k] \in Note
  BY <1>2, NotePlaces DEF NoteIn
<1> QED
  BY <1>1, <1>2

\* A step without a call leaves the notifications as they were, and adds unused ones.
LEMMA NotesGrow ==
  ASSUME NEW s, NEW cs, NEW ds, Sound(s, cs), Sound(s, ds), Grows(cs, ds)
  PROVE  /\ NotesIn(cs) \subseteq NotesIn(ds)
         /\ \A nid \in NotesIn(cs) : NoteKept(NoteIn(cs, nid), NoteIn(ds, nid))
         /\ \A nid \in NotesIn(ds) : nid \notin NotesIn(cs) => Unused(NoteIn(ds, nid))
<1>1. ASSUME NEW nid \in NotesIn(cs)
      PROVE  nid \in NotesIn(ds) /\ NoteKept(NoteIn(cs, nid), NoteIn(ds, nid))
  <2>1. PICK i, k : Stands(cs, nid, i, k)
    BY NotesStand
  <2>2. Stands(ds, nid, i, k) /\ NoteKept(cs[i].notes[k], ds[i].notes[k])
    BY <2>1, StandsStays
  <2>3. NoteIn(cs, nid) = cs[i].notes[k]
    BY <2>1, NotesStand
  <2>4. NoteIn(ds, nid) = ds[i].notes[k] /\ nid \in NotesIn(ds)
    BY <2>2, NotesStand
  <2> QED
    BY <2>2, <2>3, <2>4
<1>2. ASSUME NEW nid \in NotesIn(ds), nid \notin NotesIn(cs)
      PROVE  Unused(NoteIn(ds, nid))
  <2>1. PICK i, k : Stands(ds, nid, i, k)
    BY NotesStand
  <2>2. /\ i \in 1 .. Len(ds) /\ k \in 1 .. Len(ds[i].notes) /\ nid = NoteIdOf(IdOf(ds[i]), ds[i].notes[k])
        /\ NoteIn(ds, nid) = ds[i].notes[k]
    BY <2>1, NotePlaces, NotesStand DEF Stands
  <2>3. Len(cs) \in Nat /\ Len(ds) \in Nat /\ DOMAIN cs = 1 .. Len(cs)
    BY SoundFacts
  <2>4. i \in 1 .. Len(cs)
    <3>1. ~ (i \in 1 .. Len(cs)) => i > Len(cs)
      BY <2>2, <2>3
    <3>2. i > Len(cs) => ds[i].notes = <<>>
      BY <2>2 DEF Grows
    <3>3. ds[i].notes # <<>>
      BY <2>2
    <3> QED
      BY <3>1, <3>2, <3>3
  <2>5. CaseGrows(cs[i], ds[i]) /\ cs[i] \in CaseView /\ ds[i] \in CaseView
    BY <2>2, <2>4, SoundFacts DEF Grows
  <2>6. Len(cs[i].notes) \in Nat /\ DOMAIN cs[i].notes = 1 .. Len(cs[i].notes) /\ Len(ds[i].notes) \in Nat
    BY <2>5, CaseFacts
  <2>7. ~ (k \in 1 .. Len(cs[i].notes))
    <3> SUFFICES ASSUME k \in 1 .. Len(cs[i].notes) PROVE FALSE
      OBVIOUS
    <3>1. NoteKept(cs[i].notes[k], ds[i].notes[k]) /\ IdOf(ds[i]) = IdOf(cs[i])
      BY <2>5 DEF CaseGrows
    <3>2. nid = NoteIdOf(IdOf(cs[i]), cs[i].notes[k])
      BY <2>2, <3>1 DEF NoteIdOf, NoteKept
    <3>3. Stands(cs, nid, i, k)
      BY <2>3, <2>4, <2>6, <3>2 DEF Stands
    <3> QED
      BY <1>2, <3>3, NotesStand
  <2>8. k > Len(cs[i].notes)
    BY <2>2, <2>6, <2>7
  <2> QED
    BY <2>2, <2>5, <2>8 DEF CaseGrows
<1> QED
  BY <1>1, <1>2

Final(cs, ds) == \A i \in DOMAIN cs : cs[i].human = "RESOLVED" => FinalKept(cs[i], ds[i])

LEMMA FinalWhenGrown ==
  ASSUME NEW cs \in Seq(CaseView), NEW ds, Grows(cs, ds)
  PROVE  Final(cs, ds)
<1>1. DOMAIN cs = 1 .. Len(cs)
  OBVIOUS
<1> QED
  BY <1>1 DEF Final, Grows, CaseGrows

LEMMA FinalWhenSame ==
  ASSUME NEW cs \in Seq(CaseView)
  PROVE  Final(cs, cs)
<1>1. \A i \in DOMAIN cs : cs[i] \in CaseView
  OBVIOUS
<1>2. \A c \in CaseView : FinalKept(c, c)
  BY DEF FinalKept, CaseView
<1> QED
  BY <1>1, <1>2 DEF Final

\* An attempt and a result are about one notification, and all else is as it was.
LEMMA OneDelivery ==
  ASSUME NEW s, NEW cs, Sound(s, cs), NEW nid \in NotesIn(cs),
         NEW what \in {"attempted", "result", "exhausted"}, NEW value,
         what = "attempted" => value \in Nat, what = "result" => value \in NoteStates,
         NEW ds, ds = After(cs, Delivery(what, nid, value))
  PROVE  /\ Sound(s, ds) /\ Final(cs, ds) /\ NotesIn(ds) = NotesIn(cs)
         /\ NoPending(cs) => NoPending(ds)
         /\ NoteIn(ds, nid) = WithDelivery(NoteIn(cs, nid), Delivery(what, nid, value))
         /\ \A other \in NotesIn(cs) : other # nid => NoteIn(ds, other) = NoteIn(cs, other)
<1>1. PICK i, k : Stands(cs, nid, i, k)
  BY NotesStand
<1> DEFINE n == cs[i].notes[k]
<1>2. /\ i \in DOMAIN cs /\ k \in DOMAIN cs[i].notes /\ cs[i] \in CaseView /\ cs \in Seq(CaseView)
      /\ DOMAIN cs[i].notes = 1 .. Len(cs[i].notes) /\ cs[i].notes \in Seq(Note) /\ NoteIn(cs, nid) = n
  BY <1>1, SoundFacts, NotesStand, CaseFacts DEF Stands
<1> DEFINE m == WithDelivery(n, Delivery(what, nid, value))
<1>0. /\ OnlyNote(cs, After(cs, Delivery(what, nid, value)), i, k, m)
      /\ Sound(s, After(cs, Delivery(what, nid, value)))
      /\ m.intent = n.intent /\ m.ordinal = n.ordinal
  BY <1>1, DeliveryAfter
<1>3. m = WithDelivery(n, Delivery(what, nid, value))
  OBVIOUS
<1> HIDE DEF m
<1>4. /\ m = CASE what = "attempted" -> [n EXCEPT !.attempts = value, !.state = "ATTEMPTING"]
               [] what = "result"    -> [n EXCEPT !.state = value]
               [] what = "exhausted" -> [n EXCEPT !.state = "EXHAUSTED"]
      /\ m.intent = n.intent /\ m.ordinal = n.ordinal
  <2>1. m.intent = n.intent /\ m.ordinal = n.ordinal
    BY <1>0
  <2> DEFINE l == Delivery(what, nid, value)
  <2>2. l.line = what /\ l.value = value /\ m = WithDelivery(n, l)
    BY <1>3 DEF Delivery
  <2> HIDE DEF l, n
  <2>3. m = CASE what = "attempted" -> [n EXCEPT !.attempts = value, !.state = "ATTEMPTING"]
              [] what = "result"    -> [n EXCEPT !.state = value]
              [] what = "exhausted" -> [n EXCEPT !.state = "EXHAUSTED"]
    BY <2>2 DEF WithDelivery
  <2> QED
    BY <2>1, <2>3
<1>5. PICK d : /\ ds = [cs EXCEPT ![i] = d] /\ d.notes = [cs[i].notes EXCEPT ![k] = m] /\ d.pending = cs[i].pending
               /\ IdOf(d) = IdOf(cs[i]) /\ FinalKept(cs[i], d)
  BY <1>0 DEF OnlyNote
<1> HIDE DEF n
<1>6. ds = [cs EXCEPT ![i] = d]
  BY <1>5
<1>s. Sound(s, ds)
  BY <1>0
<1>7. DOMAIN d.notes = DOMAIN cs[i].notes /\ d.notes[k] = m
      /\ \A l \in DOMAIN cs[i].notes : l # k => d.notes[l] = cs[i].notes[l]
  BY <1>2, <1>5
<1>8. /\ DOMAIN ds = DOMAIN cs /\ ds[i] = d /\ \A j \in DOMAIN cs : j # i => ds[j] = cs[j]
  BY <1>2, <1>6
<1>9. \A o, j, l : Stands(cs, o, j, l) <=> Stands(ds, o, j, l)
  <2> SUFFICES ASSUME NEW o, NEW j, NEW l PROVE Stands(cs, o, j, l) <=> Stands(ds, o, j, l)
    OBVIOUS
  <2>1. CASE j # i
    BY <1>8, <2>1 DEF Stands
  <2>2. CASE j = i
    <3>1. \A x : x \in DOMAIN cs[i].notes => NoteIdOf(IdOf(d), d.notes[x]) = NoteIdOf(IdOf(cs[i]), cs[i].notes[x])
      BY <1>4, <1>5, <1>7 DEF NoteIdOf, n
    <3> QED
      BY <1>2, <1>7, <1>8, <2>2, <3>1 DEF Stands
  <2> QED
    BY <2>1, <2>2
<1>10. NotesIn(ds) = NotesIn(cs)
  <2>1. \A o : o \in NotesIn(cs) <=> \E j, l : Stands(cs, o, j, l)
    BY NotesStand
  <2>2. \A o : o \in NotesIn(ds) <=> \E j, l : Stands(ds, o, j, l)
    BY <1>s, NotesStand
  <2>3. \A o : o \in NotesIn(ds) <=> o \in NotesIn(cs)
    BY <1>9, <2>1, <2>2
  <2> HIDE DEF NotesIn
  <2> QED
    BY <2>3
<1>11. Final(cs, ds)
  <2> SUFFICES ASSUME NEW j \in DOMAIN cs PROVE FinalKept(cs[j], ds[j])
    BY DEF Final
  <2>1. CASE j = i
    BY <1>5, <1>8, <2>1
  <2>2. CASE j # i
    <3>1. cs[j] \in CaseView
      BY <1>2
    <3> QED
      BY <1>8, <2>2, <3>1 DEF FinalKept, CaseView
  <2> QED
    BY <2>1, <2>2
<1>12. NoPending(cs) => NoPending(ds)
  BY <1>2, <1>5, <1>8 DEF NoPending
<1>13. NoteIn(ds, nid) = m
  <2>1. NoteIn(ds, nid) = ds[i].notes[k]
    BY <1>1, <1>s, <1>9, NotesStand
  <2> QED
    BY <1>7, <1>8, <2>1
<1>14. ASSUME NEW o \in NotesIn(cs), o # nid PROVE NoteIn(ds, o) = NoteIn(cs, o)
  <2>1. PICK j, l : Stands(cs, o, j, l)
    BY NotesStand
  <2>2. NoteIn(cs, o) = cs[j].notes[l] /\ NoteIn(ds, o) = ds[j].notes[l]
    BY <1>s, <1>9, <2>1, NotesStand
  <2>3. j # i \/ l # k
    BY <1>1, <1>14, <2>1 DEF Stands
  <2> QED
    BY <1>7, <1>8, <2>1, <2>2, <2>3 DEF Stands
<1> QED
  BY <1>s, <1>2, <1>3, <1>4, <1>10, <1>11, <1>12, <1>13, <1>14

-----------------------------------------------------------------------------
(* The Edge moves on, and what was true of its evidence stays so.          *)

Advances(s, u) ==
  /\ \A t \in Tasks :
       /\ s.task[t].blocks <= u.task[t].blocks
       /\ s.task[t].publish = "exhausted" => u.task[t].publish = "exhausted"
       /\ EffectiveRank(s, t) <= EffectiveRank(u, t)
       /\ s.task[t].reasons \subseteq u.task[t].reasons
       /\ s.task[t].state # "none" => u.task[t].state # "none" /\ (TaskOpen(u, t) => TaskOpen(s, t))
  /\ \A r \in Robots : s.device[r].episode <= u.device[r].episode

LEMMA ReachedOnward ==
  ASSUME NEW s, EdgeInv(s), NEW u, EdgeInv(u), Advances(s, u),
         NEW kind, NEW subject, NEW key, Shaped(kind, subject, key), Reached(s, kind, subject, key)
  PROVE  Reached(u, kind, subject, key)
<1>1. key.at \in Nat /\ key \in Key
  BY DEF Shaped, Key
<1>2. kind = "ASSISTANCE_REQUIRED" => key.at <= u.task[subject].blocks
  <2> SUFFICES ASSUME kind = "ASSISTANCE_REQUIRED" PROVE key.at <= u.task[subject].blocks
    OBVIOUS
  <2>1. subject \in Tasks
    BY DEF Shaped
  <2>2. s.task[subject].blocks \in Nat /\ u.task[subject].blocks \in Nat
    BY <2>1, EdgeFacts
  <2>3. key.at <= s.task[subject].blocks /\ s.task[subject].blocks <= u.task[subject].blocks
    BY <2>1 DEF Reached, Advances
  <2> QED
    BY <1>1, <2>2, <2>3
<1>3. kind = "RESULT_UNCONFIRMED" /\ "exhausted" \in key.with => u.task[subject].publish = "exhausted"
  <2>1. kind = "RESULT_UNCONFIRMED" => subject \in Tasks
    BY DEF Shaped
  <2> QED
    BY <2>1 DEF Reached, Advances
<1>4. kind = "EVIDENCE_CONFLICT" /\ subject \in Tasks =>
        key.at <= EffectiveRank(u, subject) /\ key.with \subseteq u.task[subject].reasons
  <2> SUFFICES ASSUME kind = "EVIDENCE_CONFLICT", subject \in Tasks
               PROVE  key.at <= EffectiveRank(u, subject) /\ key.with \subseteq u.task[subject].reasons
    OBVIOUS
  <2>1. key.at <= EffectiveRank(s, subject) /\ key.with \subseteq s.task[subject].reasons
    BY DEF Reached
  <2>2. EffectiveRank(s, subject) <= EffectiveRank(u, subject) /\ s.task[subject].reasons \subseteq u.task[subject].reasons
    BY DEF Advances
  <2>3. EffectiveRank(s, subject) \in 0 .. 2 /\ EffectiveRank(u, subject) \in 0 .. 2
    BY EdgeFacts
  <2> HIDE DEF EffectiveRank
  <2>4. \A a, b \in 0 .. 2 : a <= b => (key.at <= a => key.at <= b)
    BY <1>1
  <2> QED
    BY <2>1, <2>2, <2>3, <2>4
<1>5. kind = "DEVICE_UNREACHABLE" =>
        /\ key.at <= u.device[subject].episode
        /\ \A t \in key.with : u.task[t].state # "none"
  <2> SUFFICES ASSUME kind = "DEVICE_UNREACHABLE"
               PROVE  key.at <= u.device[subject].episode /\ \A t \in key.with : u.task[t].state # "none"
    OBVIOUS
  <2>1. subject \in Robots /\ key.with \subseteq Tasks
    BY DEF Shaped
  <2>2. s.device[subject].episode \in Nat /\ u.device[subject].episode \in Nat
    BY <2>1, EdgeFacts
  <2>3. key.at <= s.device[subject].episode /\ s.device[subject].episode <= u.device[subject].episode
    BY <2>1 DEF Reached, Advances
  <2>4. \A t \in key.with : s.task[t].state # "none"
    BY DEF Reached
  <2> QED
    BY <1>1, <2>1, <2>2, <2>3, <2>4 DEF Advances
<1> QED
  BY <1>2, <1>3, <1>4, <1>5 DEF Reached

LEMMA SoundOnward ==
  ASSUME NEW s, EdgeInv(s), NEW u, EdgeInv(u), Advances(s, u), NEW cs, Sound(s, cs)
  PROVE  Sound(u, cs)
<1>1. EvidenceSound(u, cs)
  <2>1. EvidenceSound(s, cs)
    BY DEF Sound
  <2>2. \A i \in DOMAIN cs :
          LET c == cs[i] IN
          /\ Shaped(c.kind, c.subject, c.born) /\ Shaped(c.kind, c.subject, c.key)
          /\ NotAfter(c.kind, c.born, c.key)
          /\ Reached(s, c.kind, c.subject, c.born) /\ Reached(s, c.kind, c.subject, c.key)
    BY <2>1 DEF EvidenceSound
  <2>3. \A i \in DOMAIN cs :
          Reached(u, cs[i].kind, cs[i].subject, cs[i].born) /\ Reached(u, cs[i].kind, cs[i].subject, cs[i].key)
    BY <2>2, ReachedOnward
  <2> QED
    BY <2>1, <2>2, <2>3 DEF EvidenceSound
<1>2. ASSUME NEW i \in DOMAIN cs, Occupied(u, cs[i]) PROVE Occupied(s, cs[i])
  <2> DEFINE c == cs[i]
  <2>1. /\ c.kind = "DEVICE_UNREACHABLE" /\ c.born.at = u.device[c.subject].episode
        /\ \E t \in c.born.with : TaskOpen(u, t)
    BY <1>2 DEF Occupied
  <2>2. Shaped(c.kind, c.subject, c.born) /\ Reached(s, c.kind, c.subject, c.born)
    BY DEF Sound, EvidenceSound
  <2> HIDE DEF c
  <2>3. c.subject \in Robots /\ c.born.with \subseteq Tasks
    BY <2>1, <2>2 DEF Shaped
  <2>4. c.born.at <= s.device[c.subject].episode /\ \A t \in c.born.with : s.task[t].state # "none"
    BY <2>1, <2>2 DEF Reached
  <2>5. s.device[c.subject].episode \in Nat /\ u.device[c.subject].episode \in Nat
    BY <2>3, EdgeFacts
  <2>6. s.device[c.subject].episode <= u.device[c.subject].episode
    BY <2>3 DEF Advances
  <2>7. c.born.at = s.device[c.subject].episode
    BY <2>1, <2>4, <2>5, <2>6
  <2>8. \E t \in c.born.with : TaskOpen(s, t)
    BY <2>1, <2>3, <2>4 DEF Advances
  <2>9. Occupied(s, c)
    BY <2>1, <2>7, <2>8 DEF Occupied
  <2> QED
    BY <2>9 DEF c
<1>3. OccupiedSound(u, cs)
  BY <1>2 DEF Sound, OccupiedSound
<1> QED
  BY <1>1, <1>3 DEF Sound

\* What every move of a task keeps.
TaskAdvances(s, t, new) ==
  LET old == s.task[t] IN
  /\ new \in TaskSummary /\ (new.state = "blocked" => new.block = new.blocks)
  /\ old.blocks <= new.blocks /\ (old.publish = "exhausted" => new.publish = "exhausted")
  /\ old.reasons \subseteq new.reasons /\ (old.conflict => new.conflict)
  /\ old.state = "ended" => new.state = "ended"
  /\ old.state # "none" => new.state # "none" /\ (new.state \in {"open", "blocked"} => TaskOpen(s, t))
  /\ new.state \in {"open", "blocked"} /\ ~TaskOpen(s, t) => OpenTaskOf(s, RobotOf[t]) = {}

LEMMA TaskMovesTo ==
  ASSUME NEW s, EdgeInv(s), NEW t \in Tasks, NEW new, TaskAdvances(s, t, new), NEW u, u = [s EXCEPT !.task[t] = new]
  PROVE  EdgeInv(u) /\ Advances(s, u)
<1>1. s \in [task : [Tasks -> TaskSummary], device : [Robots -> DeviceSummary]] /\ new \in TaskSummary
  BY DEF EdgeInv, TaskAdvances
<1>2. /\ u \in [task : [Tasks -> TaskSummary], device : [Robots -> DeviceSummary]] /\ u.device = s.device
      /\ u.task[t] = new /\ \A x \in Tasks : x # t => u.task[x] = s.task[x]
  BY <1>1
<1> USE DEF TaskOpen
<1>3. \A x \in Tasks : x # t => (TaskOpen(u, x) <=> TaskOpen(s, x)) /\ EffectiveRank(u, x) = EffectiveRank(s, x)
  BY <1>2 DEF EffectiveRank
<1>4. EdgeInv(u)
  <2>1. \A x \in Tasks : u.task[x].state = "blocked" => u.task[x].block = u.task[x].blocks
    BY <1>2 DEF EdgeInv, TaskAdvances
  <2>2. ASSUME NEW x \in Tasks, x # t, RobotOf[x] = RobotOf[t], TaskOpen(u, x), TaskOpen(u, t) PROVE FALSE
    <3>1. TaskOpen(s, x) /\ new.state \in {"open", "blocked"}
      BY <1>2, <1>3, <2>2
    <3>2. x \in OpenTaskOf(s, RobotOf[t])
      BY <2>2, <3>1 DEF OpenTaskOf
    <3>3. TaskOpen(s, t)
      BY <3>1, <3>2 DEF TaskAdvances
    <3> QED
      BY <2>2, <3>1, <3>3 DEF EdgeInv
  <2>3. ASSUME NEW x \in Tasks, NEW y \in Tasks, RobotOf[x] = RobotOf[y], TaskOpen(u, x), TaskOpen(u, y) PROVE x = y
    <3>1. CASE x = t
      BY <2>2, <2>3, <3>1
    <3>2. CASE y = t
      BY <2>2, <2>3, <3>2
    <3>3. CASE x # t /\ y # t
      BY <1>3, <2>3, <3>3 DEF EdgeInv
    <3> QED
      BY <3>1, <3>2, <3>3
  <2> QED
    BY <1>2, <2>1, <2>3 DEF EdgeInv
<1>5. Advances(s, u)
  <2>1. \A x \in Tasks : s.task[x].blocks \in Nat
    BY EdgeFacts
  <2>2. \A r \in Robots : s.device[r].episode \in Nat
    BY EdgeFacts
  <2>3. EffectiveRank(s, t) <= EffectiveRank(u, t)
    <3>1. (s.task[t].conflict => u.task[t].conflict) /\ (s.task[t].state = "ended" => u.task[t].state = "ended")
      BY <1>2 DEF TaskAdvances
    <3> QED
      BY <3>1 DEF EffectiveRank
  <2>4. \A x \in Tasks : EffectiveRank(s, x) <= EffectiveRank(u, x)
    <3>1. \A x \in Tasks : EffectiveRank(s, x) \in 0 .. 2
      BY EdgeFacts
    <3> HIDE DEF EffectiveRank
    <3> QED
      BY <1>3, <2>3, <3>1
  <2>5. ASSUME NEW x \in Tasks
        PROVE  /\ s.task[x].blocks <= u.task[x].blocks
               /\ s.task[x].publish = "exhausted" => u.task[x].publish = "exhausted"
               /\ s.task[x].reasons \subseteq u.task[x].reasons
               /\ s.task[x].state # "none" => u.task[x].state # "none" /\ (TaskOpen(u, x) => TaskOpen(s, x))
    <3>1. CASE x # t
      BY <1>2, <1>3, <2>1, <3>1
    <3>2. CASE x = t
      BY <1>2, <3>2 DEF TaskAdvances
    <3> QED
      BY <3>1, <3>2
  <2> QED
    BY <1>2, <2>2, <2>4, <2>5 DEF Advances
<1> QED
  BY <1>4, <1>5

\* The moves of a task and of a device.
LEMMA DeviceChanges ==
  ASSUME NEW old \in DeviceSummary, NEW new,
         \/ new = [old EXCEPT !.offline = TRUE, !.episode = @ + 1]
         \/ new = [old EXCEPT !.offline = FALSE]
         \/ new = [old EXCEPT !.regression = TRUE]
  PROVE  new \in DeviceSummary /\ old.episode <= new.episode
<1>0. old.episode \in Nat
  BY DEF DeviceSummary
<1>1. CASE new = [old EXCEPT !.offline = TRUE, !.episode = @ + 1]
  <2> DEFINE e == old.episode + 1
  <2>1. e \in Nat /\ old.episode <= e
    BY <1>0
  <2>2. new = [old EXCEPT !.offline = TRUE, !.episode = e]
    BY <1>1
  <2> HIDE DEF e
  <2>3. new \in DeviceSummary /\ new.episode = e
    BY <2>1, <2>2 DEF DeviceSummary
  <2> QED
    BY <2>1, <2>3
<1>2. CASE new = [old EXCEPT !.offline = FALSE] \/ new = [old EXCEPT !.regression = TRUE]
  <2>1. new \in DeviceSummary /\ new.episode = old.episode
    BY <1>2 DEF DeviceSummary
  <2> QED
    BY <1>0, <2>1
<1> QED
  BY <1>1, <1>2

BlockedFrom(old, u) == [old EXCEPT !.state = "blocked", !.block = old.blocks + 1, !.blocks = @ + 1, !.unknown = u]
StoppedFrom(old, state) == [old EXCEPT !.state = state, !.block = 0, !.unknown = FALSE]

LEMMA TaskBlocks ==
  ASSUME NEW old \in TaskSummary, NEW u \in BOOLEAN, NEW new, new = BlockedFrom(old, u)
  PROVE  /\ new \in TaskSummary /\ new.state = "blocked" /\ new.block = new.blocks /\ old.blocks <= new.blocks
         /\ new.publish = old.publish /\ new.reasons = old.reasons /\ new.conflict = old.conflict
<1> DEFINE e == old.blocks + 1
<1>1. e \in Nat /\ old.blocks <= e
  BY DEF TaskSummary
<1>2. new = [old EXCEPT !.state = "blocked", !.block = e, !.blocks = e, !.unknown = u]
  BY DEF BlockedFrom
<1> HIDE DEF e
<1>3. new \in TaskSummary /\ new.state = "blocked" /\ new.block = e /\ new.blocks = e
  BY <1>1, <1>2 DEF TaskSummary
<1>4. new.publish = old.publish /\ new.reasons = old.reasons /\ new.conflict = old.conflict
  BY <1>2 DEF TaskSummary
<1> QED
  BY <1>1, <1>3, <1>4

LEMMA TaskStops ==
  ASSUME NEW old \in TaskSummary, NEW state \in {"open", "ended"}, NEW new, new = StoppedFrom(old, state)
  PROVE  /\ new \in TaskSummary /\ new.state = state /\ old.blocks <= new.blocks
         /\ new.publish = old.publish /\ new.reasons = old.reasons /\ new.conflict = old.conflict
<1>0. new = [old EXCEPT !.state = state, !.block = 0, !.unknown = FALSE]
  BY DEF StoppedFrom
<1>1. new \in TaskSummary
  <2>1. state \in {"none", "open", "blocked", "ended"} /\ 0 \in Nat /\ FALSE \in BOOLEAN
    OBVIOUS
  <2> QED
    BY <1>0, <2>1 DEF TaskSummary
<1>4. new.state = state
  BY <1>0 DEF TaskSummary
<1>2. old.blocks \in Nat /\ new.blocks = old.blocks
  BY <1>0 DEF TaskSummary
<1>3. new.publish = old.publish /\ new.reasons = old.reasons /\ new.conflict = old.conflict
  BY <1>0 DEF TaskSummary
<1> QED
  BY <1>1, <1>2, <1>3, <1>4

LEMMA TaskConflicts ==
  ASSUME NEW old \in TaskSummary, NEW new, new = [old EXCEPT !.conflict = TRUE]
  PROVE  /\ new \in TaskSummary /\ new.state = old.state /\ new.block = old.block /\ old.blocks = new.blocks
         /\ new.publish = old.publish /\ new.reasons = old.reasons /\ new.conflict /\ old.blocks <= new.blocks
<1>1. new \in TaskSummary /\ new.conflict
  BY DEF TaskSummary
<1>2. old.blocks \in Nat /\ new.blocks = old.blocks
  BY DEF TaskSummary
<1>3. new.publish = old.publish /\ new.reasons = old.reasons /\ new.state = old.state /\ new.block = old.block
  BY DEF TaskSummary
<1> QED
  BY <1>1, <1>2, <1>3

LEMMA TaskMoves ==
  ASSUME EdgeInv(edge), NEW t \in Tasks, TaskMove(t)
  PROVE  EdgeInv(edge') /\ Advances(edge, edge')
<1> DEFINE old == edge.task[t]
<1>1. /\ edge.task[t] \in TaskSummary /\ edge \in [task : [Tasks -> TaskSummary], device : [Robots -> DeviceSummary]]
      /\ old.blocks \in Nat /\ (old.state = "blocked" => old.block = old.blocks)
  BY DEF EdgeInv, TaskSummary
<1>2. SUFFICES \E new : TaskAdvances(edge, t, new) /\ edge' = [edge EXCEPT !.task[t] = new]
  BY TaskMovesTo
<1>3. CASE old.state = "none" /\ OpenTaskOf(edge, RobotOf[t]) = {} /\ edge' = [edge EXCEPT !.task[t].state = "open"]
  <2> DEFINE new == [old EXCEPT !.state = "open"]
  <2>1. edge' = [edge EXCEPT !.task[t] = new]
    BY <1>3
  <2>2. TaskAdvances(edge, t, new)
    BY <1>1, <1>3 DEF TaskAdvances, TaskSummary, TaskOpen
  <2> HIDE DEF new
  <2> QED
    BY <2>1, <2>2
<1>o. old \in TaskSummary /\ old = edge.task[t]
  BY <1>1
<1>a. \A new : /\ new \in TaskSummary /\ (new.state = "blocked" => new.block = new.blocks)
               /\ old.blocks <= new.blocks /\ (old.publish = "exhausted" => new.publish = "exhausted")
               /\ old.reasons \subseteq new.reasons /\ (old.conflict => new.conflict)
               /\ old.state = "ended" => new.state = "ended"
               /\ old.state # "none" => new.state # "none" /\ (new.state \in {"open", "blocked"} => TaskOpen(edge, t))
               /\ new.state \in {"open", "blocked"} /\ ~TaskOpen(edge, t) => OpenTaskOf(edge, RobotOf[t]) = {}
               => TaskAdvances(edge, t, new)
  BY DEF TaskAdvances
<1>t. TaskOpen(edge, t) <=> old.state \in {"open", "blocked"}
  BY DEF TaskOpen
<1> HIDE DEF old
<1>4. ASSUME NEW u \in BOOLEAN, TaskOpen(edge, t)
      PROVE  TaskAdvances(edge, t, [old EXCEPT !.state = "blocked", !.block = old.blocks + 1, !.blocks = @ + 1, !.unknown = u])
  <2> DEFINE new == [old EXCEPT !.state = "blocked", !.block = old.blocks + 1, !.blocks = @ + 1, !.unknown = u]
  <2>0. new = BlockedFrom(old, u)
    BY DEF BlockedFrom
  <2> HIDE DEF new
  <2>1. /\ new \in TaskSummary /\ new.state = "blocked" /\ new.block = new.blocks /\ old.blocks <= new.blocks
        /\ new.publish = old.publish /\ new.reasons = old.reasons /\ new.conflict = old.conflict
    BY <1>o, <2>0, TaskBlocks
  <2>2. TaskAdvances(edge, t, new)
    BY <1>a, <1>t, <1>4, <2>1
  <2> QED
    BY <2>2 DEF new
<1>5. ASSUME old.state = "blocked"
      PROVE  TaskAdvances(edge, t, [old EXCEPT !.state = "open", !.block = 0, !.unknown = FALSE])
  <2> DEFINE new == [old EXCEPT !.state = "open", !.block = 0, !.unknown = FALSE]
  <2>0. new = StoppedFrom(old, "open") /\ "open" \in {"open", "ended"}
    BY DEF StoppedFrom
  <2> HIDE DEF new
  <2>1. /\ new \in TaskSummary /\ new.state = "open" /\ old.blocks <= new.blocks
        /\ new.publish = old.publish /\ new.reasons = old.reasons /\ new.conflict = old.conflict
    BY <1>o, <2>0, TaskStops
  <2>2. TaskAdvances(edge, t, new)
    BY <1>a, <1>t, <1>5, <2>1
  <2> QED
    BY <2>2 DEF new
<1>6. ASSUME TaskOpen(edge, t)
      PROVE  TaskAdvances(edge, t, [old EXCEPT !.state = "ended", !.block = 0, !.unknown = FALSE])
  <2> DEFINE new == [old EXCEPT !.state = "ended", !.block = 0, !.unknown = FALSE]
  <2>0. new = StoppedFrom(old, "ended") /\ "ended" \in {"open", "ended"}
    BY DEF StoppedFrom
  <2> HIDE DEF new
  <2>1. /\ new \in TaskSummary /\ new.state = "ended" /\ old.blocks <= new.blocks
        /\ new.publish = old.publish /\ new.reasons = old.reasons /\ new.conflict = old.conflict
    BY <1>o, <2>0, TaskStops
  <2>2. TaskAdvances(edge, t, new)
    BY <1>a, <1>t, <1>6, <2>1
  <2> QED
    BY <2>2 DEF new
<1>7. ASSUME NEW p \in {"expired", "exhausted"}, TaskOpen(edge, t), old.publish \notin {"exhausted", p}
      PROVE  TaskAdvances(edge, t, [old EXCEPT !.publish = p])
  <2> DEFINE new == [old EXCEPT !.publish = p]
  <2>0. new = [old EXCEPT !.publish = p]
    OBVIOUS
  <2> HIDE DEF new
  <2>1. /\ new \in TaskSummary /\ new.state = old.state /\ old.blocks <= new.blocks /\ new.block = old.block
        /\ new.blocks = old.blocks /\ new.reasons = old.reasons /\ new.conflict = old.conflict
    BY <1>1, <1>o, <2>0 DEF TaskSummary
  <2>2. TaskAdvances(edge, t, new)
    BY <1>1, <1>a, <1>t, <1>7, <2>1
  <2> QED
    BY <2>2 DEF new
<1>8. ASSUME NEW r \in Reasons, old.state # "none"
      PROVE  TaskAdvances(edge, t, [old EXCEPT !.reasons = @ \cup {r}])
  <2> DEFINE new == [old EXCEPT !.reasons = @ \cup {r}]
  <2>0. new = [old EXCEPT !.reasons = @ \cup {r}]
    OBVIOUS
  <2> HIDE DEF new
  <2>1. /\ new \in TaskSummary /\ new.state = old.state /\ old.blocks <= new.blocks /\ new.block = old.block
        /\ new.blocks = old.blocks /\ old.reasons \subseteq new.reasons /\ new.conflict = old.conflict /\ new.publish = old.publish
    BY <1>1, <1>o, <2>0 DEF TaskSummary
  <2>2. TaskAdvances(edge, t, new)
    BY <1>1, <1>a, <1>t, <1>8, <2>1
  <2> QED
    BY <2>2 DEF new
<1>9. ASSUME old.state = "ended"
      PROVE  TaskAdvances(edge, t, [old EXCEPT !.conflict = TRUE])
  <2> DEFINE new == [old EXCEPT !.conflict = TRUE]
  <2>0. new = [old EXCEPT !.conflict = TRUE]
    OBVIOUS
  <2> HIDE DEF new
  <2>1. /\ new \in TaskSummary /\ new.state = old.state /\ old.blocks <= new.blocks
        /\ new.reasons = old.reasons /\ new.conflict /\ new.publish = old.publish
    BY <1>o, <2>0, TaskConflicts
  <2>2. TaskAdvances(edge, t, new)
    BY <1>a, <1>9, <2>1
  <2> QED
    BY <2>2 DEF new
<1> QED
  BY <1>3, <1>4, <1>5, <1>6, <1>7, <1>8, <1>9 DEF TaskMove, old

LEMMA DeviceMoves ==
  ASSUME EdgeInv(edge), NEW r \in Robots, DeviceMove(r)
  PROVE  EdgeInv(edge') /\ Advances(edge, edge')
<1> DEFINE old == edge.device[r]
<1>1. edge \in [task : [Tasks -> TaskSummary], device : [Robots -> DeviceSummary]] /\ old \in DeviceSummary /\ old.episode \in Nat
  BY DEF EdgeInv, DeviceSummary
<1>2. PICK new : new \in DeviceSummary /\ old.episode <= new.episode /\ edge' = [edge EXCEPT !.device[r] = new]
  <2> HIDE DEF old
  <2>2. \/ edge' = [edge EXCEPT !.device[r] = [old EXCEPT !.offline = TRUE, !.episode = @ + 1]]
        \/ edge' = [edge EXCEPT !.device[r] = [old EXCEPT !.offline = FALSE]]
        \/ edge' = [edge EXCEPT !.device[r] = [old EXCEPT !.regression = TRUE]]
    BY DEF DeviceMove, old
  <2> QED
    BY <1>1, <2>2, DeviceChanges
<1>3. /\ edge' \in [task : [Tasks -> TaskSummary], device : [Robots -> DeviceSummary]] /\ edge'.task = edge.task
      /\ edge'.device[r] = new /\ \A x \in Robots : x # r => edge'.device[x] = edge.device[x]
  BY <1>1, <1>2
<1>4. EdgeInv(edge')
  BY <1>3 DEF EdgeInv, TaskOpen
<1>5. Advances(edge, edge')
  <2>1. \A x \in Robots : edge.device[x].episode <= edge'.device[x].episode
    <3>1. \A x \in Robots : edge.device[x].episode \in Nat
      BY EdgeFacts
    <3> QED
      BY <1>2, <1>3, <3>1
  <2>2. \A t \in Tasks : EffectiveRank(edge', t) = EffectiveRank(edge, t) /\ EffectiveRank(edge, t) \in 0 .. 2
                         /\ edge.task[t].blocks \in Nat /\ (TaskOpen(edge', t) <=> TaskOpen(edge, t))
    <3>1. \A t \in Tasks : EffectiveRank(edge, t) \in 0 .. 2 /\ edge.task[t].blocks \in Nat
      BY EdgeFacts
    <3>2. \A t \in Tasks : EffectiveRank(edge', t) = EffectiveRank(edge, t) /\ (TaskOpen(edge', t) <=> TaskOpen(edge, t))
      BY <1>3 DEF EffectiveRank, TaskOpen
    <3> QED
      BY <3>1, <3>2
  <2> QED
    BY <1>3, <2>1, <2>2 DEF Advances
<1> QED
  BY <1>4, <1>5

-----------------------------------------------------------------------------
(* The invariant.                                                          *)

\* What is decided leads somewhere sound.  Nothing stays pending after a repair, and after
\* a reconciliation the evidence is covered.
Onward(final) ==
  /\ Leads(edge, cases, batch, final)
  /\ pc \notin {"down", "repair"} => NoPending(final)
  /\ pc = "reconciled" => Reconciled(edge, final)

CasesInv ==
  /\ EdgeInv(edge) /\ Sound(edge, cases)
  /\ batch \in Seq(Lines) /\ \E final : Onward(final)
  /\ pc \in {"reconcile", "reconciled"} => snap = edge

StageInv ==
  /\ theme \in Themes /\ events \in 0 .. theme.events
  /\ pc \in {"down", "repair", "snapshot", "reconcile", "reconciled", "unread", "plan", "attempt", "send"}

CalledOf(nid) == IF nid \in DOMAIN calls THEN calls[nid] ELSE 0

\* A call is preceded by its attempt, and an attempt is only made within the budget.
NotesInv ==
  /\ receipts \subseteq NoteIds /\ DOMAIN calls \subseteq NoteIds /\ \A nid \in DOMAIN calls : calls[nid] \in Nat
  /\ \A nid \in NoteIds : /\ CalledOf(nid) <= TheNote(nid).attempts
                          /\ TheNote(nid).attempts <= MaxAttempts
                          /\ TheNote(nid).state = "DELIVERED" => nid \in receipts
  /\ due \subseteq NoteIds /\ \A nid \in due : TheNote(nid).attempts < MaxAttempts
  /\ sending \in NoteIds \cup {NoNote}
  /\ pc = "send" => sending \in NoteIds /\ CalledOf(sending) < TheNote(sending).attempts

IInv == CasesInv /\ StageInv /\ NotesInv

\* Without a batch, what was decided is what there is.
LEMMA NothingDecided ==
  ASSUME CasesInv, batch = <<>>
  PROVE  /\ pc \notin {"down", "repair"} => NoPending(cases)
         /\ pc = "reconciled" => Reconciled(edge, cases)
<1>1. PICK final : Onward(final)
  BY DEF CasesInv
<1>2. cases \in Seq(CaseView)
  BY SoundFacts DEF CasesInv
<1>3. Leads(edge, cases, <<>>, final)
  BY <1>1 DEF Onward
<1>4. final = cases
  BY <1>2, <1>3, LeadsNowhere
<1> QED
  BY <1>1, <1>4 DEF Onward

\* A step of the service that decides nothing.
LEMMA Waits ==
  ASSUME CasesInv, UNCHANGED <<edge, cases, batch>>,
         pc' \notin {"down", "repair"} => pc \notin {"down", "repair"},
         pc' = "reconciled" => pc = "reconciled",
         pc' \in {"reconcile", "reconciled"} => snap' = edge
  PROVE  CasesInv'
<1>1. PICK final : Onward(final)
  BY DEF CasesInv
<1>2. Onward(final)'
  BY <1>1 DEF Onward
<1>3. \E f : Onward(f)'
  BY <1>2
<1> QED
  BY <1>3 DEF CasesInv

\* A step that decides on a batch.
LEMMA Decides ==
  ASSUME CasesInv, UNCHANGED <<edge, cases>>, batch' \in Seq(Lines),
         NEW final, Leads(edge, cases, batch', final),
         pc' \notin {"down", "repair"} => NoPending(final),
         pc' = "reconciled" => Reconciled(edge, final),
         pc' \in {"reconcile", "reconciled"} => snap' = edge
  PROVE  CasesInv'
<1>1. Onward(final)'
  BY DEF Onward
<1>2. \E f : Onward(f)'
  BY <1>1
<1> QED
  BY <1>2 DEF CasesInv

\* A step that changes a case while the journal is free.
LEMMA Changes ==
  ASSUME CasesInv, batch = <<>>, UNCHANGED <<edge, batch>>, Sound(edge, cases'),
         pc' \notin {"down", "repair"} => NoPending(cases'),
         pc' = "reconciled" => Reconciled(edge, cases'),
         pc' \in {"reconcile", "reconciled"} => snap' = edge
  PROVE  CasesInv'
<1>1. cases' \in Seq(CaseView)
  BY SoundFacts
<1>2. Leads(edge, cases', <<>>, cases')
  BY <1>1, LeadsNowhere
<1>3. Onward(cases)'
  BY <1>2 DEF Onward
<1>4. \E f : Onward(f)'
  BY <1>3
<1> QED
  BY <1>4 DEF CasesInv

\* A line of the batch.
LEMMA Writes ==
  ASSUME CasesInv, WriteLine
  PROVE  CasesInv' /\ Sound(edge, cases') /\ Grows(cases, cases')
<1>1. PICK final : Onward(final)
  BY DEF CasesInv
<1>2. PICK ds : Step(edge, cases, Head(batch), ds) /\ Leads(edge, ds, Tail(batch), final)
  BY <1>1, LeadsFirst DEF Onward, CasesInv, WriteLine
<1>3. cases' = After(cases, Head(batch)) /\ batch' = Tail(batch) /\ UNCHANGED <<edge, pc, snap>>
  BY ApplyIsAfter DEF WriteLine, serviceVars
<1>4. ds = cases' /\ Sound(edge, cases') /\ Grows(cases, cases')
  BY <1>2, <1>3 DEF Step
<1>5. Onward(final)'
  BY <1>1, <1>2, <1>3, <1>4 DEF Onward
<1>6. \E f : Onward(f)'
  BY <1>5
<1>7. batch' \in Seq(Lines)
  BY <1>3 DEF CasesInv, WriteLine
<1> QED
  BY <1>3, <1>4, <1>6, <1>7 DEF CasesInv

\* A case that a human acknowledges or resolves was covered, and stays so.
LEMMA HumanSteps ==
  ASSUME CasesInv, batch = <<>>, NEW i \in DOMAIN cases,
         NEW what \in {"acknowledged", "resolved"}, cases[i].human # "RESOLVED", Apply(About(what, IdOf(cases[i]))),
         UNCHANGED <<edge, batch, pc, snap>>
  PROVE  CasesInv' /\ Sound(edge, cases') /\ Grows(cases, cases')
<1> DEFINE d == WithLine(cases[i], About(what, IdOf(cases[i])))
<1>1. Sound(edge, cases) /\ EdgeInv(edge)
  BY DEF CasesInv
<1>2. /\ Step(edge, cases, About(what, IdOf(cases[i])), [cases EXCEPT ![i] = d])
      /\ d = IF what = "acknowledged" THEN [cases[i] EXCEPT !.human = "ACKNOWLEDGED"] ELSE [cases[i] EXCEPT !.human = "RESOLVED"]
  <2>1. what \in {"condition_cleared", "reminders_exhausted", "acknowledged", "resolved"}
    OBVIOUS
  <2>2. Step(edge, cases, About(what, IdOf(cases[i])), [cases EXCEPT ![i] = d])
    BY <1>1, <2>1, AboutStep
  <2>3. d = IF what = "acknowledged" THEN [cases[i] EXCEPT !.human = "ACKNOWLEDGED"] ELSE [cases[i] EXCEPT !.human = "RESOLVED"]
    BY DEF WithLine, About
  <2> QED
    BY <2>2, <2>3
<1> HIDE DEF d
<1>3. cases' = [cases EXCEPT ![i] = d]
  BY <1>2, ApplyIsAfter DEF Step
<1>4. Sound(edge, cases') /\ Grows(cases, cases')
  BY <1>2, <1>3 DEF Step
<1>5. cases \in Seq(CaseView) /\ cases[i] \in CaseView
  BY <1>1, SoundFacts
<1>6. /\ d.pending = cases[i].pending /\ d.kind = cases[i].kind /\ d.subject = cases[i].subject /\ d.key = cases[i].key
      /\ d.severity = cases[i].severity /\ d.active = cases[i].active
  BY <1>2, <1>5 DEF CaseView
<1>7. DOMAIN cases' = DOMAIN cases /\ cases'[i] = d /\ \A j \in DOMAIN cases : j # i => cases'[j] = cases[j]
  BY <1>3, <1>5
<1>8. NoPending(cases) => NoPending(cases')
  BY <1>6, <1>7 DEF NoPending
<1>9. ASSUME Reconciled(edge, cases) PROVE Reconciled(edge, cases')
  <2>1. \A j \in DOMAIN cases : /\ cases'[j].kind = cases[j].kind /\ cases'[j].subject = cases[j].subject
                                /\ cases'[j].key = cases[j].key /\ cases'[j].severity = cases[j].severity
                                /\ cases'[j].active = cases[j].active
                                /\ cases[j].human = "RESOLVED" => cases'[j].human = "RESOLVED"
    <3>1. \A j \in DOMAIN cases : j # i => cases'[j] = cases[j]
      BY <1>7
    <3>2. cases[i].human # "RESOLVED"
      OBVIOUS
    <3> QED
      BY <1>6, <1>7, <3>2
  <2>2. ASSUME NEW item \in Observe(edge) PROVE CoveredIn(cases', item)
    <3>1. CoveredIn(cases, item)
      BY <1>9 DEF Reconciled
    <3>2. PICK last \in DOMAIN cases :
            /\ SameSubject(cases[last], item) /\ \A j \in DOMAIN cases : SameSubject(cases[j], item) => j <= last
            /\ IF cases[last].human = "RESOLVED" THEN SameEvidence(cases[last], item)
               ELSE /\ cases[last].active /\ cases[last].key = item.key
                    /\ item.severity = "CRITICAL" => cases[last].severity = "CRITICAL"
      BY <3>1 DEF CoveredIn
    <3>3. \A j \in DOMAIN cases : SameSubject(cases'[j], item) <=> SameSubject(cases[j], item)
      BY <2>1 DEF SameSubject
    <3>4. cases'[last].human = "RESOLVED" => SameEvidence(cases'[last], item)
      BY <2>1, <3>2 DEF SameEvidence
    <3>5. cases'[last].human # "RESOLVED" =>
            cases'[last].active /\ cases'[last].key = item.key /\ (item.severity = "CRITICAL" => cases'[last].severity = "CRITICAL")
      BY <2>1, <3>2
    <3> QED
      BY <1>7, <3>2, <3>3, <3>4, <3>5 DEF CoveredIn
  <2>3. ASSUME NEW j \in DOMAIN cases', cases'[j].human # "RESOLVED", cases'[j].active PROVE Supported(edge, cases'[j])
    <3>1. j \in DOMAIN cases /\ cases[j].human # "RESOLVED" /\ cases[j].active
      BY <1>7, <2>1, <2>3
    <3>2. Supported(edge, cases[j])
      BY <1>9, <3>1 DEF Reconciled
    <3> QED
      BY <2>1, <3>1, <3>2 DEF Supported, SameSubject
  <2> QED
    BY <1>4, <1>8, <1>9, <2>2, <2>3 DEF Reconciled
<1>10. /\ pc' \notin {"down", "repair"} => NoPending(cases')
       /\ pc' = "reconciled" => Reconciled(edge, cases')
       /\ pc' \in {"reconcile", "reconciled"} => snap' = edge
  BY <1>8, <1>9, NothingDecided DEF CasesInv
<1>11. CasesInv'
  BY <1>4, <1>10, Changes
<1> QED
  BY <1>4, <1>11

LEMMA NotesStay ==
  ASSUME NotesInv, UNCHANGED <<cases, receipts, calls>>,
         due' \subseteq NoteIds, \A nid \in due' : TheNote(nid).attempts < MaxAttempts,
         sending' \in NoteIds \cup {NoNote},
         pc' = "send" => sending' \in NoteIds /\ CalledOf(sending') < TheNote(sending').attempts
  PROVE  NotesInv'
<1>1. NoteIds' = NoteIds /\ (\A nid : TheNote(nid)' = TheNote(nid)) /\ \A nid : CalledOf(nid)' = CalledOf(nid)
  BY DEF NoteIds, TheNote, Place, NotePlace, CalledOf
<1>2. TheNote(sending)' = TheNote(sending') /\ CalledOf(sending)' = CalledOf(sending')
  BY DEF TheNote, Place, NotePlace, CalledOf
<1> HIDE DEF CalledOf
<1>3. \A nid \in DOMAIN calls' : calls'[nid] \in Nat
  BY DEF NotesInv
<1> QED
  BY <1>1, <1>2, <1>3 DEF NotesInv

\* A step that adds lines but no calls.
LEMMA NotesAddUp ==
  ASSUME NotesInv, Sound(edge, cases), Sound(edge, cases'), Grows(cases, cases'),
         UNCHANGED <<pc, due, sending, receipts, calls>>
  PROVE  NotesInv'
<1>1. /\ NotesIn(cases) \subseteq NotesIn(cases')
      /\ \A nid \in NotesIn(cases) : NoteKept(NoteIn(cases, nid), NoteIn(cases', nid))
      /\ \A nid \in NotesIn(cases') : nid \notin NotesIn(cases) => Unused(NoteIn(cases', nid))
  BY NotesGrow
<1>2. NoteIds \subseteq NoteIds'
  BY <1>1, NotesAreThose
<1>3. \A nid \in NoteIds : TheNote(nid)'.attempts = TheNote(nid).attempts
                           /\ (TheNote(nid)'.state = "DELIVERED" => TheNote(nid).state = "DELIVERED")
  BY <1>1, NotesAreThose DEF NoteKept
<1>4. \A nid \in NoteIds' : nid \notin NoteIds => TheNote(nid)'.attempts = 0 /\ TheNote(nid)'.state = "PENDING"
  BY <1>1, NotesAreThose DEF Unused
<1>5. \A nid : CalledOf(nid)' = CalledOf(nid)
  BY DEF CalledOf
<1>6. \A nid : nid \notin NoteIds => CalledOf(nid) = 0
  BY DEF NotesInv, CalledOf
<1>7. TheNote(sending)' = TheNote(sending)' /\ CalledOf(sending)' = CalledOf(sending) /\ sending' = sending
  BY DEF CalledOf
<1>8. pc = "send" => TheNote(sending)'.attempts = TheNote(sending).attempts
  <2>1. PICK nid : nid = sending
    OBVIOUS
  <2>2. TheNote(sending)' = TheNote(nid)'
    BY <2>1 DEF TheNote, Place, NotePlace
  <2> QED
    BY <1>3, <2>1, <2>2 DEF NotesInv
<1>9. MaxAttempts \in Nat
  BY Bounds
<1>10. /\ \A nid \in NoteIds' : /\ CalledOf(nid)' <= TheNote(nid)'.attempts
                                /\ TheNote(nid)'.attempts <= MaxAttempts
                                /\ TheNote(nid)'.state = "DELIVERED" => nid \in receipts'
  <2> SUFFICES ASSUME NEW nid \in NoteIds'
               PROVE  /\ CalledOf(nid)' <= TheNote(nid)'.attempts
                      /\ TheNote(nid)'.attempts <= MaxAttempts
                      /\ TheNote(nid)'.state = "DELIVERED" => nid \in receipts'
    OBVIOUS
  <2> HIDE DEF CalledOf
  <2>1. CASE nid \in NoteIds
    BY <1>3, <1>5, <2>1 DEF NotesInv
  <2>2. CASE nid \notin NoteIds
    BY <1>4, <1>5, <1>6, <1>9, <2>2
  <2> QED
    BY <2>1, <2>2
<1>11. due' \subseteq NoteIds' /\ \A nid \in due' : TheNote(nid)'.attempts < MaxAttempts
  BY <1>2, <1>3 DEF NotesInv
<1>12. pc' = "send" => sending' \in NoteIds' /\ CalledOf(sending)' < TheNote(sending)'.attempts
  BY <1>2, <1>7, <1>8 DEF NotesInv
<1>13. /\ receipts' \subseteq NoteIds' /\ DOMAIN calls' \subseteq NoteIds' /\ \A nid \in DOMAIN calls' : calls'[nid] \in Nat
       /\ sending' \in NoteIds' \cup {NoNote}
  BY <1>2 DEF NotesInv
<1> QED
  BY <1>10, <1>11, <1>12, <1>13 DEF NotesInv

LEMMA CalledIsNatural ==
  ASSUME NotesInv
  PROVE  \A nid : CalledOf(nid) \in Nat
BY DEF NotesInv, CalledOf

LEMMA OneMore ==
  ASSUME NotesInv, NEW nid \in NoteIds, calls' = OneMoreCall(nid)
  PROVE  /\ DOMAIN calls' = DOMAIN calls \cup {nid} /\ \A x \in DOMAIN calls' : calls'[x] \in Nat
         /\ CalledOf(nid)' = CalledOf(nid) + 1 /\ \A x : x # nid => CalledOf(x)' = CalledOf(x)
<1> DEFINE many == CalledOf(nid) + 1
<1>1. calls' = [x \in DOMAIN calls \cup {nid} |-> IF x = nid THEN many ELSE calls[x]]
  BY DEF OneMoreCall, CalledOf
<1>2. many = CalledOf(nid) + 1 /\ many \in Nat
  BY CalledIsNatural
<1> HIDE DEF many
<1>3. DOMAIN calls' = DOMAIN calls \cup {nid} /\ calls'[nid] = many /\ \A x \in DOMAIN calls : x # nid => calls'[x] = calls[x]
  BY <1>1
<1>4. \A x \in DOMAIN calls' : calls'[x] \in Nat
  BY <1>2, <1>3 DEF NotesInv
<1>5. CalledOf(nid)' = many
  BY <1>3 DEF CalledOf
<1>6. \A x : x # nid => CalledOf(x)' = CalledOf(x)
  BY <1>3 DEF CalledOf
<1> QED
  BY <1>2, <1>3, <1>4, <1>5, <1>6

\* One notification at a time is delivered, and its call comes after its attempt.
LEMMA NoteTypes ==
  ASSUME CasesInv
  PROVE  \A nid \in NoteIds : TheNote(nid) \in Note /\ TheNote(nid).attempts \in Nat /\ TheNote(nid).state \in NoteStates
<1>1. \A nid \in NoteIds : TheNote(nid) \in Note
  BY NotesAreThose, NotesStand DEF CasesInv
<1> QED
  BY <1>1 DEF Note

LEMMA AttemptStep ==
  ASSUME CasesInv, NotesInv, JournalAttempt
  PROVE  CasesInv' /\ NotesInv' /\ Final(cases, cases')
<1>1. PICK nid : nid = sending'
  OBVIOUS
<1>2. /\ pc = "attempt" /\ pc' = "send" /\ batch = <<>> /\ due # {} /\ nid = (CHOOSE x \in due : TRUE) /\ due' = due \ {nid}
      /\ UNCHANGED <<edge, theme, batch, snap, events, receipts, calls>>
      /\ Apply(Delivery("attempted", nid, TheNote(nid).attempts + 1))
  BY <1>1 DEF JournalAttempt
<1>3. nid \in due
  BY <1>2
<1>4. nid \in NoteIds /\ nid \in NotesIn(cases) /\ TheNote(nid) = NoteIn(cases, nid) /\ TheNote(nid).attempts \in Nat
      /\ TheNote(nid).attempts < MaxAttempts /\ Sound(edge, cases) /\ TheNote(nid) \in Note
  BY <1>3, NotesAreThose, NoteTypes DEF NotesInv, CasesInv
<1> DEFINE more == TheNote(nid).attempts + 1
<1>5. more \in Nat /\ more <= MaxAttempts /\ TheNote(nid).attempts < more /\ MaxAttempts \in Nat
  BY <1>4, Bounds
<1>6. cases' = After(cases, Delivery("attempted", nid, more))
  BY <1>2, ApplyIsAfter
<1> HIDE DEF more
<1>7. /\ Sound(edge, cases') /\ Final(cases, cases') /\ NotesIn(cases') = NotesIn(cases)
      /\ NoPending(cases) => NoPending(cases')
      /\ NoteIn(cases', nid) = [NoteIn(cases, nid) EXCEPT !.attempts = more, !.state = "ATTEMPTING"]
      /\ \A other \in NotesIn(cases) : other # nid => NoteIn(cases', other) = NoteIn(cases, other)
  <2> DEFINE l == Delivery("attempted", nid, more)
  <2>0. "attempted" \in {"attempted", "result", "exhausted"} /\ "attempted" # "result"
    OBVIOUS
  <2>1. /\ Sound(edge, cases') /\ Final(cases, cases') /\ NotesIn(cases') = NotesIn(cases)
        /\ NoPending(cases) => NoPending(cases')
        /\ NoteIn(cases', nid) = WithDelivery(NoteIn(cases, nid), l)
        /\ \A other \in NotesIn(cases) : other # nid => NoteIn(cases', other) = NoteIn(cases, other)
    BY <1>4, <1>5, <1>6, <2>0, OneDelivery
  <2>2. WithDelivery(NoteIn(cases, nid), l) = [NoteIn(cases, nid) EXCEPT !.attempts = more, !.state = "ATTEMPTING"]
    BY DEF WithDelivery, Delivery
  <2> QED
    BY <2>1, <2>2
<1>8. CasesInv'
  <2>1. NoPending(cases')
    BY <1>2, <1>7, NothingDecided
  <2>2. pc' # "reconciled" /\ pc' \notin {"reconcile", "reconciled"}
    BY <1>2
  <2> QED
    BY <1>2, <1>7, <2>1, <2>2, Changes
<1>9. /\ NoteIds' = NoteIds
      /\ TheNote(nid)'.attempts = more /\ TheNote(nid)'.state = "ATTEMPTING"
      /\ \A other \in NoteIds : other # nid => TheNote(other)' = TheNote(other)
  <2>1. NoteIds' = NoteIds /\ \A other \in NoteIds : other # nid => TheNote(other)' = TheNote(other)
    BY <1>7, NotesAreThose
  <2>2. TheNote(nid)' = [TheNote(nid) EXCEPT !.attempts = more, !.state = "ATTEMPTING"]
    BY <1>4, <1>7, NotesAreThose
  <2>3. TheNote(nid)'.attempts = more /\ TheNote(nid)'.state = "ATTEMPTING"
    BY <1>4, <2>2 DEF Note
  <2> QED
    BY <2>1, <2>3
<1>10. \A x : CalledOf(x)' = CalledOf(x) /\ CalledOf(x) \in Nat
  BY <1>2, CalledIsNatural DEF CalledOf
<1>11. CalledOf(nid) <= TheNote(nid).attempts
  BY <1>4 DEF NotesInv
<1>12. \A x \in NoteIds : /\ CalledOf(x)' <= TheNote(x)'.attempts /\ TheNote(x)'.attempts <= MaxAttempts
                          /\ TheNote(x)'.state = "DELIVERED" => x \in receipts'
  <2> SUFFICES ASSUME NEW x \in NoteIds
               PROVE  /\ CalledOf(x)' <= TheNote(x)'.attempts /\ TheNote(x)'.attempts <= MaxAttempts
                      /\ TheNote(x)'.state = "DELIVERED" => x \in receipts'
    OBVIOUS
  <2>1. CASE x = nid
    BY <1>4, <1>5, <1>9, <1>10, <1>11, <2>1
  <2>2. CASE x # nid
    BY <1>2, <1>9, <1>10, <2>2 DEF NotesInv
  <2> QED
    BY <2>1, <2>2
<1>13. sending' \in NoteIds' /\ CalledOf(sending)' < TheNote(sending)'.attempts
  <2>1. TheNote(sending)' = TheNote(nid)' /\ CalledOf(sending)' = CalledOf(nid)'
    BY <1>1 DEF TheNote, Place, NotePlace, CalledOf
  <2>2. CalledOf(nid)' < TheNote(nid)'.attempts
    BY <1>4, <1>5, <1>9, <1>10, <1>11
  <2> QED
    BY <1>1, <1>4, <1>9, <2>1, <2>2
<1>14. due' \subseteq NoteIds' /\ \A x \in due' : TheNote(x)'.attempts < MaxAttempts
  BY <1>2, <1>9 DEF NotesInv
<1>15. /\ receipts' \subseteq NoteIds' /\ DOMAIN calls' \subseteq NoteIds' /\ \A x \in DOMAIN calls' : calls'[x] \in Nat
       /\ sending' \in NoteIds' \cup {NoNote}
  BY <1>2, <1>9, <1>13 DEF NotesInv
<1>16. NotesInv'
  BY <1>9, <1>12, <1>13, <1>14, <1>15 DEF NotesInv
<1> QED
  BY <1>7, <1>8, <1>16

LEMMA SendStep ==
  ASSUME CasesInv, NotesInv, NEW result \in {"DELIVERED", "UNKNOWN", "FAILED"}, NEW persisted \in BOOLEAN,
         Send(result, persisted)
  PROVE  CasesInv' /\ NotesInv' /\ Final(cases, cases')
<1>1. PICK nid : nid = sending
  OBVIOUS
<1>2. /\ pc = "send" /\ pc' = "attempt" /\ batch = <<>> /\ sending' = NoNote
      /\ UNCHANGED <<edge, theme, batch, snap, due>>
      /\ receipts' = (IF persisted THEN receipts \cup {nid} ELSE receipts)
      /\ result = "DELIVERED" => persisted
      /\ calls' = OneMoreCall(nid) /\ Apply(Delivery("result", nid, result))
  BY <1>1 DEF Send
<1>3. nid \in NoteIds /\ CalledOf(nid) < TheNote(nid).attempts
  <2>1. TheNote(sending) = TheNote(nid) /\ CalledOf(sending) = CalledOf(nid)
    BY <1>1
  <2> QED
    BY <1>1, <1>2, <2>1 DEF NotesInv
<1>4. nid \in NotesIn(cases) /\ TheNote(nid) = NoteIn(cases, nid) /\ TheNote(nid).attempts \in Nat
      /\ Sound(edge, cases) /\ TheNote(nid) \in Note
  BY <1>3, NotesAreThose, NoteTypes DEF CasesInv
<1>5. result \in NoteStates
  BY DEF NoteStates
<1>6. cases' = After(cases, Delivery("result", nid, result))
  BY <1>2, ApplyIsAfter
<1>7. /\ Sound(edge, cases') /\ Final(cases, cases') /\ NotesIn(cases') = NotesIn(cases)
      /\ NoPending(cases) => NoPending(cases')
      /\ NoteIn(cases', nid) = [NoteIn(cases, nid) EXCEPT !.state = result]
      /\ \A other \in NotesIn(cases) : other # nid => NoteIn(cases', other) = NoteIn(cases, other)
  <2> DEFINE l == Delivery("result", nid, result)
  <2>0. "result" \in {"attempted", "result", "exhausted"} /\ "result" # "attempted"
    OBVIOUS
  <2>1. /\ Sound(edge, cases') /\ Final(cases, cases') /\ NotesIn(cases') = NotesIn(cases)
        /\ NoPending(cases) => NoPending(cases')
        /\ NoteIn(cases', nid) = WithDelivery(NoteIn(cases, nid), l)
        /\ \A other \in NotesIn(cases) : other # nid => NoteIn(cases', other) = NoteIn(cases, other)
    BY <1>4, <1>5, <1>6, <2>0, OneDelivery
  <2>2. WithDelivery(NoteIn(cases, nid), l) = [NoteIn(cases, nid) EXCEPT !.state = result]
    BY DEF WithDelivery, Delivery
  <2> QED
    BY <2>1, <2>2
<1>8. CasesInv'
  <2>1. NoPending(cases')
    BY <1>2, <1>7, NothingDecided
  <2>2. pc' # "reconciled" /\ pc' \notin {"reconcile", "reconciled"}
    BY <1>2
  <2> QED
    BY <1>2, <1>7, <2>1, <2>2, Changes
<1>9. /\ NoteIds' = NoteIds
      /\ TheNote(nid)'.attempts = TheNote(nid).attempts /\ TheNote(nid)'.state = result
      /\ \A other \in NoteIds : other # nid => TheNote(other)' = TheNote(other)
  <2>1. NoteIds' = NoteIds /\ \A other \in NoteIds : other # nid => TheNote(other)' = TheNote(other)
    BY <1>7, NotesAreThose
  <2>2. TheNote(nid)' = [TheNote(nid) EXCEPT !.state = result]
    BY <1>4, <1>7, NotesAreThose
  <2>3. TheNote(nid)'.attempts = TheNote(nid).attempts /\ TheNote(nid)'.state = result
    BY <1>4, <2>2 DEF Note
  <2> QED
    BY <2>1, <2>3
<1>10. /\ DOMAIN calls' = DOMAIN calls \cup {nid} /\ \A x \in DOMAIN calls' : calls'[x] \in Nat
       /\ CalledOf(nid)' = CalledOf(nid) + 1 /\ \A x : x # nid => CalledOf(x)' = CalledOf(x)
  BY <1>2, <1>3, OneMore
<1>11. \A x : CalledOf(x) \in Nat
  BY CalledIsNatural
<1>12. \A x \in NoteIds : /\ CalledOf(x)' <= TheNote(x)'.attempts /\ TheNote(x)'.attempts <= MaxAttempts
                          /\ TheNote(x)'.state = "DELIVERED" => x \in receipts'
  <2> SUFFICES ASSUME NEW x \in NoteIds
               PROVE  /\ CalledOf(x)' <= TheNote(x)'.attempts /\ TheNote(x)'.attempts <= MaxAttempts
                      /\ TheNote(x)'.state = "DELIVERED" => x \in receipts'
    OBVIOUS
  <2> HIDE DEF CalledOf
  <2>1. CASE x = nid
    <3>1. TheNote(nid).attempts <= MaxAttempts
      BY <1>3 DEF NotesInv
    <3>2. CalledOf(nid)' <= TheNote(nid)'.attempts
      BY <1>3, <1>4, <1>9, <1>10, <1>11
    <3>3. result = "DELIVERED" => nid \in receipts'
      BY <1>2
    <3> QED
      BY <1>9, <2>1, <3>1, <3>2, <3>3
  <2>2. CASE x # nid
    <3>1. receipts \subseteq receipts'
      BY <1>2
    <3> QED
      BY <1>9, <1>10, <2>2, <3>1 DEF NotesInv
  <2> QED
    BY <2>1, <2>2
<1>13. due' \subseteq NoteIds' /\ \A x \in due' : TheNote(x)'.attempts < MaxAttempts
  BY <1>2, <1>9 DEF NotesInv
<1>14. receipts' \subseteq NoteIds' /\ DOMAIN calls' \subseteq NoteIds' /\ sending' \in NoteIds' \cup {NoNote} /\ pc' # "send"
  BY <1>2, <1>3, <1>9, <1>10 DEF NotesInv
<1>15. NotesInv'
  BY <1>9, <1>10, <1>12, <1>13, <1>14 DEF NotesInv
<1> QED
  BY <1>7, <1>8, <1>15

\* The last request of a dead process counts as made, received or not.
LEMMA CrashStep ==
  ASSUME CasesInv, NotesInv, Crash
  PROVE  CasesInv' /\ NotesInv'
<1>1. CasesInv'
  <2>1. /\ pc' = "down" /\ batch' = <<>> /\ UNCHANGED <<edge, cases>>
    BY DEF Crash
  <2>2. cases \in Seq(CaseView)
    BY SoundFacts DEF CasesInv
  <2>3. Leads(edge, cases, <<>>, cases) /\ <<>> \in Seq(Lines)
    BY <2>2, LeadsNowhere
  <2>4. pc' # "reconciled" /\ pc' \notin {"reconcile", "reconciled"}
    BY <2>1
  <2> QED
    BY <2>1, <2>3, <2>4, Decides
<1>2. pc' = "down" /\ due' = {} /\ sending' = NoNote /\ UNCHANGED cases
  BY DEF Crash
<1>3. CASE UNCHANGED <<receipts, calls>>
  <2>1. due' \subseteq NoteIds /\ \A nid \in due' : TheNote(nid).attempts < MaxAttempts
    BY <1>2
  <2>2. sending' \in NoteIds \cup {NoNote} /\ pc' # "send"
    BY <1>2
  <2>3. pc' = "send" => sending' \in NoteIds /\ CalledOf(sending') < TheNote(sending').attempts
    BY <2>2
  <2>4. UNCHANGED <<cases, receipts, calls>>
    BY <1>2, <1>3
  <2>5. NotesInv'
    BY <2>1, <2>2, <2>3, <2>4, NotesStay
  <2> QED
    BY <1>1, <2>5
<1>4. CASE pc = "send" /\ receipts' = receipts \cup {sending} /\ calls' = OneMoreCall(sending)
  <2>1. PICK nid : nid = sending
    OBVIOUS
  <2>2. nid \in NoteIds /\ CalledOf(nid) < TheNote(nid).attempts
    <3>1. TheNote(sending) = TheNote(nid) /\ CalledOf(sending) = CalledOf(nid)
      BY <2>1
    <3> QED
      BY <1>4, <2>1, <3>1 DEF NotesInv
  <2>3. /\ DOMAIN calls' = DOMAIN calls \cup {nid} /\ \A x \in DOMAIN calls' : calls'[x] \in Nat
        /\ CalledOf(nid)' = CalledOf(nid) + 1 /\ \A x : x # nid => CalledOf(x)' = CalledOf(x)
    BY <1>4, <2>1, <2>2, OneMore
  <2>4. NoteIds' = NoteIds /\ \A x : TheNote(x)' = TheNote(x)
    BY <1>2 DEF NoteIds, TheNote, Place, NotePlace
  <2>5. CalledOf(nid) \in Nat /\ TheNote(nid).attempts \in Nat
    BY <2>2, CalledIsNatural, NoteTypes
  <2>6. CalledOf(nid)' <= TheNote(nid).attempts
    BY <2>2, <2>3, <2>5
  <2> HIDE DEF CalledOf
  <2>7. \A x \in NoteIds' : /\ CalledOf(x)' <= TheNote(x)'.attempts /\ TheNote(x)'.attempts <= MaxAttempts
                            /\ TheNote(x)'.state = "DELIVERED" => x \in receipts'
    <3> SUFFICES ASSUME NEW x \in NoteIds
                 PROVE  /\ CalledOf(x)' <= TheNote(x).attempts /\ TheNote(x).attempts <= MaxAttempts
                        /\ TheNote(x).state = "DELIVERED" => x \in receipts'
      BY <2>4
    <3>1. /\ CalledOf(x) <= TheNote(x).attempts /\ TheNote(x).attempts <= MaxAttempts
          /\ TheNote(x).state = "DELIVERED" => x \in receipts
      BY DEF NotesInv
    <3>2. CalledOf(x)' <= TheNote(x).attempts
      BY <2>3, <2>6, <3>1
    <3>3. receipts \subseteq receipts'
      BY <1>4
    <3> QED
      BY <3>1, <3>2, <3>3
  <2>8. receipts' \subseteq NoteIds' /\ DOMAIN calls' \subseteq NoteIds' /\ sending' \in NoteIds' \cup {NoNote} /\ pc' # "send"
        /\ due' \subseteq NoteIds' /\ \A x \in due' : TheNote(x)'.attempts < MaxAttempts
    BY <1>2, <1>4, <2>1, <2>2, <2>3, <2>4 DEF NotesInv
  <2> QED
    BY <1>1, <2>3, <2>7, <2>8 DEF NotesInv
<1> QED
  BY <1>1, <1>3, <1>4 DEF Crash

\* A step of the loop that decides nothing and takes no notification.
LEMMA LoopWaits ==
  ASSUME CasesInv, NotesInv, UNCHANGED <<edge, cases, batch, due, sending, receipts, calls>>, pc # "send", pc' # "send",
         pc' \notin {"down", "repair"} => pc \notin {"down", "repair"}, pc' # "reconciled",
         pc' = "reconcile" => snap' = edge
  PROVE  CasesInv' /\ NotesInv'
<1>1. CasesInv'
  BY Waits
<1>2. due' \subseteq NoteIds /\ \A nid \in due' : TheNote(nid).attempts < MaxAttempts
  BY DEF NotesInv
<1>3. sending' \in NoteIds \cup {NoNote} /\ pc' # "send"
  BY DEF NotesInv
<1>4. pc' = "send" => sending' \in NoteIds /\ CalledOf(sending') < TheNote(sending').attempts
  BY <1>3
<1>5. NotesInv'
  BY <1>2, <1>3, <1>4, NotesStay
<1> QED
  BY <1>1, <1>5

LEMMA StartStep == ASSUME CasesInv, NotesInv, Start PROVE CasesInv' /\ NotesInv'
<1>1. /\ pc = "down" /\ pc' = "repair" /\ UNCHANGED <<edge, cases, batch, due, sending, receipts, calls>>
  BY DEF Start
<1>2. /\ pc # "send" /\ pc' # "send" /\ pc' # "reconciled" /\ pc' \in {"down", "repair"} /\ pc' # "reconcile"
  BY <1>1
<1> QED
  BY <1>1, <1>2, LoopWaits

LEMMA SnapshotStep == ASSUME CasesInv, NotesInv, ReadSnapshot PROVE CasesInv' /\ NotesInv'
<1>1. /\ pc = "snapshot" /\ pc' = "reconcile" /\ snap' = edge
      /\ UNCHANGED <<edge, cases, batch, due, sending, receipts, calls>>
  BY DEF ReadSnapshot
<1>2. pc # "send" /\ pc' # "send" /\ pc' # "reconciled" /\ pc \notin {"down", "repair"}
  BY <1>1
<1> QED
  BY <1>1, <1>2, LoopWaits

LEMMA UnreadableStep == ASSUME CasesInv, NotesInv, SnapshotUnreadable PROVE CasesInv' /\ NotesInv'
<1>1. /\ pc = "snapshot" /\ pc' = "unread" /\ UNCHANGED <<edge, cases, batch, due, sending, receipts, calls>>
  BY DEF SnapshotUnreadable
<1>2. pc # "send" /\ pc' # "send" /\ pc' # "reconciled" /\ pc \notin {"down", "repair"} /\ pc' # "reconcile"
  BY <1>1
<1> QED
  BY <1>1, <1>2, LoopWaits

LEMMA EndTickStep == ASSUME CasesInv, NotesInv, EndTick PROVE CasesInv' /\ NotesInv'
<1>1. /\ pc = "attempt" /\ pc' = "repair" /\ UNCHANGED <<edge, cases, batch, due, sending, receipts, calls>>
  BY DEF EndTick
<1>2. pc # "send" /\ pc' # "send" /\ pc' # "reconciled" /\ pc \notin {"down", "repair"} /\ pc' # "reconcile"
  BY <1>1
<1> QED
  BY <1>1, <1>2, LoopWaits

\* Only notifications with budget left are taken.
LEMMA PlanStep == ASSUME CasesInv, NotesInv, NEW rested, PlanDelivery(rested) PROVE CasesInv' /\ NotesInv'
<1>1. /\ pc = "plan" /\ pc' = "attempt" /\ due' = DueAttempts(rested)
      /\ UNCHANGED <<edge, cases, batch, snap, sending, receipts, calls>>
  BY DEF PlanDelivery
<1>2. CasesInv'
  <2>1. /\ pc \notin {"down", "repair"} /\ pc' # "reconciled" /\ pc' \notin {"reconcile", "reconciled"}
    BY <1>1
  <2> QED
    BY <1>1, <2>1, Waits
<1>3. due' \subseteq NoteIds /\ \A nid \in due' : TheNote(nid).attempts < MaxAttempts
  BY <1>1 DEF DueAttempts
<1>4. sending' \in NoteIds \cup {NoNote} /\ pc' # "send"
  BY <1>1 DEF NotesInv
<1>5. pc' = "send" => sending' \in NoteIds /\ CalledOf(sending') < TheNote(sending').attempts
  BY <1>4
<1>6. UNCHANGED <<cases, receipts, calls>>
  BY <1>1
<1>7. NotesInv'
  BY <1>3, <1>4, <1>5, <1>6, NotesStay
<1> QED
  BY <1>2, <1>7

\* A batch is decided while nothing is sent.
LEMMA BatchStep ==
  ASSUME CasesInv, NotesInv, NEW from, NEW to, NEW lines \in Seq(Lines), from # "send", to # "send", Append_(from, to, lines),
         UNCHANGED <<due, sending>>, NEW final, Leads(edge, cases, lines, final),
         to \notin {"down", "repair"} => NoPending(final),
         to = "reconciled" => Reconciled(edge, final) /\ snap' = edge, to # "reconcile"
  PROVE  CasesInv' /\ NotesInv'
<1>1. /\ pc = from /\ pc' = to /\ batch' = lines /\ UNCHANGED <<edge, cases, receipts, calls>>
  BY DEF Append_
<1>2. CasesInv'
  BY <1>1, Decides
<1>3. due' \subseteq NoteIds /\ \A nid \in due' : TheNote(nid).attempts < MaxAttempts
  BY DEF NotesInv
<1>4. sending' \in NoteIds \cup {NoNote} /\ pc' # "send"
  BY <1>1 DEF NotesInv
<1>5. pc' = "send" => sending' \in NoteIds /\ CalledOf(sending') < TheNote(sending').attempts
  BY <1>4
<1>6. UNCHANGED <<cases, receipts, calls>>
  BY <1>1
<1>7. NotesInv'
  BY <1>3, <1>4, <1>5, <1>6, NotesStay
<1> QED
  BY <1>2, <1>7

LEMMA RepairStep == ASSUME CasesInv, NotesInv, RepairIntents PROVE CasesInv' /\ NotesInv'
<1>1. Sound(edge, cases)
  BY DEF CasesInv
<1>2. PICK final : PendingIntents \in Seq(Lines) /\ Leads(edge, cases, PendingIntents, final) /\ NoPending(final)
  BY <1>1, RepairLeads
<1>3. Append_("repair", "snapshot", PendingIntents) /\ UNCHANGED <<due, sending>>
  BY DEF RepairIntents
<1> QED
  BY <1>2, <1>3, BatchStep

LEMMA ReconcileStep == ASSUME CasesInv, NotesInv, ReconcileEvidence PROVE CasesInv' /\ NotesInv'
<1>1. /\ Append_("reconcile", "reconciled", Reconcile(snap)) /\ UNCHANGED <<snap, due, sending>>
      /\ pc = "reconcile" /\ batch = <<>>
  BY DEF ReconcileEvidence, Append_
<1>2. EdgeInv(edge) /\ Sound(edge, cases) /\ NoPending(cases) /\ snap = edge
  BY <1>1, NothingDecided DEF CasesInv
<1>3. PICK final : Reconcile(edge) \in Seq(Lines) /\ Leads(edge, cases, Reconcile(edge), final) /\ Reconciled(edge, final)
  BY <1>2, ReconcileLeads
<1>4. Append_("reconcile", "reconciled", Reconcile(edge)) /\ UNCHANGED <<due, sending>> /\ snap' = edge
  BY <1>1, <1>2
<1>5. NoPending(final)
  BY <1>3 DEF Reconciled
<1> QED
  BY <1>3, <1>4, <1>5, BatchStep

LEMMA TickStep == ASSUME CasesInv, NotesInv, NEW late, DecideTick(late) PROVE CasesInv' /\ NotesInv'
<1>1. PICK from \in {"reconciled", "unread"} : Append_(from, "plan", TickLines(late))
  BY DEF DecideTick
<1>2. UNCHANGED <<due, sending>> /\ pc = from /\ batch = <<>>
  BY <1>1 DEF DecideTick, Append_
<1>3. Sound(edge, cases) /\ NoPending(cases)
  BY <1>2, NothingDecided DEF CasesInv
<1>4. PICK final : TickLines(late) \in Seq(Lines) /\ Leads(edge, cases, TickLines(late), final) /\ NoPending(final)
  BY <1>3, TickLeads
<1>5. from # "send"
  BY <1>1
<1> QED
  BY <1>1, <1>2, <1>4, <1>5, BatchStep

LEMMA WriteStep ==
  ASSUME CasesInv, NotesInv, WriteLine
  PROVE  CasesInv' /\ NotesInv' /\ Final(cases, cases')
<1>1. CasesInv' /\ Sound(edge, cases') /\ Grows(cases, cases')
  BY Writes
<1>2. UNCHANGED <<pc, due, sending, receipts, calls>>
  BY DEF WriteLine, serviceVars
<1>3. Sound(edge, cases) /\ cases \in Seq(CaseView)
  BY SoundFacts DEF CasesInv
<1>4. NotesInv'
  BY <1>1, <1>2, <1>3, NotesAddUp
<1>5. Final(cases, cases')
  BY <1>1, <1>3, FinalWhenGrown
<1> QED
  BY <1>1, <1>4, <1>5

LEMMA HumanStep ==
  ASSUME CasesInv, NotesInv, NEW i \in DOMAIN cases, Acknowledge(i) \/ Resolve(i)
  PROVE  CasesInv' /\ NotesInv' /\ Final(cases, cases')
<1>1. PICK what \in {"acknowledged", "resolved"} : cases[i].human # "RESOLVED" /\ Apply(About(what, IdOf(cases[i])))
  <2>1. CASE Acknowledge(i)
    BY <2>1 DEF Acknowledge
  <2>2. CASE Resolve(i)
    BY <2>2 DEF Resolve
  <2> QED
    BY <2>1, <2>2
<1>2. batch = <<>> /\ UNCHANGED <<edge, batch, pc, snap, due, sending, receipts, calls>>
  BY DEF Acknowledge, Resolve, serviceVars
<1>3. CasesInv' /\ Sound(edge, cases') /\ Grows(cases, cases')
  BY <1>1, <1>2, HumanSteps
<1>4. Sound(edge, cases) /\ cases \in Seq(CaseView)
  BY SoundFacts DEF CasesInv
<1>5. NotesInv'
  BY <1>2, <1>3, <1>4, NotesAddUp
<1>6. Final(cases, cases')
  BY <1>3, <1>4, FinalWhenGrown
<1> QED
  BY <1>3, <1>5, <1>6

\* What the Edge goes through leaves the cases sound: evidence only advances.
LEMMA EdgeStep ==
  ASSUME CasesInv, NotesInv, EdgeMoves
  PROVE  CasesInv' /\ NotesInv'
<1>1. /\ pc = "snapshot" /\ batch = <<>> /\ UNCHANGED <<cases, batch, pc, snap, due, sending, receipts, calls>>
      /\ (\E t \in Tasks : TaskMove(t)) \/ (\E r \in Robots : DeviceMove(r))
  BY DEF EdgeMoves, serviceVars
<1>2. EdgeInv(edge) /\ Sound(edge, cases)
  BY DEF CasesInv
<1>3. EdgeInv(edge') /\ Advances(edge, edge')
  BY <1>1, <1>2, TaskMoves, DeviceMoves
<1>4. Sound(edge', cases)
  BY <1>2, <1>3, SoundOnward
<1>5. CasesInv'
  <2>1. NoPending(cases)
    BY <1>1, NothingDecided
  <2>2. cases \in Seq(CaseView)
    BY <1>2, SoundFacts
  <2>3. Leads(edge', cases, <<>>, cases)
    BY <2>2, LeadsNowhere
  <2>4. Onward(cases)'
    BY <1>1, <2>1, <2>3 DEF Onward
  <2>5. \E f : Onward(f)'
    BY <2>4, <1>1
  <2>6. batch' \in Seq(Lines)
    BY <1>1 DEF CasesInv
  <2> QED
    BY <1>1, <1>3, <1>4, <2>5, <2>6 DEF CasesInv
<1>6. due' \subseteq NoteIds /\ \A nid \in due' : TheNote(nid).attempts < MaxAttempts
  BY <1>1 DEF NotesInv
<1>7. sending' \in NoteIds \cup {NoNote} /\ pc' # "send"
  BY <1>1 DEF NotesInv
<1>8. pc' = "send" => sending' \in NoteIds /\ CalledOf(sending') < TheNote(sending').attempts
  BY <1>7
<1>9. UNCHANGED <<cases, receipts, calls>>
  BY <1>1
<1>10. NotesInv'
  BY <1>6, <1>7, <1>8, <1>9, NotesStay
<1> QED
  BY <1>5, <1>10

\* Nothing moves.
LEMMA IdleStep ==
  ASSUME CasesInv, NotesInv, UNCHANGED vars
  PROVE  CasesInv' /\ NotesInv'
<1>1. UNCHANGED <<edge, cases, pc, batch, snap, due, sending, receipts, calls>>
  BY DEF vars, serviceVars
<1>2. CasesInv'
  <2>1. /\ pc' \notin {"down", "repair"} => pc \notin {"down", "repair"}
        /\ pc' = "reconciled" => pc = "reconciled"
        /\ pc' \in {"reconcile", "reconciled"} => snap' = edge
    BY <1>1 DEF CasesInv
  <2> QED
    BY <1>1, <2>1, Waits
<1>3. due' \subseteq NoteIds /\ \A nid \in due' : TheNote(nid).attempts < MaxAttempts
  BY <1>1 DEF NotesInv
<1>4. sending' \in NoteIds \cup {NoNote}
  BY <1>1 DEF NotesInv
<1>5. pc' = "send" => sending' \in NoteIds /\ CalledOf(sending') < TheNote(sending').attempts
  <2>1. pc = "send" => sending \in NoteIds /\ CalledOf(sending) < TheNote(sending).attempts
    BY DEF NotesInv
  <2> QED
    BY <1>1, <2>1
<1>6. NotesInv'
  BY <1>1, <1>3, <1>4, <1>5, NotesStay
<1> QED
  BY <1>2, <1>6

\* What happened stays within the bound of the behaviour.
LEMMA StageStep ==
  ASSUME StageInv, [Next]_vars
  PROVE  StageInv'
<1>1. theme.events \in Nat
  BY InterventionAssumption DEF StageInv
<1>2. theme' = theme
  BY DEF Next, Service, Deliver, Operator, Start, WriteLine, RepairIntents, ReadSnapshot, SnapshotUnreadable, ReconcileEvidence,
         DecideTick, PlanDelivery, JournalAttempt, Send, EndTick, Crash, Acknowledge, Resolve, EdgeMoves, Append_, vars
<1>3. events' = events \/ Event
  BY DEF Next, Service, Deliver, Operator, Start, WriteLine, RepairIntents, ReadSnapshot, SnapshotUnreadable, ReconcileEvidence,
         DecideTick, PlanDelivery, JournalAttempt, Send, EndTick, Crash, Acknowledge, Resolve, EdgeMoves, Append_, vars
<1>4. events' \in 0 .. theme'.events
  BY <1>1, <1>2, <1>3 DEF StageInv, Event
<1>5. pc' \in {"down", "repair", "snapshot", "reconcile", "reconciled", "unread", "plan", "attempt", "send"}
  BY DEF StageInv, Next, Service, Deliver, Operator, Start, WriteLine, RepairIntents, ReadSnapshot, SnapshotUnreadable,
         ReconcileEvidence, DecideTick, PlanDelivery, JournalAttempt, Send, EndTick, Crash, Acknowledge, Resolve, EdgeMoves,
         Append_, vars, serviceVars
<1> QED
  BY <1>2, <1>4, <1>5 DEF StageInv

-----------------------------------------------------------------------------
(* What the invariant says in the words of the specification.              *)

Made(c, intent) ==
  {n \in c.pending : n.intent = intent} \cup {c.notes[k] : k \in {k \in DOMAIN c.notes : c.notes[k].intent = intent}}

\* One notification says that a case was opened, and one that its severity rose, if it did.
LEMMA MadeOnce ==
  ASSUME NEW c, CaseSound(c)
  PROVE  \E first : /\ Made(c, "OPENED") = {first}
                    /\ IF c.severity = first.severity THEN Made(c, "ESCALATION") = {}
                       ELSE \E n : Made(c, "ESCALATION") = {n}
<1>1. /\ c.notes \in Seq(Note) /\ DOMAIN c.notes = 1 .. Len(c.notes) /\ Len(c.notes) \in Nat /\ c.severity \in Severities
  BY CaseFacts DEF CaseSound
<1>2. /\ \A k \in DOMAIN c.notes : c.notes[k].intent = "OPENED" <=> k = 1
      /\ \A k, l \in DOMAIN c.notes : c.notes[k].intent = "ESCALATION" /\ c.notes[l].intent = "ESCALATION" => k = l
  BY DEF CaseSound
<1>3. c.notes # <<>> => 1 \in DOMAIN c.notes
  BY <1>1
<1>4. CASE c.pending = {} /\ c.notes # <<>>
              /\ ((c.severity = c.notes[1].severity) <=> \A k \in DOMAIN c.notes : c.notes[k].intent # "ESCALATION")
  <2>1. Made(c, "OPENED") = {c.notes[1]}
    BY <1>2, <1>3, <1>4 DEF Made
  <2>2. CASE c.severity = c.notes[1].severity
    <3>1. Made(c, "ESCALATION") = {}
      BY <1>4, <2>2 DEF Made
    <3> QED
      BY <2>1, <2>2, <3>1
  <2>3. CASE c.severity # c.notes[1].severity
    <3>1. PICK k \in DOMAIN c.notes : c.notes[k].intent = "ESCALATION"
      BY <1>4, <2>3
    <3>2. Made(c, "ESCALATION") = {c.notes[k]}
      BY <1>2, <1>4, <3>1 DEF Made
    <3> QED
      BY <2>1, <2>3, <3>2
  <2> QED
    BY <2>2, <2>3
<1>5. CASE c.pending = {NewNote("OPENED", 0, c.severity)} /\ c.notes = <<>>
  <2> DEFINE first == NewNote("OPENED", 0, c.severity)
  <2>1. DOMAIN c.notes = {}
    BY <1>5
  <2>2. Made(c, "OPENED") = {first} /\ Made(c, "ESCALATION") = {} /\ first.severity = c.severity
    BY <1>5, <2>1 DEF Made, NewNote
  <2> QED
    BY <2>2
<1>6. CASE c.pending = {NewNote("ESCALATION", Len(c.notes), c.severity)} /\ c.notes # <<>> /\ c.severity # c.notes[1].severity
             /\ \A k \in DOMAIN c.notes : c.notes[k].intent # "ESCALATION"
  <2> DEFINE n == NewNote("ESCALATION", Len(c.notes), c.severity)
  <2>1. n.intent = "ESCALATION" /\ c.pending = {n}
    BY <1>6 DEF NewNote
  <2> HIDE DEF n
  <2>2. Made(c, "OPENED") = {c.notes[1]}
    BY <1>2, <1>3, <1>6, <2>1 DEF Made
  <2>3. Made(c, "ESCALATION") = {n}
    BY <1>6, <2>1 DEF Made
  <2> QED
    BY <1>6, <2>2, <2>3
<1> QED
  BY <1>4, <1>5, <1>6 DEF CaseSound

LEMMA ObligationsHold == CasesInv => ObligationsKept
<1> SUFFICES ASSUME CasesInv, NEW i \in DOMAIN cases
             PROVE  /\ Cardinality(Made(cases[i], "OPENED")) = 1
                    /\ Cardinality(Made(cases[i], "ESCALATION")) =
                         (IF cases[i].severity = (CHOOSE n \in Made(cases[i], "OPENED") : TRUE).severity THEN 0 ELSE 1)
                    /\ \A k, l \in DOMAIN cases[i].notes :
                         cases[i].notes[k].intent = cases[i].notes[l].intent
                           /\ cases[i].notes[k].ordinal = cases[i].notes[l].ordinal => k = l
                    /\ Cardinality({k \in DOMAIN cases[i].notes : cases[i].notes[k].intent = "REMINDER"}) <= MaxReminders
  BY DEF ObligationsKept, Made
<1>1. CaseSound(cases[i])
  BY DEF CasesInv, Sound
<1>2. PICK first : /\ Made(cases[i], "OPENED") = {first}
                   /\ IF cases[i].severity = first.severity THEN Made(cases[i], "ESCALATION") = {}
                      ELSE \E n : Made(cases[i], "ESCALATION") = {n}
  BY <1>1, MadeOnce
<1>3. (CHOOSE n \in Made(cases[i], "OPENED") : TRUE) = first
  BY <1>2
<1>4. Cardinality(Made(cases[i], "OPENED")) = 1
  BY <1>2, FS_Singleton
<1>5. Cardinality(Made(cases[i], "ESCALATION")) = IF cases[i].severity = first.severity THEN 0 ELSE 1
  BY <1>2, FS_Singleton, FS_EmptySet
<1>6. \A k, l \in DOMAIN cases[i].notes : cases[i].notes[k].ordinal = cases[i].notes[l].ordinal => k = l
  <2>1. \A k \in DOMAIN cases[i].notes : cases[i].notes[k].ordinal = k - 1
    BY <1>1 DEF CaseSound
  <2>2. DOMAIN cases[i].notes = 1 .. Len(cases[i].notes) /\ Len(cases[i].notes) \in Nat
    BY <1>1, CaseFacts DEF CaseSound
  <2> QED
    BY <2>1, <2>2
<1>7. Cardinality({k \in DOMAIN cases[i].notes : cases[i].notes[k].intent = "REMINDER"}) <= MaxReminders
  BY <1>1 DEF CaseSound, Reminders
<1> QED
  BY <1>3, <1>4, <1>5, <1>6, <1>7

LEMMA CasesAreOnce == CasesInv => OneCaseAtATime
<1> SUFFICES ASSUME CasesInv PROVE OneCaseAtATime
  OBVIOUS
<1>1. OnceSound(cases) /\ DOMAIN cases = 1 .. Len(cases) /\ Len(cases) \in Nat
  BY SoundFacts DEF CasesInv, Sound
<1> QED
  BY <1>1 DEF OneCaseAtATime, OnceSound, SameSubject

LEMMA CoveredAfterwards == CasesInv => EvidenceCovered
<1> SUFFICES ASSUME CasesInv, pc = "reconciled", batch = <<>>
             PROVE  /\ \A item \in Observe(snap) : Covered(item)
                    /\ \A i \in DOMAIN cases : cases[i].human # "RESOLVED" /\ cases[i].active =>
                         \E item \in Observe(snap) : item.kind = cases[i].kind /\ item.subject = cases[i].subject
  BY DEF EvidenceCovered
<1>1. Reconciled(edge, cases) /\ snap = edge /\ cases \in Seq(CaseView)
  BY NothingDecided, SoundFacts DEF CasesInv
<1>2. \A item \in Observe(snap) : Covered(item)
  <2> SUFFICES ASSUME NEW item \in Observe(edge) PROVE Covered(item)
    BY <1>1
  <2>1. CoveredIn(cases, item)
    BY <1>1 DEF Reconciled
  <2> QED
    BY <1>1, <2>1, CoveredByLast
<1>3. \A i \in DOMAIN cases : cases[i].human # "RESOLVED" /\ cases[i].active =>
        \E item \in Observe(edge) : item.kind = cases[i].kind /\ item.subject = cases[i].subject
  BY <1>1 DEF Reconciled, Supported, SameSubject
<1> QED
  BY <1>1, <1>2, <1>3

LEMMA TypesHold == IInv => TypeOK
<1> SUFFICES ASSUME IInv PROVE TypeOK
  OBVIOUS
<1>1. CasesInv /\ StageInv /\ NotesInv
  BY DEF IInv
<1>2. edge.task \in [Tasks -> TaskSummary] /\ edge.device \in [Robots -> DeviceSummary]
  BY <1>1 DEF CasesInv, EdgeInv
<1>3. \A nid \in NoteIds : TheNote(nid) \in Note
  BY <1>1, NoteTypes
<1>4. \A i \in DOMAIN cases : [cases[i] EXCEPT !.notes = <<>>, !.pending = {}] \in CaseView
  <2> SUFFICES ASSUME NEW c \in CaseView PROVE [c EXCEPT !.notes = <<>>, !.pending = {}] \in CaseView
    BY <1>1, SoundFacts DEF CasesInv
  <2>1. PICK notes \in Seq(Note), pending \in SUBSET Note : notes = <<>> /\ pending = {}
    <3>1. <<>> \in Seq(Note) /\ {} \in SUBSET Note
      OBVIOUS
    <3> QED
      BY <3>1
  <2>2. [c EXCEPT !.notes = notes, !.pending = pending] \in CaseView
    BY DEF CaseView
  <2> QED
    BY <2>1, <2>2
<1> QED
  BY <1>1, <1>2, <1>3, <1>4 DEF TypeOK, StageInv, NotesInv

LEMMA CallsFollow == NotesInv => CallsAreAccounted
BY DEF NotesInv, CallsAreAccounted, CallsWithinBudget, DeliveredMeansReceived, CalledOf

\* Initially nothing is known, nothing decided, and at most one task is open.
LEMMA Initially == Init => IInv
<1> SUFFICES ASSUME Init PROVE IInv
  OBVIOUS
<1>1. EdgeInv(NoEvidence)
  BY DEF EdgeInv, NoEvidence, TaskSummary, DeviceSummary, TaskOpen
<1>2. EdgeInv(edge)
  <2>1. ASSUME NEW t \in Tasks, edge = [NoEvidence EXCEPT !.task[t].state = "open"] PROVE EdgeInv(edge)
    <3>1. /\ edge.device = NoEvidence.device
          /\ edge.task = [u \in Tasks |-> IF u = t THEN [NoEvidence.task[t] EXCEPT !.state = "open"] ELSE NoEvidence.task[u]]
          /\ edge = [task |-> edge.task, device |-> edge.device]
      BY <2>1 DEF NoEvidence
    <3>2. \A u \in Tasks : NoEvidence.task[u].state = "none" /\ NoEvidence.task[u] \in TaskSummary
      BY DEF NoEvidence, TaskSummary
    <3>3. [NoEvidence.task[t] EXCEPT !.state = "open"] \in TaskSummary /\ [NoEvidence.task[t] EXCEPT !.state = "open"].state = "open"
      BY <3>2 DEF TaskSummary
    <3>4. edge.task \in [Tasks -> TaskSummary] /\ edge.device \in [Robots -> DeviceSummary]
      BY <3>1, <3>2, <3>3 DEF NoEvidence, DeviceSummary
    <3>5. \A u \in Tasks : edge.task[u].state # "blocked" /\ (edge.task[u].state = "open" => u = t)
      BY <3>1, <3>2, <3>3
    <3> QED
      BY <3>1, <3>4, <3>5 DEF EdgeInv, TaskOpen
  <2> QED
    BY <1>1, <2>1 DEF Init
<1>3. cases = <<>> /\ batch = <<>> /\ DOMAIN cases = {}
  BY DEF Init
<1>4. Sound(edge, cases)
  BY <1>3 DEF Sound, EvidenceSound, OccupiedSound, OnceSound
<1>5. CasesInv
  <2>1. Leads(edge, cases, <<>>, cases)
    BY <1>4, SoundFacts, LeadsNowhere
  <2>2. Onward(cases)
    BY <1>3, <2>1 DEF Onward, Init
  <2>3. pc \notin {"reconcile", "reconciled"}
    BY DEF Init
  <2> QED
    BY <1>2, <1>3, <1>4, <2>2, <2>3 DEF CasesInv
<1>6. NotesInv
  <2>1. NoteIds = {} /\ receipts = {} /\ DOMAIN calls = {} /\ due = {} /\ sending = NoNote /\ pc # "send"
    BY <1>3 DEF NoteIds, Init
  <2> QED
    BY <2>1 DEF NotesInv
<1>7. StageInv
  BY InterventionAssumption DEF StageInv, Init
<1> QED
  BY <1>5, <1>6, <1>7 DEF IInv

-----------------------------------------------------------------------------
(* The theorems.                                                           *)

LEMMA EveryStep ==
  ASSUME CasesInv, NotesInv, [Next]_vars
  PROVE  CasesInv' /\ NotesInv' /\ Final(cases, cases')
<1>1. cases \in Seq(CaseView)
  BY SoundFacts DEF CasesInv
<1>2. cases' = cases => Final(cases, cases')
  <2>1. Final(cases, cases)
    BY <1>1, FinalWhenSame
  <2> QED
    BY <2>1
<1>3. CASE Start
  BY <1>2, <1>3, StartStep DEF Start
<1>4. CASE Service
  <2>1. CASE WriteLine
    BY <2>1, WriteStep
  <2>2. CASE RepairIntents
    BY <1>2, <2>2, RepairStep DEF RepairIntents, Append_
  <2>3. CASE ReadSnapshot
    BY <1>2, <2>3, SnapshotStep DEF ReadSnapshot
  <2>4. CASE SnapshotUnreadable
    BY <1>2, <2>4, UnreadableStep DEF SnapshotUnreadable
  <2>5. CASE ReconcileEvidence
    BY <1>2, <2>5, ReconcileStep DEF ReconcileEvidence, Append_
  <2>6. CASE \E late \in SUBSET Nagging : DecideTick(late)
    <3>1. PICK late : DecideTick(late)
      BY <2>6
    <3>2. cases' = cases
      BY <3>1 DEF DecideTick, Append_
    <3> QED
      BY <1>2, <3>1, <3>2, TickStep
  <2>7. CASE Deliver
    <3>1. CASE \E rested \in SUBSET Unanswered : PlanDelivery(rested)
      <4>1. PICK rested : PlanDelivery(rested)
        BY <3>1
      <4>2. cases' = cases
        BY <4>1 DEF PlanDelivery
      <4> QED
        BY <1>2, <4>1, <4>2, PlanStep
    <3>2. CASE JournalAttempt
      BY <3>2, AttemptStep
    <3>3. CASE EndTick
      BY <1>2, <3>3, EndTickStep DEF EndTick
    <3>4. CASE \E result \in {"DELIVERED", "UNKNOWN", "FAILED"}, persisted \in BOOLEAN : Send(result, persisted)
      <4>1. PICK result \in {"DELIVERED", "UNKNOWN", "FAILED"}, persisted \in BOOLEAN : Send(result, persisted)
        BY <3>4
      <4> QED
        BY <4>1, SendStep
    <3> QED
      BY <2>7, <3>1, <3>2, <3>3, <3>4 DEF Deliver
  <2> QED
    BY <1>4, <2>1, <2>2, <2>3, <2>4, <2>5, <2>6, <2>7 DEF Service
<1>5. CASE Crash
  BY <1>2, <1>5, CrashStep DEF Crash
<1>6. CASE Operator
  <2>1. PICK i \in DOMAIN cases : Acknowledge(i) \/ Resolve(i)
    BY <1>6 DEF Operator
  <2> QED
    BY <2>1, HumanStep
<1>7. CASE EdgeMoves
  BY <1>2, <1>7, EdgeStep DEF EdgeMoves
<1>8. CASE UNCHANGED vars
  BY <1>2, <1>8, IdleStep DEF vars
<1> QED
  BY <1>3, <1>4, <1>5, <1>6, <1>7, <1>8 DEF Next

LEMMA InvariantKept == IInv /\ [Next]_vars => IInv' /\ Final(cases, cases')
<1> SUFFICES ASSUME IInv, [Next]_vars PROVE IInv' /\ Final(cases, cases')
  OBVIOUS
<1>1. CasesInv /\ NotesInv /\ StageInv
  BY DEF IInv
<1> QED
  BY <1>1, EveryStep, StageStep DEF IInv

\* In every state what the journal says, and what the lines decided but not yet written
\* will make of it, is sound: crashes, torn batches, late evidence and the hands of
\* operators included.
THEOREM InterventionInvariant == Spec => []IInv
<1>1. IInv /\ [Next]_vars => IInv'
  BY InvariantKept
<1> QED
  BY <1>1, Initially, PTL DEF Spec

\* The cases are what the evidence and the humans made of them: nobody has two cases of a
\* kind to look at, the obligation to notify survives every crash, and after reconciliation
\* every condition of the snapshot is covered (cases.py, reconcile and pending_intents).
THEOREM CasesHold == Spec => []CasesAreTrue
<1>1. IInv => CasesAreTrue
  BY TypesHold, CasesAreOnce, ObligationsHold, CoveredAfterwards DEF IInv, CasesAreTrue
<1> QED
  BY <1>1, InterventionInvariant, PTL

\* No more requests were sent with a notification than the journal has attempts, the budget
\* holds over every crash, and what is DELIVERED was received (InterventionService._deliver).
THEOREM CallsHold == Spec => []CallsAreAccounted
<1>1. IInv => CallsAreAccounted
  BY CallsFollow DEF IInv
<1> QED
  BY <1>1, InterventionInvariant, PTL

\* A case that a human resolved stays as it was resolved; the only note it may still get is
\* one that was committed before (docs/edge_interventions_v0.md:103).
THEOREM ResolvedHolds == Spec => ResolvedIsFinal
<1> DEFINE Kept == \A i \in DOMAIN cases : cases[i].human = "RESOLVED" =>
                     LET old == cases[i]
                         new == cases'[i]
                     IN  /\ [new EXCEPT !.notes = old.notes, !.pending = old.pending] = old
                         /\ Len(new.notes) = Len(old.notes) \/ (\E n \in old.pending : new.notes = Append(old.notes, n))
<1>1. IInv /\ [Next]_vars => [Kept]_vars
  BY InvariantKept DEF Final, FinalKept
<1> QED
  BY <1>1, InterventionInvariant, PTL DEF Spec, ResolvedIsFinal
=============================================================================
