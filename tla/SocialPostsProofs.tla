-------------------------- MODULE SocialPostsProofs --------------------------
(***************************************************************************)
(* Theorems about SocialPosts for any number of posts, workers, operators,     *)
(* attempts, requests and faults.  A post may be made as often as there are     *)
(* permissions to make it: PostedInv counts those that are still out, as the    *)
(* status scheduled and as threads about to call the platform, with those that   *)
(* were used.  DayInv counts the plans in work, with the planner's lock and      *)
(* without, with the rows there are.                                         *)
(***************************************************************************)
EXTENDS SocialPosts, FiniteSetTheorems, TLAPS

Notes == [status : Statuses, tried : BOOLEAN, waiting : BOOLEAN]
Copies == UNION {[S -> Notes] : S \in SUBSET Posts}
Doings == [what : Jobs, of : SUBSET Posts, holds : SUBSET Posts, read : Copies]

DoingInv ==
    /\ doing \in [Threads -> Doings]
    /\ \A t \in Threads :
        /\ doing[t].holds \subseteq doing[t].of
        /\ doing[t].what \in {"refresh", "now", "marks"} => DOMAIN doing[t].read = doing[t].of
        /\ doing[t].what = "now" => \E p \in Posts : doing[t].of = {p}

CountInv ==
    /\ public \in [Posts -> Nat] /\ approvals \in [Posts -> Nat]
    /\ nows \in [Posts -> Nat] /\ broken \in [Posts -> Nat]
    /\ replans \in 0..MaxRequests /\ requests \in 0..MaxRequests /\ replans <= requests
    /\ faults \in 0..MaxFaults /\ unlocks \in 0..MaxFaults /\ unlocks <= faults

TypeInv == post \in [Posts -> Rows] /\ passed \in BOOLEAN /\ DoingInv /\ CountInv

\* Threads that may still call the platform for a post.
Bound(p) == {t \in Threads : doing[t].what \in {"marks", "post"} /\ p \in doing[t].of}

One(b) == IF b THEN 1 ELSE 0

Out(p) == public[p] + One(post[p].status = "scheduled")
Asked(p) == approvals[p] + 2 * nows[p] + broken[p]

PostedInv == \A p \in Posts : Out(p) + Cardinality(Bound(p)) <= Asked(p)

Rowed == {p \in Posts : ~New(p)}
Plans(t) == doing[t].what \in {"plan", "replan", "unlocked"}
Locked(t) == doing[t].what \in {"plan", "replan"}
Loose == {t \in Threads : doing[t].what = "unlocked"}

DayInv ==
    /\ \A t \in Threads : doing[t].of \subseteq Rowed
    /\ \A t, u \in Threads : Locked(t) /\ Locked(u) => t = u
    /\ \A p \in Posts : post[p].when # "ahead" \/ post[p].status = "skipped" => passed
    /\ \A t \in Threads : doing[t].what = "expire" => passed
    /\ IsFiniteSet(Rowed)
    /\ Cardinality(Loose) <= unlocks
    /\ Cardinality(Rowed) + One(Planning) + Cardinality(Loose) <= 1 + replans + unlocks

IInv == TypeInv /\ PostedInv /\ DayInv

-----------------------------------------------------------------------------
(* What a thread does to itself and to the rows.                             *)

LEMMA CopyIsRead ==
    ASSUME TypeInv, NEW S \in SUBSET Posts
    PROVE  Copy(S) \in [S -> Notes] /\ Copy(S) \in Copies
BY DEF TypeInv, Copy, Notes, Copies, Rows

LEMMA BecomeInv ==
    ASSUME TypeInv, NEW t \in Threads, NEW what \in Jobs \ {"refresh", "marks"}, NEW S \in SUBSET Posts,
           what = "now" => \E p \in Posts : S = {p}, Become(t, what, S)
    PROVE  /\ DoingInv'
           /\ doing'[t].what = what /\ doing'[t].of = S
           /\ \A u \in Threads : u # t => doing'[u] = doing[u]
<1> DEFINE R == IF what = "now" THEN S ELSE {}
           new == [what |-> what, of |-> S, holds |-> {}, read |-> Copy(R)]
<1>1. R \in SUBSET Posts
  OBVIOUS
<1>2. Copy(R) \in [R -> Notes] /\ Copy(R) \in Copies
  BY <1>1, CopyIsRead
<1>3. new \in Doings /\ DOMAIN new.read = R
  BY <1>2 DEF Doings
<1>4. doing' = [doing EXCEPT ![t] = new]
  BY DEF Become
<1>5. new.what = what /\ new.of = S /\ new.holds = {}
  OBVIOUS
<1> HIDE DEF new
<1> QED BY <1>3, <1>4, <1>5 DEF TypeInv, DoingInv

LEMMA DoneInv ==
    ASSUME TypeInv, NEW t \in Threads, Done(t)
    PROVE  /\ DoingInv'
           /\ doing'[t].what = "idle" /\ doing'[t].of = {}
           /\ \A u \in Threads : u # t => doing'[u] = doing[u]
<1>1. Idle.read \in [{} -> Notes]
  BY DEF Idle
<1>2. Idle \in Doings
  BY <1>1 DEF Idle, Doings, Jobs, Copies
<1> QED BY <1>2 DEF Done, Idle, TypeInv, DoingInv

LEMMA StoreAllRows ==
    ASSUME TypeInv, NEW rows \in [Posts -> Rows], StoreAll(rows)
    PROVE  /\ post' \in [Posts -> Rows]
           /\ \A p \in Posts : post'[p] = post[p] \/ post'[p] = [rows[p] EXCEPT !.old = FALSE]
           /\ \A p \in Posts : rows[p] = post[p] => post'[p] = post[p]
BY DEF StoreAll, TypeInv, Rows

LEMMA StoreRow ==
    ASSUME TypeInv, NEW t, NEW p \in Posts, NEW r \in Rows, Store(t, p, r)
    PROVE  /\ post' \in [Posts -> Rows]
           /\ \A q \in Posts : q # p => post'[q] = post[q]
           /\ post'[p] = post[p] \/ post'[p] = [r EXCEPT !.old = FALSE]
<1> DEFINE rows == [post EXCEPT ![p] = r]
<1>1. post \in [Posts -> Rows]
  BY DEF TypeInv
<1>2. rows \in [Posts -> Rows] /\ rows[p] = r /\ \A q \in Posts : q # p => rows[q] = post[q]
  BY <1>1
<1>3. StoreAll(rows)
  BY DEF Store
<1> HIDE DEF rows
<1> QED BY <1>2, <1>3, StoreAllRows

\* One thread more or less among those that may call.
LEMMA BoundStep ==
    ASSUME TypeInv, PostedInv, TypeInv', NEW t \in Threads,
           \A u \in Threads : u # t => doing'[u] = doing[u],
           \A p \in Posts : Out(p)' + One(t \in Bound(p)') - Asked(p)' <= Out(p) + One(t \in Bound(p)) - Asked(p)
    PROVE  PostedInv'
<1> SUFFICES ASSUME NEW p \in Posts
             PROVE  (Out(p) + Cardinality(Bound(p)))' <= Asked(p)'
  BY DEF PostedInv
<1>1. IsFiniteSet(Threads)
  BY ConstantsAssumption
<1> DEFINE Rest == Bound(p) \ {t}
<1>2. Bound(p)' \ {t} = Rest
  BY DEF Bound
<1>3. IsFiniteSet(Bound(p)) /\ IsFiniteSet(Bound(p)')
  BY <1>1, FS_Subset DEF Bound
<1>4. IsFiniteSet(Rest) /\ Cardinality(Rest) \in Nat
  BY <1>3, FS_RemoveElement, FS_CardinalityType
<1>5. Cardinality(Bound(p)) = Cardinality(Rest) + One(t \in Bound(p))
  <2>1. CASE t \in Bound(p)
    <3>1. Bound(p) = Rest \cup {t} /\ t \notin Rest
      BY <2>1
    <3> QED BY <1>4, <2>1, <3>1, FS_AddElement DEF One
  <2>2. CASE t \notin Bound(p)
    <3>1. Bound(p) = Rest
      BY <2>2
    <3> QED BY <1>4, <2>2, <3>1 DEF One
  <2> QED BY <2>1, <2>2
<1>6. Cardinality(Bound(p)') = Cardinality(Rest) + One(t \in Bound(p)')
  <2>1. CASE t \in Bound(p)'
    <3>1. Bound(p)' = Rest \cup {t} /\ t \notin Rest
      BY <1>2, <2>1
    <3> QED BY <1>4, <2>1, <3>1, FS_AddElement DEF One
  <2>2. CASE t \notin Bound(p)'
    <3>1. Bound(p)' = Rest
      BY <1>2, <2>2
    <3> QED BY <1>4, <2>2, <3>1 DEF One
  <2> QED BY <2>1, <2>2
<1>7. Out(p) \in Nat /\ Asked(p) \in Nat /\ Out(p)' \in Nat /\ Asked(p)' \in Nat
  BY DEF Out, Asked, One, TypeInv, CountInv
<1>8. Out(p) + Cardinality(Bound(p)) <= Asked(p)
  BY DEF PostedInv
<1>9. One(t \in Bound(p)) \in Nat /\ One(t \in Bound(p)') \in Nat
  BY DEF One
<1> HIDE DEF Rest
<1> QED BY <1>4, <1>5, <1>6, <1>7, <1>8, <1>9

LEMMA LooseIsFinite == IsFiniteSet(Loose)
BY ConstantsAssumption, FS_Subset DEF Loose

\* A step that plans nothing and leaves the rows there are.
LEMMA DayStep ==
    ASSUME DayInv,
           \A t \in Threads : /\ doing'[t].of \subseteq Rowed
                              /\ Plans(t)' => doing'[t].what = doing[t].what
                              /\ doing'[t].what = "expire" => passed,
           \A p \in Posts : /\ New(p)' <=> New(p)
                            /\ post'[p].when # "ahead" \/ post'[p].status = "skipped" => passed',
           passed => passed', UNCHANGED <<replans, unlocks>>, replans \in Nat, unlocks \in Nat
    PROVE  DayInv'
<1>1. Rowed' = Rowed
  BY DEF Rowed
<1>2. IsFiniteSet(Rowed) /\ Cardinality(Rowed) \in Nat
  BY FS_CardinalityType DEF DayInv
<1>3. Planning' => Planning
  BY DEF Planning, Plans
<1>4. One(Planning') <= One(Planning) /\ One(Planning) \in Nat /\ One(Planning') \in Nat
  BY <1>3 DEF One
<1>9. Loose' \subseteq Loose
  BY DEF Loose, Plans
<1>10. /\ Cardinality(Loose) \in Nat /\ Cardinality(Loose') \in Nat
       /\ Cardinality(Loose') <= Cardinality(Loose)
  BY <1>9, LooseIsFinite, FS_Subset, FS_CardinalityType
<1>5. /\ Cardinality(Loose') <= unlocks'
      /\ Cardinality(Rowed) + One(Planning') + Cardinality(Loose') <= 1 + replans' + unlocks'
  BY <1>2, <1>4, <1>10 DEF DayInv
<1>6. \A t, u \in Threads : Locked(t)' /\ Locked(u)' => t = u
  BY DEF DayInv, Locked, Plans
<1>7. \A t \in Threads : doing'[t].of \subseteq Rowed /\ (doing'[t].what = "expire" => passed')
  OBVIOUS
<1>8. \A p \in Posts : (post[p].when # "ahead" \/ post[p].status = "skipped" => passed)'
  OBVIOUS
<1> QED BY <1>1, <1>2, <1>5, <1>6, <1>7, <1>8 DEF DayInv

\* A step of one thread that begins no plan.
LEMMA ThreadStep ==
    ASSUME IInv, TypeInv', NEW t \in Threads,
           \A u \in Threads : u # t => doing'[u] = doing[u],
           doing'[t].of \subseteq Rowed, ~Plans(t)', doing'[t].what = "expire" => passed,
           \A p \in Posts : Out(p)' + One(t \in Bound(p)') - Asked(p)' <= Out(p) + One(t \in Bound(p)) - Asked(p),
           \A p \in Posts : /\ New(p)' <=> New(p)
                            /\ post'[p].when # "ahead" \/ post'[p].status = "skipped" => passed,
           passed' = passed, UNCHANGED <<replans, unlocks>>
    PROVE  IInv'
<1>1. \A u \in Threads : /\ doing'[u].of \subseteq Rowed
                         /\ Plans(u)' => doing'[u].what = doing[u].what
                         /\ doing'[u].what = "expire" => passed
  BY DEF IInv, DayInv, Plans
<1>2. replans \in Nat /\ unlocks \in Nat
  BY DEF IInv, TypeInv, CountInv
<1>3. DayInv'
  BY <1>1, <1>2, DayStep DEF IInv
<1>4. PostedInv'
  BY BoundStep DEF IInv
<1> QED BY <1>3, <1>4 DEF IInv

\* A thread that turns to something else, with the rows as they are.
LEMMA TurnStep ==
    ASSUME IInv, NEW t \in Threads, NEW what \in Jobs \ {"refresh", "marks", "post", "plan", "replan", "unlocked"},
           NEW S \in SUBSET Rowed, what = "now" => \E p \in Posts : S = {p}, what = "expire" => passed,
           Become(t, what, S), UNCHANGED <<post, passed, public, approvals, nows, broken, replans, unlocks>>, CountInv'
    PROVE  IInv'
<1>1. TypeInv /\ S \in SUBSET Posts /\ what \in Jobs \ {"refresh", "marks"}
  BY DEF IInv, Rowed
<1>2. /\ DoingInv' /\ doing'[t].what = what /\ doing'[t].of = S
      /\ \A u \in Threads : u # t => doing'[u] = doing[u]
  BY <1>1, BecomeInv
<1>3. TypeInv'
  BY <1>1, <1>2 DEF TypeInv
<1>4. \A p \in Posts : t \notin Bound(p)'
  BY <1>2 DEF Bound
<1>5. \A p \in Posts : Out(p)' + One(t \in Bound(p)') - Asked(p)' <= Out(p) + One(t \in Bound(p)) - Asked(p)
  BY <1>1, <1>4 DEF Out, Asked, One, TypeInv, CountInv
<1>6. \A p \in Posts : /\ New(p)' <=> New(p)
                       /\ post'[p].when # "ahead" \/ post'[p].status = "skipped" => passed
  BY DEF IInv, DayInv, New
<1>7. ~Plans(t)'
  BY <1>2 DEF Plans
<1> QED BY <1>2, <1>3, <1>5, <1>6, <1>7, ThreadStep

\* A thread that ends, with the rows as they are.
LEMMA LeaveStep ==
    ASSUME IInv, NEW t \in Threads, Done(t),
           UNCHANGED <<post, passed, public, approvals, nows, broken, replans, unlocks>>, CountInv'
    PROVE  IInv'
<1>1. TypeInv
  BY DEF IInv
<1>2. /\ DoingInv' /\ doing'[t].what = "idle" /\ doing'[t].of = {}
      /\ \A u \in Threads : u # t => doing'[u] = doing[u]
  BY <1>1, DoneInv
<1>3. TypeInv'
  BY <1>1, <1>2 DEF TypeInv
<1>4. \A p \in Posts : t \notin Bound(p)'
  BY <1>2 DEF Bound
<1>5. \A p \in Posts : Out(p)' + One(t \in Bound(p)') - Asked(p)' <= Out(p) + One(t \in Bound(p)) - Asked(p)
  BY <1>1, <1>4 DEF Out, Asked, One, TypeInv, CountInv
<1>6. \A p \in Posts : /\ New(p)' <=> New(p)
                       /\ post'[p].when # "ahead" \/ post'[p].status = "skipped" => passed
  BY DEF IInv, DayInv, New
<1>7. ~Plans(t)'
  BY <1>2 DEF Plans
<1> QED BY <1>2, <1>3, <1>5, <1>6, <1>7, ThreadStep

\* A thread that stores a row and ends.
LEMMA EndsStep ==
    ASSUME IInv, NEW t \in Threads, NEW p \in Posts, NEW what, NEW r \in Rows, Ends(t, p, what, r),
           r.status # "absent", r.when = post[p].when, r.status # "skipped", CountInv',
           UNCHANGED <<replans, unlocks>>, \A q \in Posts : q # p => Asked(q)' >= Asked(q),
           One(r.status = "scheduled") - Asked(p)' <= One(t \in Bound(p)) - Asked(p),
           Asked(p) <= Asked(p)'
    PROVE  IInv'
<1>1. TypeInv /\ DayInv
  BY DEF IInv
<1>2. /\ DoingInv' /\ doing'[t].what = "idle" /\ doing'[t].of = {}
      /\ \A u \in Threads : u # t => doing'[u] = doing[u]
  BY <1>1, DoneInv DEF Ends
<1>3. /\ post' \in [Posts -> Rows]
      /\ \A q \in Posts : q # p => post'[q] = post[q]
      /\ post'[p] = post[p] \/ post'[p] = [r EXCEPT !.old = FALSE]
  BY <1>1, StoreRow DEF Ends
<1>4. TypeInv' /\ UNCHANGED <<passed, public>>
  BY <1>1, <1>2, <1>3 DEF TypeInv, Ends
<1>5. \A q \in Posts : t \notin Bound(q)'
  BY <1>2 DEF Bound
<1>6. p \in Rowed
  BY <1>1 DEF Ends, DayInv
<1>7. post[p].status # "absent"
  BY <1>6 DEF Rowed, New
<1>8. \A q \in Posts : Asked(q) \in Nat /\ Asked(q)' \in Nat /\ public[q] \in Nat
  BY <1>1, <1>4 DEF Asked, TypeInv, CountInv
<1>9. ASSUME NEW q \in Posts
      PROVE  Out(q)' + One(t \in Bound(q)') - Asked(q)' <= Out(q) + One(t \in Bound(q)) - Asked(q)
  <2>1. One(t \in Bound(q)') = 0 /\ One(t \in Bound(q)) \in {0, 1}
    BY <1>5 DEF One
  <2>2. CASE q # p
    BY <1>3, <1>4, <1>8, <2>1, <2>2 DEF Out, One
  <2>3. CASE q = p /\ post'[p] = post[p]
    BY <1>3, <1>4, <1>8, <2>1, <2>3 DEF Out, One
  <2>4. CASE q = p /\ post'[p] = [r EXCEPT !.old = FALSE]
    <3>1. post'[p].status = r.status
      BY <2>4 DEF Rows
    <3> QED BY <1>4, <1>8, <2>1, <2>4, <3>1 DEF Out, One
  <2> QED BY <1>3, <2>2, <2>3, <2>4
<1>10. \A q \in Posts : /\ New(q)' <=> New(q)
                        /\ post'[q].when # "ahead" \/ post'[q].status = "skipped" => passed
  BY <1>1, <1>3, <1>7 DEF DayInv, New, Rows
<1>11. ~Plans(t)'
  BY <1>2 DEF Plans
<1> QED BY <1>2, <1>4, <1>9, <1>10, <1>11, ThreadStep

-----------------------------------------------------------------------------
(* The steps.                                                               *)

LEMMA RefreshBeginInv ==
    ASSUME IInv, NEW w \in Workers, RefreshBegin(w)
    PROVE  IInv'
<1> DEFINE S == {p \in Posts : post[p].status \in {"draft", "scheduled"} /\ post[p].design = "old"} \ Held(w)
           new == [what |-> "refresh", of |-> S, holds |-> S, read |-> Copy(S)]
<1>1. TypeInv /\ w \in Threads /\ S \in SUBSET Posts
  BY DEF IInv, Threads
<1>2. Copy(S) \in [S -> Notes] /\ Copy(S) \in Copies
  BY <1>1, CopyIsRead
<1>3. new \in Doings /\ DOMAIN new.read = S /\ new.what = "refresh" /\ new.of = S /\ new.holds = S
  BY <1>1, <1>2 DEF Doings, Jobs
<1>4. doing' = [doing EXCEPT ![w] = new]
  BY DEF RefreshBegin
<1>5. S \subseteq Rowed
  BY DEF Rowed, New
<1> HIDE DEF new, S
<1>6. DoingInv' /\ doing'[w] = new /\ \A u \in Threads : u # w => doing'[u] = doing[u]
  BY <1>1, <1>3, <1>4 DEF TypeInv, DoingInv
<1>7. UNCHANGED <<post, passed, public, approvals, nows, broken, replans, unlocks, requests, faults>>
  BY DEF RefreshBegin, counters
<1>8. TypeInv'
  BY <1>1, <1>6, <1>7 DEF TypeInv, CountInv
<1>9. \A p \in Posts : w \notin Bound(p)'
  BY <1>3, <1>6 DEF Bound
<1>10. \A p \in Posts : Out(p)' + One(w \in Bound(p)') - Asked(p)' <= Out(p) + One(w \in Bound(p)) - Asked(p)
  BY <1>1, <1>7, <1>9 DEF Out, Asked, One, TypeInv, CountInv
<1>11. \A p \in Posts : /\ New(p)' <=> New(p)
                        /\ post'[p].when # "ahead" \/ post'[p].status = "skipped" => passed
  BY <1>7 DEF IInv, DayInv, New
<1>12. ~Plans(w)' /\ doing'[w].of \subseteq Rowed /\ doing'[w].what # "expire"
  BY <1>3, <1>5, <1>6 DEF Plans
<1> QED BY <1>1, <1>6, <1>7, <1>8, <1>10, <1>11, <1>12, ThreadStep

LEMMA RefreshLetsGoInv ==
    ASSUME IInv, NEW w \in Workers, RefreshLetsGo(w)
    PROVE  IInv'
<1>1. TypeInv /\ DayInv /\ w \in Threads
  BY DEF IInv, Threads
<1>2. /\ doing[w].what = "refresh" /\ doing' = [doing EXCEPT ![w].holds = {}]
      /\ UNCHANGED <<post, passed, public, approvals, nows, broken, replans, unlocks, requests, faults>>
  BY DEF RefreshLetsGo, Does, counters
<1>3. /\ doing'[w] \in Doings /\ doing'[w].what = "refresh" /\ doing'[w].of = doing[w].of
      /\ doing'[w].holds = {} /\ doing'[w].read = doing[w].read
      /\ \A u \in Threads : u # w => doing'[u] = doing[u]
  BY <1>1, <1>2 DEF TypeInv, DoingInv, Doings
<1>4. DoingInv'
  BY <1>1, <1>2, <1>3 DEF TypeInv, DoingInv
<1>5. TypeInv'
  BY <1>1, <1>2, <1>4 DEF TypeInv, CountInv
<1>6. \A p \in Posts : w \notin Bound(p)'
  BY <1>3 DEF Bound
<1>7. \A p \in Posts : Out(p)' + One(w \in Bound(p)') - Asked(p)' <= Out(p) + One(w \in Bound(p)) - Asked(p)
  BY <1>1, <1>2, <1>6 DEF Out, Asked, One, TypeInv, CountInv
<1>8. \A p \in Posts : /\ New(p)' <=> New(p)
                       /\ post'[p].when # "ahead" \/ post'[p].status = "skipped" => passed
  BY <1>1, <1>2 DEF DayInv, New
<1>9. ~Plans(w)' /\ doing'[w].of \subseteq Rowed /\ doing'[w].what # "expire"
  BY <1>1, <1>3 DEF Plans, DayInv
<1> QED BY <1>1, <1>2, <1>3, <1>5, <1>7, <1>8, <1>9, ThreadStep

LEMMA RefreshOneInv ==
    ASSUME IInv, NEW w \in Workers, NEW p \in Posts, RefreshOne(w, p)
    PROVE  IInv'
<1> DEFINE rest == doing[w].of \ {p}
           more == [doing[w] EXCEPT !.of = rest, !.holds = {}, !.read = [q \in rest |-> doing[w].read[q]]]
<1>1. TypeInv /\ DayInv /\ w \in Threads
  BY DEF IInv, Threads
<1>2. /\ doing[w] \in Doings /\ doing[w].what = "refresh" /\ DOMAIN doing[w].read = doing[w].of
      /\ p \in doing[w].of
  BY <1>1 DEF RefreshOne, Does, TypeInv, DoingInv
<1>3. doing[w].read \in [doing[w].of -> Notes]
  <2>1. PICK S \in SUBSET Posts : doing[w].read \in [S -> Notes]
    BY <1>2 DEF Doings, Copies
  <2> QED BY <1>2, <2>1
<1>4. [q \in rest |-> doing[w].read[q]] \in [rest -> Notes] /\ rest \in SUBSET Posts
  BY <1>2, <1>3 DEF Doings
<1>5. [q \in rest |-> doing[w].read[q]] \in Copies
  BY <1>4 DEF Copies
<1>6. more \in Doings /\ more.what = "refresh" /\ more.of = rest /\ more.holds = {} /\ DOMAIN more.read = rest
  BY <1>2, <1>4, <1>5 DEF Doings
<1>7. /\ DoingInv' /\ doing'[w].what \in {"idle", "refresh"} /\ doing'[w].of \subseteq rest
      /\ \A u \in Threads : u # w => doing'[u] = doing[u]
  <2>1. CASE rest = {}
    <3>1. Done(w)
      BY <2>1 DEF RefreshOne, Done
    <3> QED BY <1>1, <3>1, DoneInv
  <2>2. CASE rest # {}
    <3>1. doing' = [doing EXCEPT ![w] = IF rest = {} THEN Idle ELSE more]
      BY DEF RefreshOne
    <3>2. doing' = [doing EXCEPT ![w] = more]
      BY <2>2, <3>1
    <3> HIDE DEF more, rest
    <3> QED BY <1>1, <1>6, <3>2 DEF TypeInv, DoingInv
  <2> QED BY <2>1, <2>2
<1>8. PICK when \in {post[p].when, "ahead"} : Store(w, p, Rebuilt(p, doing[w].read[p], when))
  BY DEF RefreshOne
<1> DEFINE r == Rebuilt(p, doing[w].read[p], when)
<1>9. post[p] \in Rows /\ post[p].status # "absent" /\ p \in Rowed
  BY <1>1, <1>2 DEF TypeInv, DayInv, Rowed, New
<1>10. /\ r \in Rows /\ r.status \in {post[p].status, "draft"}
       /\ r.when \in {post[p].when, "ahead"}
  BY <1>8, <1>9 DEF Rebuilt, Rows, Statuses, ACTIVE, Times
<1> HIDE DEF r
<1>11. /\ post' \in [Posts -> Rows]
       /\ \A q \in Posts : q # p => post'[q] = post[q]
       /\ post'[p] = post[p] \/ post'[p] = [r EXCEPT !.old = FALSE]
  BY <1>1, <1>8, <1>10, StoreRow DEF r
<1>12. /\ post'[p].status \in {post[p].status, "draft"}
       /\ post'[p].when \in {post[p].when, "ahead"}
  BY <1>10, <1>11 DEF Rows
<1>13. UNCHANGED <<passed, public, approvals, nows, broken, replans, unlocks, requests, faults>>
  BY DEF RefreshOne, counters
<1>14. TypeInv'
  BY <1>1, <1>7, <1>11, <1>13 DEF TypeInv, CountInv
<1>15. \A q \in Posts : w \notin Bound(q)'
  BY <1>7 DEF Bound
<1>16. ASSUME NEW q \in Posts
       PROVE  Out(q)' + One(w \in Bound(q)') - Asked(q)' <= Out(q) + One(w \in Bound(q)) - Asked(q)
  <2>1. public[q] \in Nat /\ Asked(q) \in Nat /\ Asked(q)' = Asked(q)
    BY <1>1, <1>13 DEF Asked, TypeInv, CountInv
  <2>2. post'[q].status = "scheduled" => post[q].status = "scheduled"
    BY <1>11, <1>12
  <2> QED BY <1>13, <1>15, <2>1, <2>2 DEF Out, One
<1>17. \A q \in Posts : /\ New(q)' <=> New(q)
                        /\ post'[q].when # "ahead" \/ post'[q].status = "skipped" => passed
  BY <1>1, <1>9, <1>11, <1>12 DEF DayInv, New
<1>18. ~Plans(w)' /\ doing'[w].of \subseteq Rowed /\ doing'[w].what # "expire"
  BY <1>1, <1>7 DEF Plans, DayInv
<1> HIDE DEF rest, more
<1> QED BY <1>1, <1>7, <1>13, <1>14, <1>16, <1>17, <1>18, ThreadStep

LEMMA LeavesInv ==
    ASSUME IInv, NEW t \in Threads, RefreshFails(t) \/ Dies(t) \/ NowRefused(t)
    PROVE  IInv'
<1>1. CountInv
  BY DEF IInv, TypeInv
<1>2. faults' \in 0..MaxFaults /\ unlocks <= faults'
  BY <1>1, ConstantsAssumption DEF RefreshFails, Dies, NowRefused, Fault, asked, counters, CountInv
<1>3. Done(t) /\ UNCHANGED <<post, passed, public, approvals, nows, broken, replans, unlocks, requests>>
  BY DEF RefreshFails, Dies, NowRefused, asked, counters
<1> QED BY <1>1, <1>2, <1>3, LeaveStep DEF CountInv

LEMMA SweepReadsInv ==
    ASSUME IInv, NEW w \in Workers, SweepReads(w)
    PROVE  IInv'
<1>1. w \in Threads /\ CountInv /\ DayInv
  BY DEF Threads, IInv, TypeInv
<1>2. UNCHANGED <<post, passed, public, approvals, nows, broken, replans, unlocks>> /\ CountInv'
  BY <1>1 DEF SweepReads, counters, CountInv
<1>3. Stale \in SUBSET Rowed /\ Expired \in SUBSET Rowed /\ (Expired # {} => passed)
  BY <1>1 DEF Stale, Expired, Rowed, New, DayInv
<1>4. CASE Become(w, "stale", Stale)
  BY <1>1, <1>2, <1>3, <1>4, TurnStep DEF Jobs
<1>5. CASE Become(w, "expire", Expired) /\ Expired # {}
  BY <1>1, <1>2, <1>3, <1>5, TurnStep DEF Jobs
<1> QED BY <1>4, <1>5 DEF SweepReads

LEMMA ReadsInv ==
    ASSUME IInv, NEW o \in Operators, NEW p \in Posts,
           ApproveReads(o, p) \/ CancelReads(o, p) \/ NowReads(o, p)
    PROVE  IInv'
<1>1. o \in Threads /\ CountInv
  BY DEF Threads, IInv, TypeInv
<1>2. {p} \in SUBSET Rowed
  BY DEF Rowed, New, ApproveReads, CancelReads, NowReads
<1>3. PICK kind \in {"approve", "cancel", "now"} : Reads(o, kind, p)
  BY DEF ApproveReads, CancelReads, NowReads
<1>4. UNCHANGED <<post, passed, public, approvals, nows, broken, replans, unlocks>> /\ Become(o, kind, {p})
  BY <1>3 DEF Reads
<1>5. CountInv'
  BY <1>1, <1>3, ConstantsAssumption DEF Reads, CountInv
<1>6. kind \in Jobs \ {"refresh", "marks", "post", "plan", "replan", "unlocked"} /\ kind # "expire"
  BY DEF Jobs
<1> QED BY <1>1, <1>2, <1>4, <1>5, <1>6, TurnStep

\* Two posts in one plan: none is planned while there are others, unless an operator asks.
LEMMA PlanBeginInv ==
    ASSUME IInv, NEW w \in Workers, PlanBegin(w)
    PROVE  IInv'
<1>1. TypeInv /\ DayInv /\ PostedInv /\ w \in Threads
  BY DEF IInv, Threads
<1>2. Become(w, "plan", {}) /\ ~Planning /\ ~passed /\ Taken("plan") = {}
  BY DEF PlanBegin, PlanReads
<1>3. UNCHANGED <<post, passed, public, approvals, nows, broken, replans, unlocks, requests, faults>>
  BY DEF PlanBegin, counters
<1>4. /\ DoingInv' /\ doing'[w].what = "plan" /\ doing'[w].of = {}
      /\ \A u \in Threads : u # w => doing'[u] = doing[u]
  BY <1>1, <1>2, BecomeInv DEF Jobs
<1>5. TypeInv'
  BY <1>1, <1>3, <1>4 DEF TypeInv, CountInv
<1>6. \A p \in Posts : w \notin Bound(p)'
  BY <1>4 DEF Bound
<1>7. \A p \in Posts : Out(p)' + One(w \in Bound(p)') - Asked(p)' <= Out(p) + One(w \in Bound(p)) - Asked(p)
  BY <1>1, <1>3, <1>6 DEF Out, Asked, One, TypeInv, CountInv
<1>8. PostedInv'
  BY <1>1, <1>4, <1>5, <1>7, BoundStep
<1>9. Rowed = {}
  BY <1>1, <1>2 DEF Taken, Rowed, New, DayInv, TypeInv, Rows, Statuses, ACTIVE
<1>10. Rowed' = {}
  BY <1>3, <1>9 DEF Rowed, New
<1>11. IsFiniteSet({}) /\ Cardinality({}) = 0
  BY FS_EmptySet
<1>12. \A t, u \in Threads : Locked(t)' /\ Locked(u)' => t = u
  BY <1>2, <1>4 DEF Locked, Planning
<1>13. \A t \in Threads : doing'[t].of \subseteq Rowed' /\ (doing'[t].what = "expire" => passed')
  BY <1>1, <1>3, <1>4, <1>9 DEF DayInv
<1>14. \A p \in Posts : (post[p].when # "ahead" \/ post[p].status = "skipped" => passed)'
  BY <1>1, <1>3 DEF DayInv
<1>15. replans' \in Nat /\ unlocks' \in Nat
  BY <1>5 DEF TypeInv, CountInv
<1>17. Loose' \subseteq Loose
  BY <1>4 DEF Loose
<1>18. /\ Cardinality(Loose) \in Nat /\ Cardinality(Loose') \in Nat
       /\ Cardinality(Loose') <= Cardinality(Loose)
  BY <1>17, LooseIsFinite, FS_Subset, FS_CardinalityType
<1>19. Cardinality(Loose') <= unlocks'
  BY <1>1, <1>3, <1>15, <1>18 DEF DayInv
<1>16. (Cardinality(Rowed) + One(Planning) + Cardinality(Loose) <= 1 + replans + unlocks)'
  BY <1>10, <1>11, <1>15, <1>18, <1>19 DEF One
<1> QED BY <1>5, <1>8, <1>10, <1>11, <1>12, <1>13, <1>14, <1>16, <1>19 DEF IInv, DayInv

LEMMA ReplanInv ==
    ASSUME IInv, NEW o \in Operators, Replan(o)
    PROVE  IInv'
<1>1. TypeInv /\ DayInv /\ PostedInv /\ o \in Threads
  BY DEF IInv, Threads
<1>2. Become(o, "replan", {}) /\ ~Planning
  BY DEF Replan, PlanReads
<1>3. /\ UNCHANGED <<post, passed, public, approvals, nows, broken, unlocks, faults>>
      /\ requests < MaxRequests /\ requests' = requests + 1 /\ replans' = replans + 1
  BY DEF Replan
<1>4. /\ DoingInv' /\ doing'[o].what = "replan" /\ doing'[o].of = {}
      /\ \A u \in Threads : u # o => doing'[u] = doing[u]
  BY <1>1, <1>2, BecomeInv DEF Jobs
<1>5. TypeInv'
  BY <1>1, <1>3, <1>4, ConstantsAssumption DEF TypeInv, CountInv
<1>6. \A p \in Posts : o \notin Bound(p)'
  BY <1>4 DEF Bound
<1>7. \A p \in Posts : Out(p)' + One(o \in Bound(p)') - Asked(p)' <= Out(p) + One(o \in Bound(p)) - Asked(p)
  BY <1>1, <1>3, <1>6 DEF Out, Asked, One, TypeInv, CountInv
<1>8. PostedInv'
  BY <1>1, <1>4, <1>5, <1>7, BoundStep
<1>9. Rowed' = Rowed
  BY <1>3 DEF Rowed, New
<1>10. Cardinality(Rowed) \in Nat
  BY <1>1, FS_CardinalityType DEF DayInv
<1>11. \A t, u \in Threads : Locked(t)' /\ Locked(u)' => t = u
  BY <1>2, <1>4 DEF Locked, Planning
<1>12. \A t \in Threads : doing'[t].of \subseteq Rowed' /\ (doing'[t].what = "expire" => passed')
  BY <1>1, <1>3, <1>4, <1>9 DEF DayInv
<1>13. \A p \in Posts : (post[p].when # "ahead" \/ post[p].status = "skipped" => passed)'
  BY <1>1, <1>3 DEF DayInv
<1>14. replans \in Nat /\ unlocks \in Nat
  BY <1>1 DEF TypeInv, CountInv
<1>16. Loose' \subseteq Loose
  BY <1>4 DEF Loose
<1>17. /\ Cardinality(Loose) \in Nat /\ Cardinality(Loose') \in Nat
       /\ Cardinality(Loose') <= Cardinality(Loose)
  BY <1>16, LooseIsFinite, FS_Subset, FS_CardinalityType
<1>18. Cardinality(Rowed) + Cardinality(Loose) <= 1 + replans + unlocks /\ Cardinality(Loose) <= unlocks
  BY <1>1, <1>2, <1>10, <1>14, <1>17 DEF DayInv, One
<1>15. /\ (Cardinality(Rowed) + One(Planning) + Cardinality(Loose) <= 1 + replans + unlocks)'
       /\ (Cardinality(Loose) <= unlocks)'
  BY <1>3, <1>9, <1>10, <1>14, <1>17, <1>18 DEF One
<1> QED BY <1>1, <1>5, <1>8, <1>9, <1>11, <1>12, <1>13, <1>15 DEF IInv, DayInv

\* The plan that lost its lock is counted from then on.
LEMMA PlanUnlocksInv ==
    ASSUME IInv, NEW t \in Threads, PlanUnlocks(t)
    PROVE  IInv'
<1>1. TypeInv /\ DayInv /\ PostedInv
  BY DEF IInv
<1>2. /\ Locked(t) /\ doing' = [doing EXCEPT ![t].what = "unlocked"]
      /\ faults < MaxFaults /\ faults' = faults + 1 /\ unlocks' = unlocks + 1
      /\ UNCHANGED <<post, passed, public, approvals, nows, broken, replans, requests>>
  BY DEF PlanUnlocks, Locked, Fault
<1>3. /\ doing'[t] \in Doings /\ doing'[t].what = "unlocked" /\ doing'[t].of = doing[t].of
      /\ doing'[t].holds = doing[t].holds
      /\ \A u \in Threads : u # t => doing'[u] = doing[u]
  BY <1>1, <1>2 DEF TypeInv, DoingInv, Doings, Jobs
<1>4. DoingInv'
  BY <1>1, <1>2, <1>3 DEF TypeInv, DoingInv
<1>5. replans \in Nat /\ unlocks \in Nat /\ faults \in Nat
  BY <1>1, ConstantsAssumption DEF TypeInv, CountInv
<1>6. CountInv'
  BY <1>1, <1>2, <1>5, ConstantsAssumption DEF TypeInv, CountInv
<1>7. TypeInv'
  BY <1>1, <1>2, <1>4, <1>6 DEF TypeInv
<1>8. \A p \in Posts : t \notin Bound(p)'
  BY <1>3 DEF Bound
<1>9. \A p \in Posts : Out(p)' + One(t \in Bound(p)') - Asked(p)' <= Out(p) + One(t \in Bound(p)) - Asked(p)
  BY <1>1, <1>2, <1>8 DEF Out, Asked, One, TypeInv, CountInv
<1>10. PostedInv'
  BY <1>1, <1>3, <1>7, <1>9, BoundStep
<1>11. Rowed' = Rowed /\ IsFiniteSet(Rowed) /\ Cardinality(Rowed) \in Nat
  BY <1>1, <1>2, FS_CardinalityType DEF Rowed, New, DayInv
<1>12. Planning /\ ~Planning'
  BY <1>1, <1>2, <1>3 DEF Planning, DayInv, Locked
<1>13. One(Planning) = 1 /\ One(Planning') = 0
  BY <1>12 DEF One
<1>14. Loose' = Loose \cup {t} /\ t \notin Loose
  BY <1>2, <1>3 DEF Loose, Locked
<1>15. Cardinality(Loose') = Cardinality(Loose) + 1 /\ Cardinality(Loose) \in Nat
  BY <1>14, LooseIsFinite, FS_AddElement, FS_CardinalityType
<1>16. /\ Cardinality(Loose') <= unlocks'
       /\ Cardinality(Rowed') + One(Planning') + Cardinality(Loose') <= 1 + replans' + unlocks'
  BY <1>1, <1>2, <1>5, <1>11, <1>13, <1>15 DEF DayInv
<1>17. \A u, v \in Threads : Locked(u)' /\ Locked(v)' => u = v
  BY <1>12 DEF Locked, Planning
<1>18. \A u \in Threads : doing'[u].of \subseteq Rowed' /\ (doing'[u].what = "expire" => passed')
  BY <1>1, <1>2, <1>3, <1>11 DEF DayInv
<1>19. \A q \in Posts : (post[q].when # "ahead" \/ post[q].status = "skipped" => passed)'
  BY <1>1, <1>2 DEF DayInv
<1> QED BY <1>7, <1>10, <1>11, <1>16, <1>17, <1>18, <1>19 DEF IInv, DayInv

LEMMA PlanEndsInv ==
    ASSUME IInv, NEW t \in Threads, PlanEnds(t)
    PROVE  IInv'
<1>1. TypeInv /\ DayInv /\ PostedInv
  BY DEF IInv
<1>2. PICK p \in Posts : New(p) /\ Store(t, p, [NoRow EXCEPT !.status = "draft"])
  BY DEF PlanEnds
<1> DEFINE r == [NoRow EXCEPT !.status = "draft"]
<1>20. Store(t, p, r)
  BY <1>2
<1>3. r \in Rows /\ r.status = "draft" /\ r.when = "ahead"
  BY DEF NoRow, Rows, Statuses, ACTIVE, Times
<1> HIDE DEF r
<1>4. /\ post' \in [Posts -> Rows]
      /\ \A q \in Posts : q # p => post'[q] = post[q]
      /\ post'[p] = post[p] \/ post'[p] = [r EXCEPT !.old = FALSE]
  BY <1>1, <1>3, <1>20, StoreRow
<1>5. post'[p] = post[p] \/ (post'[p].status = "draft" /\ post'[p].when = "ahead")
  BY <1>3, <1>4 DEF Rows
<1>6. /\ DoingInv' /\ doing'[t].what = "idle" /\ doing'[t].of = {}
      /\ \A u \in Threads : u # t => doing'[u] = doing[u]
  BY <1>1, DoneInv DEF PlanEnds
<1>7. UNCHANGED <<passed, public, approvals, nows, broken, replans, unlocks, requests, faults>>
  BY DEF PlanEnds, counters
<1>8. TypeInv'
  BY <1>1, <1>4, <1>6, <1>7 DEF TypeInv, CountInv
<1>9. \A q \in Posts : t \notin Bound(q)'
  BY <1>6 DEF Bound
<1>10. ASSUME NEW q \in Posts
       PROVE  Out(q)' + One(t \in Bound(q)') - Asked(q)' <= Out(q) + One(t \in Bound(q)) - Asked(q)
  <2>1. public[q] \in Nat /\ Asked(q) \in Nat /\ Asked(q)' = Asked(q)
    BY <1>1, <1>7 DEF Asked, TypeInv, CountInv
  <2>2. post'[q].status = "scheduled" => post[q].status = "scheduled"
    BY <1>4, <1>5
  <2> QED BY <1>7, <1>9, <2>1, <2>2 DEF Out, One
<1>11. PostedInv'
  BY <1>1, <1>6, <1>8, <1>10, BoundStep
<1>12. p \notin Rowed /\ Rowed' \in {Rowed, Rowed \cup {p}}
  BY <1>2, <1>4, <1>5 DEF Rowed, New
<1>13. /\ IsFiniteSet(Rowed) /\ Cardinality(Rowed) \in Nat
       /\ IsFiniteSet(Rowed \cup {p}) /\ Cardinality(Rowed \cup {p}) = Cardinality(Rowed) + 1
  BY <1>1, <1>12, FS_AddElement, FS_CardinalityType DEF DayInv
<1>14. IsFiniteSet(Rowed') /\ Cardinality(Rowed') <= Cardinality(Rowed) + 1 /\ Cardinality(Rowed') \in Nat
  <2>1. CASE Rowed' = Rowed
    BY <1>13, <2>1
  <2>2. CASE Rowed' = Rowed \cup {p}
    BY <1>13, <2>2
  <2> QED BY <1>12, <2>1, <2>2
<1>15. replans \in Nat /\ unlocks \in Nat /\ UNCHANGED <<replans, unlocks>>
  BY <1>1, <1>7 DEF TypeInv, CountInv
<1>21. IsFiniteSet(Loose) /\ Cardinality(Loose) \in Nat
  BY LooseIsFinite, FS_CardinalityType
<1>16. /\ Cardinality(Loose') <= unlocks'
       /\ Cardinality(Rowed') + One(Planning') + Cardinality(Loose') <= 1 + replans' + unlocks'
  <2>1. CASE Locked(t)
    <3>1. Planning /\ ~Planning'
      BY <1>1, <1>6, <2>1 DEF Planning, DayInv, Locked
    <3>2. Loose' = Loose
      BY <1>6, <2>1 DEF Loose, Locked
    <3>3. One(Planning) = 1 /\ One(Planning') = 0
      BY <3>1 DEF One
    <3> QED BY <1>1, <1>13, <1>14, <1>15, <1>21, <3>2, <3>3 DEF DayInv
  <2>2. CASE doing[t].what = "unlocked"
    <3>1. Planning' <=> Planning
      BY <1>6, <2>2 DEF Planning
    <3>2. Loose' = Loose \ {t} /\ t \in Loose
      BY <1>6, <2>2 DEF Loose
    <3>3. Cardinality(Loose') = Cardinality(Loose) - 1
      BY <1>21, <3>2, FS_RemoveElement
    <3>4. One(Planning') = One(Planning) /\ One(Planning) \in Nat
      BY <3>1 DEF One
    <3> QED BY <1>1, <1>13, <1>14, <1>15, <1>21, <3>3, <3>4 DEF DayInv
  <2> QED BY <2>1, <2>2 DEF PlanEnds, Locked
<1>17. \A u, v \in Threads : Locked(u)' /\ Locked(v)' => u = v
  BY <1>1, <1>6 DEF Locked, DayInv
<1>18. \A u \in Threads : doing'[u].of \subseteq Rowed' /\ (doing'[u].what = "expire" => passed')
  BY <1>1, <1>6, <1>7, <1>12 DEF DayInv
<1>19. \A q \in Posts : (post[q].when # "ahead" \/ post[q].status = "skipped" => passed)'
  BY <1>1, <1>4, <1>5, <1>7 DEF DayInv
<1> QED BY <1>8, <1>11, <1>14, <1>16, <1>17, <1>18, <1>19 DEF IInv, DayInv

LEMMA SweepWritesInv ==
    ASSUME IInv, NEW w \in Workers, SweepWrites(w)
    PROVE  IInv'
<1> DEFINE rows == [p \in Posts |-> IF p \notin doing[w].of THEN post[p]
                                    ELSE IF Does(w, "stale") THEN Uncertain(post[p]) ELSE Skipped(post[p])]
<1>1. TypeInv /\ DayInv /\ w \in Threads
  BY DEF IInv, Threads
<1>2. StoreAll(rows) /\ Done(w) /\ UNCHANGED <<passed, public, approvals, nows, broken, replans, unlocks, requests, faults>>
  BY DEF SweepWrites, counters
<1>3. rows \in [Posts -> Rows]
  BY <1>1 DEF TypeInv, Uncertain, Skipped, Rows, Statuses, ACTIVE
<1>4. \A p \in Posts :
        \/ rows[p] = post[p]
        \/ /\ p \in doing[w].of /\ rows[p].when = post[p].when
           /\ rows[p].status = IF doing[w].what = "stale" THEN "failed" ELSE "skipped"
  BY <1>1 DEF TypeInv, Uncertain, Skipped, Rows, Does
<1> HIDE DEF rows
<1>5. /\ post' \in [Posts -> Rows]
      /\ \A p \in Posts : post'[p] = post[p] \/ post'[p] = [rows[p] EXCEPT !.old = FALSE]
      /\ \A p \in Posts : rows[p] = post[p] => post'[p] = post[p]
  BY <1>1, <1>2, <1>3, StoreAllRows
<1>6. \A p \in Posts : [rows[p] EXCEPT !.old = FALSE].when = rows[p].when
                       /\ [rows[p] EXCEPT !.old = FALSE].status = rows[p].status
  BY <1>3 DEF Rows
<1>7. \A p \in Posts :
        \/ post'[p] = post[p]
        \/ /\ p \in Rowed /\ post'[p].when = post[p].when
           /\ post'[p].status = IF doing[w].what = "stale" THEN "failed" ELSE "skipped"
  BY <1>1, <1>4, <1>5, <1>6 DEF DayInv
<1>8. /\ DoingInv' /\ doing'[w].what = "idle" /\ doing'[w].of = {}
      /\ \A u \in Threads : u # w => doing'[u] = doing[u]
  BY <1>1, <1>2, DoneInv
<1>9. TypeInv'
  BY <1>1, <1>2, <1>5, <1>8 DEF TypeInv, CountInv
<1>10. \A p \in Posts : w \notin Bound(p)'
  BY <1>8 DEF Bound
<1>11. ASSUME NEW p \in Posts
       PROVE  Out(p)' + One(w \in Bound(p)') - Asked(p)' <= Out(p) + One(w \in Bound(p)) - Asked(p)
  <2>1. public[p] \in Nat /\ Asked(p) \in Nat /\ Asked(p)' = Asked(p)
    BY <1>1, <1>2 DEF Asked, TypeInv, CountInv
  <2>2. post'[p].status = "scheduled" => post[p].status = "scheduled"
    BY <1>7
  <2> QED BY <1>2, <1>10, <2>1, <2>2 DEF Out, One
<1>12. doing[w].what \in {"stale", "expire"}
  BY DEF SweepWrites
<1>13. \A p \in Posts : /\ New(p)' <=> New(p)
                        /\ post'[p].when # "ahead" \/ post'[p].status = "skipped" => passed
  BY <1>1, <1>7, <1>12 DEF DayInv, New, Rowed
<1>14. ~Plans(w)'
  BY <1>8 DEF Plans
<1> QED BY <1>1, <1>2, <1>8, <1>9, <1>11, <1>13, <1>14, ThreadStep

LEMMA ClaimLateInv ==
    ASSUME IInv, NEW w \in Workers, NEW p \in Posts, ClaimLate(w, p)
    PROVE  IInv'
<1>1. TypeInv /\ DayInv /\ PostedInv /\ w \in Threads
  BY DEF IInv, Threads
<1>2. post' = [post EXCEPT ![p] = Skipped(@)] /\ post[p].status = "scheduled" /\ post[p].when = "late"
  BY DEF ClaimLate, Claimable
<1>3. UNCHANGED <<passed, doing, public, approvals, nows, broken, replans, unlocks, requests, faults>>
  BY DEF ClaimLate, counters
<1>4. Skipped(post[p]) \in Rows /\ Skipped(post[p]).status = "skipped" /\ Skipped(post[p]).when = "late"
  BY <1>1, <1>2 DEF TypeInv, Skipped, Rows, Statuses
<1>5. /\ post' \in [Posts -> Rows] /\ post'[p].status = "skipped" /\ post'[p].when = "late"
      /\ \A q \in Posts : q # p => post'[q] = post[q]
  BY <1>1, <1>2, <1>4 DEF TypeInv
<1>6. TypeInv'
  BY <1>1, <1>3, <1>5 DEF TypeInv, DoingInv, CountInv
<1>7. ASSUME NEW q \in Posts
      PROVE  Out(q)' + One(w \in Bound(q)') - Asked(q)' <= Out(q) + One(w \in Bound(q)) - Asked(q)
  <2>1. public[q] \in Nat /\ Asked(q) \in Nat /\ Asked(q)' = Asked(q) /\ Bound(q)' = Bound(q)
    BY <1>1, <1>3 DEF Asked, Bound, TypeInv, CountInv
  <2>2. post'[q].status = "scheduled" => post[q].status = "scheduled"
    BY <1>2, <1>5
  <2> QED BY <1>3, <2>1, <2>2 DEF Out, One
<1>8. PostedInv'
  BY <1>1, <1>3, <1>6, <1>7, BoundStep
<1>9. \A q \in Posts : /\ New(q)' <=> New(q)
                       /\ post'[q].when # "ahead" \/ post'[q].status = "skipped" => passed'
  BY <1>1, <1>2, <1>3, <1>5 DEF DayInv, New
<1>10. DayInv'
  BY <1>1, <1>3, <1>9, DayStep DEF DayInv, Plans, TypeInv, CountInv
<1> QED BY <1>6, <1>8, <1>10 DEF IInv

LEMMA ClaimInv ==
    ASSUME IInv, NEW w \in Workers, NEW p \in Posts, Claim(w, p)
    PROVE  IInv'
<1> DEFINE r == [Publishing(post[p]) EXCEPT !.attempts = post[p].attempts + 1]
<1>1. TypeInv /\ DayInv /\ w \in Threads
  BY DEF IInv, Threads
<1>2. post' = [post EXCEPT ![p] = r] /\ post[p].status = "scheduled" /\ IsIdle(w)
  BY DEF Claim, Claimable
<1>3. UNCHANGED <<passed, public, approvals, nows, broken, replans, unlocks, requests, faults>> /\ Become(w, "post", {p})
  BY DEF Claim, counters
<1>4. r \in Rows /\ r.status = "publishing" /\ r.when = post[p].when
  <2>1. post[p] \in Rows /\ post[p].attempts \in Nat
    BY <1>1 DEF TypeInv, Rows
  <2>2. Publishing(post[p]) \in Rows /\ Publishing(post[p]).status = "publishing"
        /\ Publishing(post[p]).when = post[p].when
    BY <2>1 DEF Publishing, Rows, Statuses, ACTIVE
  <2>3. post[p].attempts + 1 \in Nat
    BY <2>1
  <2> QED BY <2>2, <2>3 DEF Rows
<1> HIDE DEF r
<1>5. /\ post' \in [Posts -> Rows] /\ post'[p].status = "publishing" /\ post'[p].when = post[p].when
      /\ \A q \in Posts : q # p => post'[q] = post[q]
  BY <1>1, <1>2, <1>4 DEF TypeInv
<1>60. "post" \in Jobs \ {"refresh", "marks"} /\ {p} \in SUBSET Posts /\ "post" # "now"
  BY DEF Jobs
<1>6. /\ DoingInv' /\ doing'[w].what = "post" /\ doing'[w].of = {p}
      /\ \A u \in Threads : u # w => doing'[u] = doing[u]
  BY <1>1, <1>3, <1>60, BecomeInv
<1>7. TypeInv'
  BY <1>1, <1>3, <1>5, <1>6 DEF TypeInv, CountInv
<1>8. p \in Rowed
  BY <1>2 DEF Rowed, New
<1>9. ASSUME NEW q \in Posts
      PROVE  Out(q)' + One(w \in Bound(q)') - Asked(q)' <= Out(q) + One(w \in Bound(q)) - Asked(q)
  <2>1. public[q] \in Nat /\ Asked(q) \in Nat /\ Asked(q)' = Asked(q)
    BY <1>1, <1>3 DEF Asked, TypeInv, CountInv
  <2>2. w \notin Bound(q)
    BY <1>2 DEF Bound, IsIdle, Idle
  <2>3. w \in Bound(q)' <=> q = p
    BY <1>1, <1>6 DEF Bound
  <2>4. CASE q = p
    BY <1>2, <1>3, <1>5, <2>1, <2>2, <2>3, <2>4 DEF Out, One
  <2>5. CASE q # p
    BY <1>3, <1>5, <2>1, <2>2, <2>3, <2>5 DEF Out, One
  <2> QED BY <2>4, <2>5
<1>10. \A q \in Posts : /\ New(q)' <=> New(q)
                        /\ post'[q].when # "ahead" \/ post'[q].status = "skipped" => passed
  BY <1>1, <1>2, <1>5 DEF DayInv, New
<1>11. ~Plans(w)'
  BY <1>6 DEF Plans
<1> QED BY <1>1, <1>3, <1>6, <1>7, <1>8, <1>9, <1>10, <1>11, ThreadStep

LEMMA MadeInv ==
    ASSUME IInv, NEW t \in Threads, NEW p \in Posts, Made(t, p)
    PROVE  IInv'
<1>1. TypeInv /\ DayInv
  BY DEF IInv
<1>2. /\ doing[t].what = "post" /\ p \in doing[t].of
      /\ public' = [public EXCEPT ![p] = @ + 1] /\ doing' = [doing EXCEPT ![t].what = "made"]
      /\ UNCHANGED <<post, passed, approvals, nows, broken, replans, unlocks, requests, faults>>
  BY DEF Made, Does, counters
<1>3. /\ doing'[t] = [doing[t] EXCEPT !.what = "made"] /\ doing'[t] \in Doings
      /\ \A u \in Threads : u # t => doing'[u] = doing[u]
  BY <1>1, <1>2 DEF TypeInv, DoingInv, Doings, Jobs
<1>4. doing'[t].what = "made" /\ doing'[t].of = doing[t].of /\ doing'[t].holds = doing[t].holds
  BY <1>1, <1>3 DEF TypeInv, DoingInv, Doings
<1>5. DoingInv'
  BY <1>1, <1>2, <1>3, <1>4 DEF TypeInv, DoingInv
<1>6. TypeInv'
  BY <1>1, <1>2, <1>5 DEF TypeInv, CountInv
<1>7. ASSUME NEW q \in Posts
      PROVE  Out(q)' + One(t \in Bound(q)') - Asked(q)' <= Out(q) + One(t \in Bound(q)) - Asked(q)
  <2>1. public[q] \in Nat /\ Asked(q) \in Nat /\ Asked(q)' = Asked(q)
    BY <1>1, <1>2 DEF Asked, TypeInv, CountInv
  <2>2. t \notin Bound(q)' /\ (q = p => t \in Bound(q))
    BY <1>2, <1>4 DEF Bound
  <2>3. public'[q] = public[q] + One(q = p)
    BY <1>1, <1>2 DEF TypeInv, CountInv, One
  <2> QED BY <1>2, <2>1, <2>2, <2>3 DEF Out, One
<1>8. \A q \in Posts : /\ New(q)' <=> New(q)
                       /\ post'[q].when # "ahead" \/ post'[q].status = "skipped" => passed
  BY <1>1, <1>2 DEF DayInv, New
<1>9. ~Plans(t)' /\ doing'[t].of \subseteq Rowed
  BY <1>1, <1>4 DEF Plans, DayInv
<1> QED BY <1>2, <1>3, <1>4, <1>6, <1>7, <1>8, <1>9, ThreadStep

LEMMA NowWritesInv ==
    ASSUME IInv, NEW o \in Operators, NEW p \in Posts, NowWrites(o, p)
    PROVE  IInv'
<1> DEFINE read == doing[o].read[p]
           r == [post[p] EXCEPT !.status = IF read.status = "scheduled" THEN @ ELSE "scheduled",
                                !.attempts = IF read.tried THEN 0 ELSE @]
<1>1. TypeInv /\ DayInv /\ o \in Threads
  BY DEF IInv, Threads
<1>2. /\ doing[o].what = "now" /\ p \in doing[o].of /\ doing[o].of = {p} /\ doing[o] \in Doings
      /\ doing[o].holds \subseteq doing[o].of /\ DOMAIN doing[o].read = doing[o].of
  BY <1>1 DEF NowWrites, Does, TypeInv, DoingInv
<1>3. p \in Rowed /\ post[p] \in Rows
  BY <1>1, <1>2 DEF DayInv, TypeInv
<1>4. Store(o, p, r)
  BY DEF NowWrites
<1>5. r \in Rows /\ r.status \in {post[p].status, "scheduled"} /\ r.when = post[p].when
  BY <1>3 DEF Rows, Statuses, ACTIVE
<1>6. /\ nows' = [nows EXCEPT ![p] = @ + 1]
      /\ UNCHANGED <<passed, public, approvals, broken, replans, unlocks, requests, faults>>
      /\ doing' = [doing EXCEPT ![o].what = "marks"] \/ Done(o)
  BY DEF NowWrites
<1> HIDE DEF r
<1>7. /\ post' \in [Posts -> Rows]
      /\ \A q \in Posts : q # p => post'[q] = post[q]
      /\ post'[p] = post[p] \/ post'[p] = [r EXCEPT !.old = FALSE]
  BY <1>1, <1>4, <1>5, StoreRow
<1>8. post'[p].status \in {post[p].status, "scheduled"} /\ post'[p].when = post[p].when
  BY <1>5, <1>7 DEF Rows
<1>9. /\ DoingInv' /\ doing'[o].what \in {"marks", "idle"} /\ doing'[o].of \subseteq {p}
      /\ \A u \in Threads : u # o => doing'[u] = doing[u]
  <2>1. CASE Done(o)
    BY <1>1, <2>1, DoneInv
  <2>2. CASE doing' = [doing EXCEPT ![o].what = "marks"]
    <3>1. doing'[o] = [doing[o] EXCEPT !.what = "marks"] /\ \A u \in Threads : u # o => doing'[u] = doing[u]
      BY <1>1, <2>2 DEF TypeInv, DoingInv
    <3>2. /\ doing'[o] \in Doings /\ doing'[o].what = "marks" /\ doing'[o].of = {p}
          /\ doing'[o].holds = doing[o].holds /\ doing'[o].read = doing[o].read
      BY <1>2, <3>1 DEF Doings, Jobs
    <3>3. DoingInv'
      BY <1>1, <1>2, <2>2, <3>1, <3>2 DEF TypeInv, DoingInv
    <3> QED BY <3>1, <3>2, <3>3
  <2> QED BY <1>6, <2>1, <2>2
<1>14. nows' \in [Posts -> Nat] /\ \A q \in Posts : nows'[q] = IF q = p THEN nows[q] + 1 ELSE nows[q]
  <2>1. nows \in [Posts -> Nat] /\ nows[p] + 1 \in Nat
    BY <1>1 DEF TypeInv, CountInv
  <2> QED BY <1>6, <2>1
<1>10. TypeInv'
  <2>1. CountInv'
    BY <1>1, <1>6, <1>14 DEF TypeInv, CountInv
  <2> QED BY <1>1, <1>6, <1>7, <1>9, <2>1 DEF TypeInv
<1>11. ASSUME NEW q \in Posts
       PROVE  Out(q)' + One(o \in Bound(q)') - Asked(q)' <= Out(q) + One(o \in Bound(q)) - Asked(q)
  <2>1. /\ public[q] \in Nat /\ Asked(q) \in Nat
        /\ Asked(q)' = IF q = p THEN Asked(q) + 2 ELSE Asked(q)
    <3>1. approvals[q] \in Nat /\ nows[q] \in Nat /\ broken[q] \in Nat /\ public[q] \in Nat
      BY <1>1 DEF TypeInv, CountInv
    <3>2. Asked(q)' = approvals[q] + 2 * nows'[q] + broken[q]
      BY <1>6 DEF Asked
    <3> QED BY <1>14, <3>1, <3>2 DEF Asked
  <2>2. o \notin Bound(q) /\ (o \in Bound(q)' => q = p)
    BY <1>2, <1>9 DEF Bound
  <2>3. CASE q = p
    BY <1>6, <2>1, <2>2, <2>3 DEF Out, One
  <2>4. CASE q # p
    BY <1>6, <1>7, <2>1, <2>2, <2>4 DEF Out, One
  <2> QED BY <2>3, <2>4
<1>12. \A q \in Posts : /\ New(q)' <=> New(q)
                        /\ post'[q].when # "ahead" \/ post'[q].status = "skipped" => passed
  BY <1>1, <1>3, <1>7, <1>8 DEF DayInv, New, Rowed
<1>13. ~Plans(o)' /\ doing'[o].of \subseteq Rowed /\ doing'[o].what # "expire"
  BY <1>3, <1>9 DEF Plans
<1> QED BY <1>1, <1>6, <1>9, <1>10, <1>11, <1>12, <1>13, ThreadStep

LEMMA NowMarksInv ==
    ASSUME IInv, NEW o \in Operators, NEW p \in Posts, NowMarks(o, p)
    PROVE  IInv'
<1> DEFINE r == [Publishing(post[p]) EXCEPT !.attempts = 1, !.waiting = post[p].waiting /\ ~doing[o].read[p].waiting]
<1>1. TypeInv /\ DayInv /\ o \in Threads
  BY DEF IInv, Threads
<1>2. doing[o].what = "marks" /\ p \in doing[o].of
  BY DEF NowMarks, Does
<1>3. p \in Rowed /\ post[p] \in Rows /\ post[p].waiting \in BOOLEAN
  BY <1>1, <1>2 DEF DayInv, TypeInv, Rows
<1>4. Store(o, p, r) /\ (Become(o, "post", {p}) \/ Done(o))
  BY DEF NowMarks
<1>5. r \in Rows /\ r.status = "publishing" /\ r.when = post[p].when
  BY <1>3 DEF Publishing, Rows, Statuses, ACTIVE
<1>6. UNCHANGED <<passed, public, approvals, nows, broken, replans, unlocks, requests, faults>>
  BY DEF NowMarks, counters
<1> HIDE DEF r
<1>7. /\ post' \in [Posts -> Rows]
      /\ \A q \in Posts : q # p => post'[q] = post[q]
      /\ post'[p] = post[p] \/ post'[p] = [r EXCEPT !.old = FALSE]
  BY <1>1, <1>4, <1>5, StoreRow
<1>8. post'[p].status \in {post[p].status, "publishing"} /\ post'[p].when = post[p].when
  BY <1>5, <1>7 DEF Rows
<1>9. /\ DoingInv' /\ doing'[o].what \in {"post", "idle"} /\ doing'[o].of \subseteq {p}
      /\ \A u \in Threads : u # o => doing'[u] = doing[u]
  BY <1>1, <1>4, BecomeInv, DoneInv DEF Jobs
<1>10. TypeInv'
  BY <1>1, <1>6, <1>7, <1>9 DEF TypeInv, CountInv
<1>11. ASSUME NEW q \in Posts
       PROVE  Out(q)' + One(o \in Bound(q)') - Asked(q)' <= Out(q) + One(o \in Bound(q)) - Asked(q)
  <2>1. public[q] \in Nat /\ Asked(q) \in Nat /\ Asked(q)' = Asked(q)
    BY <1>1, <1>6 DEF Asked, TypeInv, CountInv
  <2>2. o \in Bound(q)' => o \in Bound(q)
    BY <1>2, <1>9 DEF Bound
  <2>3. post'[q].status = "scheduled" => post[q].status = "scheduled"
    BY <1>7, <1>8
  <2> QED BY <1>6, <2>1, <2>2, <2>3 DEF Out, One
<1>12. \A q \in Posts : /\ New(q)' <=> New(q)
                        /\ post'[q].when # "ahead" \/ post'[q].status = "skipped" => passed
  BY <1>1, <1>3, <1>7, <1>8 DEF DayInv, New, Rowed
<1>13. ~Plans(o)' /\ doing'[o].of \subseteq Rowed /\ doing'[o].what # "expire"
  BY <1>3, <1>9 DEF Plans
<1> QED BY <1>1, <1>6, <1>9, <1>10, <1>11, <1>12, <1>13, ThreadStep

-----------------------------------------------------------------------------
(* The ends of a thread that has written what came of it.                    *)

\* What every end but a broken connection and an approval leaves alone.
LEMMA CountersStay ==
    ASSUME TypeInv, UNCHANGED counters, UNCHANGED public
    PROVE  CountInv' /\ UNCHANGED <<replans, unlocks>> /\ \A q \in Posts : Asked(q) \in Nat /\ Asked(q)' = Asked(q)
BY DEF TypeInv, CountInv, counters, Asked

LEMMA AgainRow ==
    ASSUME TypeInv, NEW p \in Posts
    PROVE  /\ Again(p) \in Rows /\ Again(p).when = post[p].when
           /\ Again(p).status \in {"scheduled", "failed"}
           /\ Uncertain(post[p]) \in Rows /\ Uncertain(post[p]).when = post[p].when
           /\ Uncertain(post[p]).status = "failed"
<1>1. post[p] \in Rows
  BY DEF TypeInv
<1>2. /\ Uncertain(post[p]) \in Rows /\ Uncertain(post[p]).when = post[p].when
      /\ Uncertain(post[p]).status = "failed"
  BY <1>1 DEF Uncertain, Rows, Statuses, ACTIVE
<1>3. CASE post[p].attempts < MAX_ATTEMPTS
  BY <1>1, <1>2, <1>3 DEF Again, Rows, Statuses, ACTIVE
<1>4. CASE ~(post[p].attempts < MAX_ATTEMPTS)
  BY <1>2, <1>4 DEF Again
<1> QED BY <1>2, <1>3, <1>4

LEMMA EndsWithoutAsking ==
    ASSUME IInv, NEW t \in Threads, NEW p \in Posts, NEW what, NEW r \in Rows, Ends(t, p, what, r),
           UNCHANGED counters, r.when = post[p].when, r.status \notin {"absent", "skipped"},
           r.status = "scheduled" => what = "post"
    PROVE  IInv'
<1>1. TypeInv /\ UNCHANGED public
  BY DEF IInv, Ends
<1>2. CountInv' /\ UNCHANGED <<replans, unlocks>> /\ \A q \in Posts : Asked(q) \in Nat /\ Asked(q)' = Asked(q)
  BY <1>1, CountersStay
<1>3. r.status = "scheduled" => t \in Bound(p)
  BY DEF Ends, Does, Bound
<1>4. One(r.status = "scheduled") - Asked(p)' <= One(t \in Bound(p)) - Asked(p)
  BY <1>2, <1>3 DEF One
<1>5. Asked(p) <= Asked(p)' /\ \A q \in Posts : q # p => Asked(q)' >= Asked(q)
  BY <1>2
<1> QED BY <1>2, <1>4, <1>5, EndsStep

LEMMA PostedInvStep ==
    ASSUME IInv, NEW t \in Threads, NEW p \in Posts, Posted(t, p)
    PROVE  IInv'
<1> DEFINE r == [post[p] EXCEPT !.status = "published"]
<1>1. post[p] \in Rows
  BY DEF IInv, TypeInv
<1>2. r \in Rows /\ r.status = "published" /\ r.when = post[p].when
  BY <1>1 DEF Rows, Statuses, ACTIVE
<1>3. Ends(t, p, "made", r) /\ UNCHANGED counters
  BY DEF Posted
<1> HIDE DEF r
<1> QED BY <1>2, <1>3, EndsWithoutAsking

LEMMA AnswersInv ==
    ASSUME IInv, NEW t \in Threads, NEW p \in Posts, Refused(t, p) \/ NoAnswer(t, p)
    PROVE  IInv'
<1>1. TypeInv
  BY DEF IInv
<1>2. UNCHANGED counters
  BY DEF Refused, NoAnswer
<1>3. CASE Refused(t, p)
  <2>1. PICK r \in {Again(p), Uncertain(post[p])} : Ends(t, p, "post", r)
    BY <1>3 DEF Refused
  <2>2. r \in Rows /\ r.when = post[p].when /\ r.status \notin {"absent", "skipped"}
    BY <1>1, <2>1, AgainRow
  <2> QED BY <1>2, <2>1, <2>2, EndsWithoutAsking
<1>4. CASE NoAnswer(t, p)
  <2>1. PICK what \in {"post", "made"} : Ends(t, p, what, Uncertain(post[p]))
    BY <1>4 DEF NoAnswer
  <2>2. /\ Uncertain(post[p]) \in Rows /\ Uncertain(post[p]).when = post[p].when
        /\ Uncertain(post[p]).status = "failed"
    BY <1>1, AgainRow
  <2> DEFINE r == Uncertain(post[p])
  <2>3. r \in Rows /\ r.when = post[p].when /\ r.status = "failed" /\ Ends(t, p, what, r)
    BY <2>1, <2>2
  <2> HIDE DEF r
  <2> QED BY <1>2, <2>3, EndsWithoutAsking
<1> QED BY <1>3, <1>4

\* A post is scheduled again although it is out: broken counts it.
LEMMA BreaksInv ==
    ASSUME IInv, NEW t \in Threads, NEW p \in Posts, Breaks(t, p)
    PROVE  IInv'
<1> DEFINE r == Again(p)
<1>1. TypeInv /\ public' = public
  BY DEF IInv, Breaks, Ends
<1>2. r \in Rows /\ r.when = post[p].when /\ r.status \in {"scheduled", "failed"}
  BY <1>1, AgainRow
<1>3. Ends(t, p, "made", r)
  BY DEF Breaks
<1>4. /\ broken' = [broken EXCEPT ![p] = @ + 1] /\ faults < MaxFaults /\ faults' = faults + 1
      /\ UNCHANGED <<approvals, nows, replans, unlocks, requests>>
  BY DEF Breaks, Fault
<1>5. broken' \in [Posts -> Nat] /\ \A q \in Posts : broken'[q] = IF q = p THEN broken[q] + 1 ELSE broken[q]
  <2>1. broken \in [Posts -> Nat] /\ broken[p] + 1 \in Nat
    BY <1>1 DEF TypeInv, CountInv
  <2> QED BY <1>4, <2>1
<1>6. CountInv'
  BY <1>1, <1>4, <1>5, ConstantsAssumption DEF TypeInv, CountInv
<1>7. ASSUME NEW q \in Posts
      PROVE  Asked(q) \in Nat /\ Asked(q)' = IF q = p THEN Asked(q) + 1 ELSE Asked(q)
  <2>1. approvals[q] \in Nat /\ nows[q] \in Nat /\ broken[q] \in Nat
    BY <1>1 DEF TypeInv, CountInv
  <2>2. Asked(q)' = approvals[q] + 2 * nows[q] + broken'[q]
    BY <1>4 DEF Asked
  <2> QED BY <1>5, <2>1, <2>2 DEF Asked
<1>8. One(r.status = "scheduled") - Asked(p)' <= One(t \in Bound(p)) - Asked(p)
  BY <1>7 DEF One
<1>9. Asked(p) <= Asked(p)' /\ \A q \in Posts : q # p => Asked(q)' >= Asked(q)
  BY <1>7
<1> HIDE DEF r
<1> QED BY <1>2, <1>3, <1>4, <1>6, <1>8, <1>9, EndsStep

LEMMA ApproveWritesInv ==
    ASSUME IInv, NEW o \in Operators, NEW p \in Posts, ApproveWrites(o, p)
    PROVE  IInv'
<1> DEFINE r == [post[p] EXCEPT !.status = "scheduled"]
<1>1. TypeInv /\ public' = public /\ o \in Threads /\ post[p] \in Rows
  BY DEF IInv, ApproveWrites, Ends, Threads, TypeInv
<1>2. r \in Rows /\ r.when = post[p].when /\ r.status = "scheduled"
  BY <1>1 DEF Rows, Statuses, ACTIVE
<1>3. Ends(o, p, "approve", r)
  BY DEF ApproveWrites
<1>4. approvals' = [approvals EXCEPT ![p] = @ + 1] /\ UNCHANGED <<nows, broken, replans, unlocks, requests, faults>>
  BY DEF ApproveWrites
<1>5. approvals' \in [Posts -> Nat] /\ \A q \in Posts : approvals'[q] = IF q = p THEN approvals[q] + 1 ELSE approvals[q]
  <2>1. approvals \in [Posts -> Nat] /\ approvals[p] + 1 \in Nat
    BY <1>1 DEF TypeInv, CountInv
  <2> QED BY <1>4, <2>1
<1>6. CountInv'
  BY <1>1, <1>4, <1>5 DEF TypeInv, CountInv
<1>7. ASSUME NEW q \in Posts
      PROVE  Asked(q) \in Nat /\ Asked(q)' = IF q = p THEN Asked(q) + 1 ELSE Asked(q)
  <2>1. approvals[q] \in Nat /\ nows[q] \in Nat /\ broken[q] \in Nat
    BY <1>1 DEF TypeInv, CountInv
  <2>2. Asked(q)' = approvals'[q] + 2 * nows[q] + broken[q]
    BY <1>4 DEF Asked
  <2> QED BY <1>5, <2>1, <2>2 DEF Asked
<1>8. One(r.status = "scheduled") - Asked(p)' <= One(o \in Bound(p)) - Asked(p)
  BY <1>7 DEF One
<1>9. Asked(p) <= Asked(p)' /\ \A q \in Posts : q # p => Asked(q)' >= Asked(q)
  BY <1>7
<1> HIDE DEF r
<1> QED BY <1>1, <1>2, <1>3, <1>4, <1>6, <1>8, <1>9, EndsStep

LEMMA CancelWritesInv ==
    ASSUME IInv, NEW o \in Operators, NEW p \in Posts, CancelWrites(o, p)
    PROVE  IInv'
<1> DEFINE r == [post[p] EXCEPT !.status = "cancelled"]
<1>1. post[p] \in Rows /\ o \in Threads
  BY DEF IInv, TypeInv, Threads
<1>2. r \in Rows /\ r.status = "cancelled" /\ r.when = post[p].when
  BY <1>1 DEF Rows, Statuses
<1>3. Ends(o, p, "cancel", r) /\ UNCHANGED counters
  BY DEF CancelWrites
<1> HIDE DEF r
<1> QED BY <1>1, <1>2, <1>3, EndsWithoutAsking

-----------------------------------------------------------------------------
(* Time.                                                                    *)

LEMMA TimeInv ==
    ASSUME IInv, NEW p \in Posts, TimeStep(p)
    PROVE  IInv'
<1>1. TypeInv /\ DayInv /\ PostedInv /\ post[p] \in Rows
  BY DEF IInv, TypeInv
<1>2. UNCHANGED <<passed, doing, public, approvals, nows, broken, replans, unlocks, requests, faults>>
  BY DEF TimeStep, ComesDue, RetryDue, GetsOld, counters
<1>3. /\ post' \in [Posts -> Rows] /\ \A q \in Posts : q # p => post'[q] = post[q]
      /\ post'[p].status = post[p].status
      /\ post'[p].when # post[p].when => passed
  <2>1. CASE ComesDue(p)
    <3> DEFINE w == IF post[p].when = "ahead" THEN "due" ELSE "late"
    <3>1. post' = [post EXCEPT ![p] = [post[p] EXCEPT !.when = w]] /\ passed
      BY <1>1, <2>1 DEF ComesDue, TypeInv
    <3>2. [post[p] EXCEPT !.when = w] \in Rows /\ [post[p] EXCEPT !.when = w].status = post[p].status
      BY <1>1 DEF Rows, Times
    <3> HIDE DEF w
    <3> QED BY <1>1, <3>1, <3>2 DEF TypeInv
  <2>2. CASE RetryDue(p)
    BY <1>1, <2>2 DEF RetryDue, TypeInv, Rows
  <2>3. CASE GetsOld(p)
    BY <1>1, <2>3 DEF GetsOld, TypeInv, Rows
  <2> QED BY <2>1, <2>2, <2>3 DEF TimeStep
<1>4. TypeInv'
  BY <1>1, <1>2, <1>3 DEF TypeInv, DoingInv, CountInv
<1>5. ASSUME NEW q \in Posts
      PROVE  (Out(q) + Cardinality(Bound(q)))' <= Asked(q)'
  <2>1. Out(q)' = Out(q) /\ Bound(q)' = Bound(q) /\ Asked(q)' = Asked(q)
    BY <1>2, <1>3 DEF Out, Bound, Asked
  <2> QED BY <1>1, <2>1 DEF PostedInv
<1>6. PostedInv'
  BY <1>5 DEF PostedInv
<1>7. \A q \in Posts : /\ New(q)' <=> New(q)
                       /\ post'[q].when # "ahead" \/ post'[q].status = "skipped" => passed'
  BY <1>1, <1>2, <1>3 DEF DayInv, New
<1>8. DayInv'
  BY <1>1, <1>2, <1>7, DayStep DEF DayInv, Plans, TypeInv, CountInv
<1> QED BY <1>4, <1>6, <1>8 DEF IInv

LEMMA DayPassesInv ==
    ASSUME IInv, DayPasses
    PROVE  IInv'
<1>1. TypeInv /\ DayInv /\ PostedInv
  BY DEF IInv
<1>2. passed' = TRUE /\ UNCHANGED <<post, doing, public, approvals, nows, broken, replans, unlocks, requests, faults>>
  BY DEF DayPasses, counters
<1>3. TypeInv'
  BY <1>1, <1>2 DEF TypeInv, DoingInv, CountInv
<1>4. PostedInv'
  BY <1>1, <1>2 DEF PostedInv, Out, Bound, Asked
<1>5. DayInv'
  BY <1>1, <1>2 DEF DayInv, Rowed, New, Locked, Loose, Planning
<1> QED BY <1>3, <1>4, <1>5 DEF IInv

LEMMA InitInv == Init => IInv
<1> SUFFICES ASSUME Init PROVE IInv
  OBVIOUS
<1>1. PICK first \in Posts, d \in {"old", "new"}, s \in {"absent", "draft", "scheduled"} :
        /\ post = [p \in Posts |-> IF p = first THEN [NoRow EXCEPT !.status = s, !.design = d] ELSE NoRow]
        /\ approvals = [p \in Posts |-> IF p = first /\ s = "scheduled" THEN 1 ELSE 0]
  BY DEF Init
<1> DEFINE row == [NoRow EXCEPT !.status = s, !.design = d]
<1>2. /\ row \in Rows /\ NoRow \in Rows /\ row.status = s /\ NoRow.status = "absent"
      /\ row.when = "ahead" /\ NoRow.when = "ahead"
  BY DEF NoRow, Rows, Statuses, ACTIVE, Times
<1> HIDE DEF row
<1>3. post \in [Posts -> Rows] /\ post[first] = row /\ \A p \in Posts : p # first => post[p] = NoRow
  BY <1>1, <1>2 DEF row
<1>4. Idle \in Doings
  <2>1. Idle.read \in [{} -> Notes]
    BY DEF Idle
  <2> QED BY <2>1 DEF Idle, Doings, Jobs, Copies
<1>5. DoingInv
  BY <1>4 DEF Init, DoingInv, Idle
<1>6. TypeInv
  <2>1. approvals \in [Posts -> Nat]
    BY <1>1
  <2>2. CountInv
    BY <2>1, ConstantsAssumption DEF Init, CountInv
  <2> QED BY <1>3, <1>5, <2>2 DEF Init, TypeInv
<1>7. \A p \in Posts : Bound(p) = {}
  BY DEF Init, Bound, Idle
<1>8. IsFiniteSet({}) /\ Cardinality({}) = 0
  BY FS_EmptySet
<1>9. ASSUME NEW p \in Posts
      PROVE  Out(p) + Cardinality(Bound(p)) <= Asked(p)
  <2>1. Cardinality(Bound(p)) = 0
    BY <1>7, <1>8
  <2>2. public[p] = 0 /\ nows[p] = 0 /\ broken[p] = 0
    BY DEF Init
  <2>3. One(post[p].status = "scheduled") = approvals[p] /\ approvals[p] \in Nat
    BY <1>1, <1>2, <1>3 DEF One
  <2> QED BY <2>1, <2>2, <2>3 DEF Out, Asked
<1>10. PostedInv
  BY <1>9 DEF PostedInv
<1>11. Rowed \in {{}, {first}}
  <2>1. Rowed \subseteq {first}
    BY <1>2, <1>3 DEF Rowed, New
  <2> QED BY <2>1
<1>12. IsFiniteSet({first}) /\ Cardinality({first}) = 1
  BY FS_Singleton
<1>13. IsFiniteSet(Rowed) /\ Cardinality(Rowed) \in {0, 1}
  <2>1. CASE Rowed = {}
    BY <1>8, <2>1
  <2>2. CASE Rowed = {first}
    BY <1>12, <2>2
  <2> QED BY <1>11, <2>1, <2>2
<1>14. ~Planning /\ Loose = {} /\ replans = 0 /\ unlocks = 0
  BY DEF Init, Planning, Loose, Idle
<1>15. /\ Cardinality(Loose) <= unlocks
       /\ Cardinality(Rowed) + One(Planning) + Cardinality(Loose) <= 1 + replans + unlocks
  BY <1>8, <1>13, <1>14 DEF One
<1>16. \A p \in Posts : post[p].when = "ahead" /\ post[p].status # "skipped"
  BY <1>2, <1>3
<1>17. \A t \in Threads : doing[t].of = {} /\ doing[t].what = "idle"
  BY DEF Init, Idle
<1>18. DayInv
  BY <1>13, <1>15, <1>16, <1>17 DEF DayInv, Locked
<1> QED BY <1>6, <1>10, <1>18 DEF IInv

LEMMA NextInv == IInv /\ [Next]_vars => IInv'
<1> SUFFICES ASSUME IInv, [Next]_vars PROVE IInv'
  OBVIOUS
<1>1. ASSUME NEW w \in Workers, WorkerStep(w) \/ RefreshLetsGo(w) \/ RefreshFails(w)
      PROVE  IInv'
  <2>1. w \in Threads
    BY DEF Threads
  <2> QED BY <1>1, <2>1, RefreshBeginInv, PlanBeginInv, SweepReadsInv, SweepWritesInv, RefreshOneInv,
             ClaimLateInv, ClaimInv, LeavesInv, RefreshLetsGoInv DEF WorkerStep
<1>2. ASSUME NEW t \in Threads, PlatformStep(t) \/ PlanUnlocks(t) \/ PlanEnds(t) \/ Dies(t)
      PROVE  IInv'
  BY <1>2, MadeInv, PostedInvStep, AnswersInv, BreaksInv, PlanUnlocksInv, PlanEndsInv, LeavesInv DEF PlatformStep
<1>3. ASSUME NEW o \in Operators, OperatorReads(o) \/ OperatorStep(o)
      PROVE  IInv'
  <2>1. o \in Threads
    BY DEF Threads
  <2> QED BY <1>3, <2>1, ReadsInv, ReplanInv, ApproveWritesInv, CancelWritesInv, NowWritesInv,
             NowMarksInv, LeavesInv DEF OperatorReads, OperatorStep
<1>4. ASSUME UNCHANGED vars
      PROVE  IInv'
  BY <1>4 DEF vars, counters, IInv, TypeInv, DoingInv, CountInv, PostedInv, Out, Asked, Bound, DayInv,
              Rowed, New, Locked, Loose, Planning
<1> QED BY <1>1, <1>2, <1>3, <1>4, TimeInv, DayPassesInv DEF Next

THEOREM SocialPostsInvariant == Spec => []IInv
BY InitInv, NextInv, PTL DEF Spec

-----------------------------------------------------------------------------
(* What the runs check, for any number of posts and threads.                 *)

\* Every variable stays in its type: rows in the statuses of the table, what a thread has read
\* over the rows it is about, and requests and faults within their bounds.
THEOREM SocialPostsTypeCorrect == Spec => []TypeOK
<1>1. IInv => TypeOK
  <2> SUFFICES ASSUME IInv PROVE TypeOK
    OBVIOUS
  <2>1. TypeInv
    BY DEF IInv
  <2>2. ASSUME NEW t \in Threads
        PROVE  /\ doing[t].what \in Jobs
               /\ doing[t].holds \subseteq doing[t].of /\ doing[t].of \subseteq Posts
               /\ doing[t].what \in {"refresh", "now", "marks"} =>
                    doing[t].read \in [doing[t].of -> Notes]
    <3>1. doing[t] \in Doings
      BY <2>1 DEF TypeInv, DoingInv
    <3>2. PICK S \in SUBSET Posts : doing[t].read \in [S -> Notes]
      BY <3>1 DEF Doings, Copies
    <3>3. doing[t].what \in {"refresh", "now", "marks"} => S = doing[t].of
      BY <2>1, <3>2 DEF TypeInv, DoingInv
    <3> QED BY <2>1, <3>1, <3>2, <3>3 DEF TypeInv, DoingInv, Doings
  <2>3. \A h \in {public, approvals, nows, broken} : h \in [Posts -> Nat]
    BY <2>1 DEF TypeInv, CountInv
  <2> QED BY <2>1, <2>2, <2>3 DEF TypeOK, TypeInv, CountInv, Notes
<1> QED BY <1>1, SocialPostsInvariant, PTL

\* publish_one, publish_now and the retries: a post is made at most once per approval, twice per
\* request to publish it at once, and once more for each break that hid it, whichever threads die.
THEOREM SocialPostsPostedAsAsked == Spec => []PostedAsAsked
<1>1. IInv => PostedAsAsked
  <2> SUFFICES ASSUME IInv, NEW p \in Posts
               PROVE  public[p] <= approvals[p] + 2 * nows[p] + broken[p]
    BY DEF PostedAsAsked
  <2>1. TypeInv /\ PostedInv
    BY DEF IInv
  <2>2. IsFiniteSet(Bound(p))
    BY ConstantsAssumption, FS_Subset DEF Bound
  <2>3. Cardinality(Bound(p)) \in Nat
    BY <2>2, FS_CardinalityType
  <2>4. public[p] \in Nat /\ Asked(p) \in Nat
    BY <2>1 DEF TypeInv, CountInv, Asked
  <2>5. Out(p) + Cardinality(Bound(p)) <= Asked(p)
    BY <2>1 DEF PostedInv
  <2>6. public[p] <= Asked(p)
    BY <2>3, <2>4, <2>5 DEF Out, One
  <2> QED BY <2>6 DEF Asked
<1> QED BY <1>1, SocialPostsInvariant, PTL

\* plan_day and the stale writes around it: a second row for the day is there only when an
\* operator has asked for another plan, or when a plan has lost the planner's lock.
THEOREM SocialPostsOnePerDay == Spec => []OnePerDay
<1>1. IInv => OnePerDay
  <2> SUFFICES ASSUME IInv PROVE OnePerDay
    OBVIOUS
  <2>1. /\ IsFiniteSet(Rowed) /\ replans \in Nat /\ unlocks \in Nat
        /\ Cardinality(Rowed) + One(Planning) + Cardinality(Loose) <= 1 + replans + unlocks
    BY DEF IInv, DayInv, TypeInv, CountInv
  <2>2. Cardinality(Rowed) \in Nat /\ Cardinality(Loose) \in Nat
    BY <2>1, LooseIsFinite, FS_CardinalityType
  <2> QED BY <2>1, <2>2 DEF OnePerDay, Rowed, One
<1> QED BY <1>1, SocialPostsInvariant, PTL
=============================================================================
