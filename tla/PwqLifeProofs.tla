--------------------------- MODULE PwqLifeProofs ---------------------------
(***************************************************************************)
(* Proofs about PwqLife: for every set of workqueues, pwqs, pools, works   *)
(* and attributes the references are exact, a pool is torn down last, and  *)
(* a set of attributes has one pool.                                       *)
(*                                                                         *)
(* The inductive invariant says who may hold each structure: a workqueue   *)
(* holds the base reference of its own linked pwqs (Owners), everything    *)
(* that points to a pwq points to one that is still allocated (Places),    *)
(* the release thread and its queue have the pwqs nobody counts            *)
(* (ReleaseThread), and the pool nobody counts is the one that thread      *)
(* takes down (PoolLife).                                                  *)
(***************************************************************************)
EXTENDS PwqLife, FiniteSetTheorems, TLAPS

Teardown == {"manager", "attach", "wait", "timer"}

(* Who holds the base reference of a pwq is its workqueue.                 *)
Owners == \A w \in Wq :
  /\ dfl[w] # None <=> state[w] \in {"live", "apply"}
  /\ old[w] # None => state[w] = "apply" /\ old[w] # dfl[w]
  /\ dpc[w] = "put" => state[w] = "dead" /\ putting[w] # None
  /\ state[w] = "apply" => wrlock = w
  /\ \A q \in Pwq : w \in Holders(q) => pwq[q].phase = "linked" /\ pwq[q].wq = w

(* Where a pwq is, and what it points to while it is there.                *)
Places == \A q \in Pwq :
  /\ pwq[q].phase = "none" => pwq[q] = NoPwq
  /\ pwq[q].phase # "none" => /\ pwq[q].pool \in Pool /\ pwq[q].wq \in Wq
                              /\ state[pwq[q].wq] # "none"
  /\ pwq[q].phase = "linked" => pool[pwq[q].pool].phase = "live"
  /\ pwq[q].phase = "unlinked" <=> rel.pwq = q /\ rel.pc # "unlink"
  /\ InFlight(q) # {} => pwq[q].phase = "linked"

(* The release thread has one pwq, apart from those still queued for it,   *)
(* and it knows when a workqueue has no other.                             *)
ReleaseThread ==
  /\ \A i, j \in 1 .. Len(relq) : relq[i] = relq[j] => i = j
  /\ \A i \in 1 .. Len(relq) : relq[i] # rel.pwq /\ pwq[relq[i]].phase = "linked"
  /\ rel.pwq = None <=> rel.pc = "pop"
  /\ rel.pc = "unlink" => pwq[rel.pwq].phase = "linked"
  /\ rel.pc \in {"pop", "unlink"} => ~rel.last
  /\ rel.last => state[pwq[rel.pwq].wq] = "dead" /\ Linked(pwq[rel.pwq].wq) = {}
  /\ rel.pc \in Teardown => /\ wrlock = "release" /\ pool[RelPool].phase = "live"
                            /\ pool[RelPool].refcnt = 0

(* A pool is hashed while it is counted; uncounted it is being torn down.  *)
PoolLife == \A p \in Pool :
  /\ pool[p].phase = "none" => pool[p] = NoPool
  /\ pool[p].hashed <=> pool[p].refcnt > 0
  /\ pool[p].phase = "live" /\ pool[p].refcnt = 0 => rel.pc \in Teardown /\ p = RelPool
  /\ pool[p].manager = "release" <=> rel.pc \in {"attach", "wait", "timer"} /\ p = RelPool
  /\ pool[p].manager = "release" => pool[p].idle = 0
  /\ pool[p].detach # "unset" => rel.pc \in {"wait", "timer"} /\ p = RelPool
  /\ pool[p].detach = "done" => pool[p].dying = 0
  /\ rel.pc = "timer" /\ p = RelPool => pool[p].dying = 0
  /\ Attached(p) <= MaxWorkers + 1

Distinct == \A p1, p2 \in Pool :
  pool[p1].hashed /\ pool[p2].hashed /\ p1 # p2 => pool[p1].cookie # pool[p2].cookie

IInv == TypeOK /\ Owners /\ Places /\ ReferencesExact /\ ReleaseThread /\ PoolLife /\ Distinct
-------------------------------------------------------------------------------
(* What the invariant says of works and counts.                            *)

(* A pwq has nothing in flight when no work is queued to it or runs on it. *)
LEMMA FlightSet ==
  ASSUME NEW q
  PROVE  InFlight(q) = {} <=> \A x \in Work : at[x] # q /\ <<x, q>> \notin running
<1>1. ASSUME NEW x \in Work, at[x] = q PROVE <<x, "queued">> \in InFlight(q)
  BY <1>1 DEF InFlight, Queued
<1>2. ASSUME NEW x \in Work, <<x, q>> \in running PROVE <<x, "running">> \in InFlight(q)
  BY <1>2 DEF InFlight, Queued
<1>3. ASSUME \A x \in Work : at[x] # q /\ <<x, q>> \notin running PROVE InFlight(q) = {}
  <2>1. Queued(q) = {} /\ {x \in Work : <<x, q>> \in running} = {}
    BY <1>3 DEF Queued
  <2> QED BY <2>1 DEF InFlight
<1> QED BY <1>1, <1>2, <1>3

(* What the counters count is finite.                                      *)
LEMMA Finite ==
  ASSUME TypeOK
  PROVE  /\ IsFiniteSet(running) /\ \A p : IsFiniteSet(Busy(p))
         /\ \A q : IsFiniteSet(InFlight(q)) /\ IsFiniteSet(Holders(q))
         /\ \A p : IsFiniteSet(Counted(p))
<1>1. IsFiniteSet(Work \X Pwq) /\ IsFiniteSet(Work \X {"queued", "running"})
  <2>1. IsFiniteSet({"queued", "running"})
    <3>1. {"queued", "running"} = {"queued"} \cup {"running"}
      OBVIOUS
    <3>2. IsFiniteSet({"queued"})
      BY FS_Singleton
    <3>3. IsFiniteSet({"queued"} \cup {"running"})
      BY <3>2, FS_AddElement
    <3> QED BY <3>1, <3>3
  <2> QED BY <2>1, FS_Product, LifeAssumption
<1>2. running \subseteq Work \X Pwq
  BY DEF TypeOK
<1>3. IsFiniteSet(running)
  BY <1>1, <1>2, FS_Subset
<1>4. ASSUME NEW p PROVE IsFiniteSet(Busy(p))
  BY <1>3, FS_Subset DEF Busy
<1>5. ASSUME NEW q PROVE IsFiniteSet(InFlight(q))
  <2>1. InFlight(q) \subseteq Work \X {"queued", "running"}
    BY DEF InFlight, Queued
  <2> QED BY <2>1, <1>1, FS_Subset
<1>6. ASSUME NEW q PROVE IsFiniteSet(Holders(q))
  <2>1. Holders(q) \subseteq Wq
    BY DEF Holders
  <2> QED BY <2>1, LifeAssumption, FS_Subset
<1>7. ASSUME NEW p PROVE IsFiniteSet(Counted(p))
  <2>1. Counted(p) \subseteq Pwq
    BY DEF Counted
  <2> QED BY <2>1, LifeAssumption, FS_Subset
<1> QED BY <1>3, <1>4, <1>5, <1>6, <1>7

(* A work in flight is in a linked pwq, and the pool of a linked pwq is    *)
(* counted.                                                                *)
LEMMA Standing ==
  ASSUME IInv
  PROVE  /\ \A x \in Work : at[x] # None => at[x] \in Pwq /\ pwq[at[x]].phase = "linked"
         /\ \A r \in running : /\ r[1] \in Work /\ r[2] \in Pwq /\ r = <<r[1], r[2]>>
                               /\ pwq[r[2]].phase = "linked"
         /\ \A q \in Pwq : pwq[q].phase = "linked" =>
              /\ pwq[q].pool \in Pool /\ pwq[q].wq \in Wq /\ state[pwq[q].wq] # "none"
              /\ pool[pwq[q].pool].phase = "live" /\ pool[pwq[q].pool].refcnt > 0
         /\ \A p \in Pool : pool[p].refcnt = 0 => Counted(p) = {} /\ Waiting(p) = {} /\ Busy(p) = {}
<1>1. \A x \in Work : at[x] # None => at[x] \in Pwq /\ pwq[at[x]].phase = "linked"
  <2>1. \A x \in Work : at[x] \in Pwq \cup {None}
    BY DEF IInv, TypeOK
  <2>2. \A x \in Work : InFlight(at[x]) # {}
    BY FlightSet
  <2> QED BY <2>1, <2>2 DEF IInv, Places
<1>2. \A r \in running : /\ r[1] \in Work /\ r[2] \in Pwq /\ r = <<r[1], r[2]>>
                         /\ pwq[r[2]].phase = "linked"
  <2> running \subseteq Work \X Pwq
    BY DEF IInv, TypeOK
  <2>1. \A r \in running : r[1] \in Work /\ r[2] \in Pwq /\ r = <<r[1], r[2]>>
    OBVIOUS
  <2>2. \A r \in running : InFlight(r[2]) # {}
    BY <2>1, FlightSet
  <2> QED BY <2>1, <2>2 DEF IInv, Places
<1>3. \A q \in Pwq : pwq[q].phase = "linked" =>
        /\ pwq[q].pool \in Pool /\ pwq[q].wq \in Wq /\ state[pwq[q].wq] # "none"
        /\ pool[pwq[q].pool].phase = "live"
  BY DEF IInv, Places
<1>4. \A p \in Pool : pool[p].refcnt = 0 => Counted(p) = {}
  BY Finite, FS_EmptySet DEF IInv, ReferencesExact
<1>5. \A q \in Pwq : pwq[q].phase = "linked" => q \in Counted(pwq[q].pool)
  BY DEF Counted
<1>6. \A q \in Pwq : pwq[q].phase = "linked" => pool[pwq[q].pool].refcnt > 0
  <2>1. \A p \in Pool : pool[p].refcnt \in Nat
    BY DEF IInv, TypeOK, PoolFields
  <2> QED BY <2>1, <1>3, <1>4, <1>5
<1>7. \A p \in Pool : pool[p].refcnt = 0 => Waiting(p) = {} /\ Busy(p) = {}
  BY <1>1, <1>2, <1>6 DEF Waiting, Busy
<1> QED BY <1>1, <1>2, <1>3, <1>4, <1>6, <1>7
-------------------------------------------------------------------------------
(* The parts that a step leaves alone.                                     *)

(* No workqueue was made, destroyed or changed.                            *)
LEMMA SameOwners ==
  ASSUME Owners, UNCHANGED <<state, dfl, old, dpc, putting, wrlock>>,
         \A q \in Pwq : pwq'[q].phase = pwq[q].phase /\ pwq'[q].wq = pwq[q].wq
  PROVE  Owners'
BY DEF Owners, Holders

(* No pwq, pool or work is in another place.                               *)
LEMMA SamePlaces ==
  ASSUME Places, UNCHANGED <<state, at, running, rel>>,
         \A q \in Pwq : /\ pwq'[q].phase = pwq[q].phase /\ pwq'[q].wq = pwq[q].wq
                        /\ pwq'[q].pool = pwq[q].pool /\ (pwq[q].phase = "none" => pwq'[q] = pwq[q]),
         \A p \in Pool : pool'[p].phase = pool[p].phase
  PROVE  Places'
<1>1. \A q : InFlight(q)' = InFlight(q)
  BY DEF InFlight, Queued
<1> QED BY <1>1 DEF Places

(* No reference was taken or put.                                          *)
LEMMA SameReferences ==
  ASSUME ReferencesExact, UNCHANGED <<dfl, old, putting, dpc, pwq, at, running, relq>>,
         rel'.pwq = rel.pwq, \A p \in Pool : pool'[p].refcnt = pool[p].refcnt
  PROVE  ReferencesExact'
<1>1. \A q : InFlight(q)' = InFlight(q) /\ Holders(q)' = Holders(q) /\ Counted(q)' = Counted(q)
  BY DEF InFlight, Queued, Holders, Counted
<1>2. \A q : InRelq(q)' <=> InRelq(q)
  BY DEF InRelq
<1> QED BY <1>1, <1>2 DEF ReferencesExact

(* The release thread did not move.                                        *)
LEMMA SameRelease ==
  ASSUME ReleaseThread, UNCHANGED <<state, relq, rel, wrlock>>,
         \A q \in Pwq : /\ pwq'[q].phase = pwq[q].phase /\ pwq'[q].wq = pwq[q].wq
                        /\ pwq'[q].pool = pwq[q].pool,
         \A p \in Pool : pool'[p].phase = pool[p].phase /\ pool'[p].refcnt = pool[p].refcnt,
         TypeOK, Places
  PROVE  ReleaseThread'
<1>1. \A w : Linked(w)' = Linked(w)
  BY DEF Linked
<1>2. \A i \in 1 .. Len(relq) : relq[i] \in Pwq
  <2>1. relq \in Seq(Pwq)
    BY DEF TypeOK
  <2> QED BY <2>1
<1>3. rel.pc # "pop" => rel.pwq \in Pwq /\ RelPool \in Pool /\ RelPool' = RelPool
  BY DEF TypeOK, Places, ReleaseThread, RelPool
<1>4. rel.pc \in {"pop", "unlink", "manager", "attach", "wait", "timer", "free"}
  BY DEF TypeOK
<1>5. rel.last => rel.pc # "pop"
  BY DEF ReleaseThread
<1>6. rel.pc \in Teardown => RelPool \in Pool /\ RelPool' = RelPool
  BY <1>3 DEF Teardown
<1>7. rel.last => state'[pwq'[rel'.pwq].wq] = "dead"
  BY <1>3, <1>5 DEF ReleaseThread
<1>8. rel.last => Linked(pwq[rel.pwq].wq)' = {}
  <2>1. pwq'[rel'.pwq].wq = pwq[rel.pwq].wq \/ ~rel.last
    BY <1>3, <1>5
  <2>2. rel.last => Linked(pwq[rel.pwq].wq) = {}
    BY DEF ReleaseThread
  <2> QED BY <2>1, <2>2 DEF Linked
<1> QED BY <1>2, <1>3, <1>5, <1>6, <1>7, <1>8 DEF ReleaseThread

(* The busy workers of a pool are the same while none of its works starts  *)
(* or returns, ...                                                         *)
LEMMA SameBusy ==
  ASSUME TypeOK, UNCHANGED running, \A r \in running : pwq'[r[2]].pool = pwq[r[2]].pool
  PROVE  \A p : Busy(p)' = Busy(p)
BY DEF Busy

(* ... and so are those attached to it.                                    *)
LEMMA SameAttached ==
  ASSUME NEW p, pool'[p] = pool[p], Busy(p)' = Busy(p)
  PROVE  Attached(p)' = Attached(p)
BY DEF Attached, Managing

(* A pool whose fields are assigned values of their types is a pool.       *)
LEMMA Assigned ==
  ASSUME NEW f \in PoolFields, NEW n \in Nat, NEW b \in BOOLEAN,
         NEW d \in {"unset", "set", "done"}
  PROVE  /\ [f EXCEPT !.handler = FALSE, !.timer = TRUE] \in PoolFields
         /\ [f EXCEPT !.idle = n, !.timer = b] \in PoolFields
         /\ [f EXCEPT !.dying = n, !.detach = d] \in PoolFields
         /\ [f EXCEPT !.refcnt = n, !.hashed = b] \in PoolFields
         /\ [f EXCEPT !.manager = "release", !.idle = 0, !.dying = n] \in PoolFields
<1>1. [f EXCEPT !.handler = FALSE, !.timer = TRUE] \in PoolFields
  BY DEF PoolFields
<1>2. [f EXCEPT !.idle = n, !.timer = b] \in PoolFields
  BY DEF PoolFields
<1>3. [f EXCEPT !.dying = n, !.detach = d] \in PoolFields
  BY DEF PoolFields
<1>4. [f EXCEPT !.refcnt = n, !.hashed = b] \in PoolFields
  BY DEF PoolFields
<1>5. [f EXCEPT !.manager = "release", !.idle = 0, !.dying = n] \in PoolFields
  BY DEF PoolFields
<1> QED BY <1>1, <1>2, <1>3, <1>4, <1>5
-------------------------------------------------------------------------------
(* Steps that change only what the workers of one pool count.              *)

(* A step of one live pool that keeps its identity, and its workers within *)
(* their bounds, keeps the invariant.                                      *)
LEMMA PoolStep ==
  ASSUME IInv, NEW p \in Pool, UNCHANGED <<wqVars, pwq, plock, workVars, relq, rel, wrlock>>,
         \A o \in Pool : o # p => pool'[o] = pool[o],
         pool' \in [Pool -> PoolFields], pool[p].phase = "live",
         pool'[p].phase = pool[p].phase, pool'[p].cookie = pool[p].cookie,
         pool'[p].refcnt = pool[p].refcnt, pool'[p].hashed = pool[p].hashed,
         pool'[p].manager = "release" <=> pool[p].manager = "release",
         pool[p].manager = "release" => pool'[p].idle = 0 /\ pool'[p].dying <= pool[p].dying,
         pool'[p].detach # "unset" => pool[p].detach # "unset",
         pool'[p].detach = "done" => pool'[p].dying = 0,
         Attached(p)' <= MaxWorkers + 1
  PROVE  IInv'
<1> USE DEF wqVars, workVars
<1>1. TypeOK'
  BY DEF TypeOK, IInv
<1>2. Owners'
  BY SameOwners DEF IInv
<1>3. \A o \in Pool : pool'[o].phase = pool[o].phase /\ pool'[o].refcnt = pool[o].refcnt
  OBVIOUS
<1>4. Places'
  BY <1>3, SamePlaces DEF IInv
<1>5. ReferencesExact'
  BY <1>3, SameReferences DEF IInv
<1>6. ReleaseThread'
  BY <1>3, SameRelease DEF IInv
<1>7. PoolLife'
  <2>1. \A o \in Pool : o # p => Attached(o)' = Attached(o)
    BY SameBusy DEF IInv, Attached, Managing
  <2>2. RelPool' = RelPool
    BY DEF RelPool
  <2>3. PoolLife
    BY DEF IInv
  <2>4. pool[p].dying \in Nat /\ pool'[p].dying \in Nat
    BY DEF IInv, TypeOK, PoolFields
  <2>5. ASSUME NEW o \in Pool, o # p PROVE pool'[o] = pool[o] /\ Attached(o)' <= MaxWorkers + 1
    BY <2>1, <2>3, <2>5 DEF PoolLife
  <2>6. pool'[p].phase = "live"
    OBVIOUS
  <2>7. rel.pc = "timer" /\ p = RelPool => pool'[p].dying = 0
    BY <2>3, <2>4 DEF PoolLife
  <2>8. pool'[p].hashed <=> pool'[p].refcnt > 0
    BY <2>3 DEF PoolLife
  <2>9. pool'[p].phase = "live" /\ pool'[p].refcnt = 0 => rel.pc \in Teardown /\ p = RelPool
    BY <2>3 DEF PoolLife
  <2> QED BY <2>2, <2>3, <2>5, <2>6, <2>7, <2>8, <2>9 DEF PoolLife, Teardown
<1>8. Distinct'
  BY DEF Distinct, IInv
<1> QED BY <1>1, <1>2, <1>4, <1>5, <1>6, <1>7, <1>8 DEF IInv

(* A pool that is in use at all is live.                                   *)
LEMMA Living ==
  ASSUME IInv, NEW p \in Pool, pool[p] # NoPool
  PROVE  pool[p].phase = "live"
BY DEF IInv, TypeOK, PoolFields, PoolLife

(* What the steps of the pool's workers have at hand.                      *)
LEMMA PoolFacts ==
  ASSUME IInv, NEW p \in Pool
  PROVE  /\ pool \in [Pool -> PoolFields] /\ pool[p] \in PoolFields
         /\ pool[p].idle \in Nat /\ pool[p].dying \in Nat /\ Cardinality(Busy(p)) \in Nat
         /\ Attached(p) <= MaxWorkers + 1 /\ MaxWorkers \in Nat
         /\ (pool[p].manager = "release" => pool[p].idle = 0)
         /\ (pool[p].detach = "done" => pool[p].dying = 0)
<1>1. pool \in [Pool -> PoolFields] /\ pool[p] \in PoolFields
  BY DEF IInv, TypeOK
<1>2. Cardinality(Busy(p)) \in Nat
  BY Finite, FS_CardinalityType DEF IInv
<1> QED BY <1>1, <1>2, LifeAssumption DEF IInv, PoolLife, PoolFields

(* A worker that enters the idle list is counted there, and may start the  *)
(* idle timer.                                                             *)
LEMMA EnterIdleFields ==
  ASSUME NEW f \in PoolFields, NEW b
  PROVE  /\ EnterIdle(f, b) \in PoolFields /\ EnterIdle(f, b).idle = f.idle + 1
         /\ EnterIdle(f, b).phase = f.phase /\ EnterIdle(f, b).cookie = f.cookie
         /\ EnterIdle(f, b).refcnt = f.refcnt /\ EnterIdle(f, b).hashed = f.hashed
         /\ EnterIdle(f, b).dying = f.dying /\ EnterIdle(f, b).manager = f.manager
         /\ EnterIdle(f, b).detach = f.detach
<1> DEFINE t == f.timer \/ too_many_workers([f EXCEPT !.idle = @ + 1], b)
<1>1. t \in BOOLEAN
  BY DEF too_many_workers, PoolFields
<1>2. EnterIdle(f, b) = [f EXCEPT !.idle = f.idle + 1, !.timer = t]
  BY DEF EnterIdle
<1> HIDE DEF t
<1>3. ASSUME NEW b1 \in BOOLEAN, NEW n \in Nat
      PROVE  [f EXCEPT !.idle = n, !.timer = b1] \in PoolFields
  BY Assigned
<1>4. f.idle + 1 \in Nat
  BY DEF PoolFields
<1>5. EnterIdle(f, b) \in PoolFields
  BY <1>1, <1>2, <1>3, <1>4
<1> QED BY <1>2, <1>5 DEF PoolFields

(* A worker becomes the manager, ...                                       *)
LEMMA BecomeManagerStep == ASSUME IInv, NEW p \in Pool, BecomeManager(p) PROVE IInv'
<1> USE DEF BecomeManager, wqVars, workVars
<1>1. pool[p].phase = "live"
  BY Living DEF NoPool
<1>2. Busy(p)' = Busy(p)
  BY SameBusy DEF IInv
<1>3. /\ pool' \in [Pool -> PoolFields] /\ \A o \in Pool : o # p => pool'[o] = pool[o]
      /\ pool'[p] = [pool[p] EXCEPT !.idle = 0, !.manager = "creates"]
  BY PoolFacts DEF PoolFields
<1>4. Attached(p)' = Attached(p)
  BY <1>2, <1>3, PoolFacts DEF Attached, Managing, PoolFields
<1> QED BY <1>1, <1>3, <1>4, PoolFacts, PoolStep DEF PoolFields

(* ... creates a worker, ...                                               *)
LEMMA ManagerCreatesStep == ASSUME IInv, NEW p \in Pool, ManagerCreates(p) PROVE IInv'
<1> USE DEF ManagerCreates, wqVars, workVars
<1>1. pool[p].phase = "live"
  BY Living DEF NoPool
<1>2. Busy(p)' = Busy(p)
  BY SameBusy DEF IInv
<1> DEFINE f == [pool[p] EXCEPT !.manager = "locks"]
<1>3. /\ f \in PoolFields /\ f.idle = pool[p].idle /\ f.phase = pool[p].phase
      /\ f.cookie = pool[p].cookie /\ f.refcnt = pool[p].refcnt /\ f.hashed = pool[p].hashed
      /\ f.dying = pool[p].dying /\ f.manager = "locks" /\ f.detach = pool[p].detach
  BY PoolFacts DEF PoolFields
<1>4. /\ \A o \in Pool : o # p => pool'[o] = pool[o]
      /\ pool' = [pool EXCEPT ![p] = EnterIdle(f, Cardinality(Busy(p)))]
      /\ pool'[p] = EnterIdle(f, Cardinality(Busy(p)))
  BY PoolFacts
<1> HIDE DEF f
<1>5. /\ pool' \in [Pool -> PoolFields]
      /\ pool'[p].idle = pool[p].idle + 1 /\ pool'[p].phase = pool[p].phase
      /\ pool'[p].cookie = pool[p].cookie /\ pool'[p].refcnt = pool[p].refcnt
      /\ pool'[p].hashed = pool[p].hashed /\ pool'[p].dying = pool[p].dying
      /\ pool'[p].manager = "locks" /\ pool'[p].detach = pool[p].detach
  BY <1>3, <1>4, PoolFacts, EnterIdleFields
<1>6. Attached(p) < MaxWorkers /\ Attached(p)' = Attached(p) + 1
  BY <1>2, <1>5, PoolFacts DEF Attached, Managing
<1>7. Attached(p)' <= MaxWorkers + 1
  <2>1. Attached(p) \in Int
    BY PoolFacts DEF Attached, Managing
  <2> QED BY <2>1, <1>6, PoolFacts
<1> QED BY <1>1, <1>4, <1>5, <1>7, PoolFacts, PoolStep

(* Another step of the manager that touches nothing but its place.         *)
LEMMA ManagerMoves ==
  ASSUME IInv, NEW p \in Pool, pool[p].manager \in {"creates", "locks"}, NEW m \in {"creates", "locks"},
         pool' = [pool EXCEPT ![p].manager = m],
         UNCHANGED <<wqVars, pwq, plock, workVars, relq, rel, wrlock>>
  PROVE  IInv'
<1> USE DEF wqVars, workVars
<1>1. pool[p].phase = "live"
  BY Living DEF NoPool
<1>2. Busy(p)' = Busy(p)
  BY SameBusy DEF IInv
<1>3. /\ pool' \in [Pool -> PoolFields] /\ \A o \in Pool : o # p => pool'[o] = pool[o]
      /\ pool'[p] = [pool[p] EXCEPT !.manager = m]
  BY PoolFacts DEF PoolFields
<1>4. Attached(p)' = Attached(p)
  BY <1>2, <1>3, PoolFacts DEF Attached, Managing, PoolFields
<1> QED BY <1>1, <1>3, <1>4, PoolFacts, PoolStep DEF PoolFields

(* ... or fails to, and needs none, ...                                    *)
LEMMA ManagerGivesUpStep == ASSUME IInv, NEW p \in Pool, ManagerGivesUp(p) PROVE IInv'
BY ManagerMoves DEF ManagerGivesUp

(* ... and goes on, or is the manager no more.                             *)
LEMMA ManagerEndsStep == ASSUME IInv, NEW p \in Pool, ManagerEnds(p) PROVE IInv'
<1> USE DEF wqVars, workVars
<1>0. CASE need_to_create_worker(p)
  BY <1>0, ManagerMoves DEF ManagerEnds
<1> SUFFICES ASSUME ~need_to_create_worker(p) PROVE IInv'
  BY <1>0
<1> USE DEF ManagerEnds
<1>1. pool[p].phase = "live"
  BY Living DEF NoPool
<1>2. Busy(p)' = Busy(p)
  BY SameBusy DEF IInv
<1>3. /\ pool' \in [Pool -> PoolFields] /\ \A o \in Pool : o # p => pool'[o] = pool[o]
      /\ pool'[p] = EnterIdle([pool[p] EXCEPT !.manager = "none"], Cardinality(Busy(p)))
  <2>1. [pool[p] EXCEPT !.manager = "none"] \in PoolFields
    BY PoolFacts DEF PoolFields
  <2> QED BY <2>1, PoolFacts, EnterIdleFields
<1>4. /\ pool'[p].idle = pool[p].idle + 1 /\ pool'[p].phase = pool[p].phase
      /\ pool'[p].cookie = pool[p].cookie /\ pool'[p].refcnt = pool[p].refcnt
      /\ pool'[p].hashed = pool[p].hashed /\ pool'[p].dying = pool[p].dying
      /\ pool'[p].manager = "none" /\ pool'[p].detach = pool[p].detach
  <2> DEFINE f == [pool[p] EXCEPT !.manager = "none"]
  <2>1. /\ f \in PoolFields /\ f.idle = pool[p].idle /\ f.phase = pool[p].phase
        /\ f.cookie = pool[p].cookie /\ f.refcnt = pool[p].refcnt /\ f.hashed = pool[p].hashed
        /\ f.dying = pool[p].dying /\ f.manager = "none" /\ f.detach = pool[p].detach
    BY PoolFacts DEF PoolFields
  <2>2. pool'[p] = EnterIdle(f, Cardinality(Busy(p)))
    BY <1>3
  <2> HIDE DEF f
  <2> QED BY <2>1, <2>2, EnterIdleFields
<1>5. Attached(p)' = Attached(p)
  BY <1>2, <1>4, PoolFacts DEF Attached, Managing
<1> QED BY <1>1, <1>3, <1>4, <1>5, PoolFacts, PoolStep

(* The idle timer goes off, ...                                            *)
LEMMA TimerFiresStep == ASSUME IInv, NEW p \in Pool, TimerFires(p) PROVE IInv'
<1> USE DEF TimerFires, wqVars, workVars
<1>1. pool[p].phase = "live"
  BY Living DEF NoPool
<1>2. Busy(p)' = Busy(p)
  BY SameBusy DEF IInv
<1>3. /\ pool' \in [Pool -> PoolFields] /\ \A o \in Pool : o # p => pool'[o] = pool[o]
      /\ pool'[p] = [pool[p] EXCEPT !.timer = FALSE, !.handler = TRUE]
  BY PoolFacts DEF PoolFields
<1>4. Attached(p)' = Attached(p)
  BY <1>2, <1>3, PoolFacts DEF Attached, Managing, PoolFields
<1> QED BY <1>1, <1>3, <1>4, PoolFacts, PoolStep DEF PoolFields

(* ... and its handler destroys an idle worker or arms it again.           *)
LEMMA TimerHandlerStep == ASSUME IInv, NEW p \in Pool, TimerHandler(p) PROVE IInv'
<1> USE DEF TimerHandler, wqVars, workVars
<1>1. pool[p].phase = "live"
  BY Living DEF NoPool
<1>2. Busy(p)' = Busy(p)
  BY SameBusy DEF IInv
<1>3. CASE pool' = [pool EXCEPT ![p].handler = FALSE, ![p].timer = TRUE]
  <2>1. /\ pool' \in [Pool -> PoolFields] /\ \A o \in Pool : o # p => pool'[o] = pool[o]
        /\ pool'[p] = [pool[p] EXCEPT !.handler = FALSE, !.timer = TRUE]
    <3>1. [pool[p] EXCEPT !.handler = FALSE, !.timer = TRUE] \in PoolFields
      BY PoolFacts, Assigned
    <3>2. pool' = [pool EXCEPT ![p] = [pool[p] EXCEPT !.handler = FALSE, !.timer = TRUE]]
      BY <1>3, PoolFacts DEF PoolFields
    <3> QED BY <3>1, <3>2, PoolFacts
  <2>2. Attached(p)' = Attached(p)
    BY <1>2, <2>1, PoolFacts DEF Attached, Managing, PoolFields
  <2> QED BY <1>1, <2>1, <2>2, PoolFacts, PoolStep DEF PoolFields
<1>4. CASE pool[p].idle > 0 /\ pool' = [pool EXCEPT ![p].idle = @ - 1, ![p].dying = @ + 1]
  <2>1. /\ pool' \in [Pool -> PoolFields] /\ \A o \in Pool : o # p => pool'[o] = pool[o]
        /\ pool'[p] = [pool[p] EXCEPT !.idle = @ - 1, !.dying = @ + 1]
    BY <1>4, PoolFacts DEF PoolFields
  <2>2. Attached(p)' = Attached(p)
    BY <1>2, <1>4, <2>1, PoolFacts DEF Attached, Managing, PoolFields
  <2>3. pool[p].detach = "done" => pool[p].manager = "release"
    BY DEF IInv, PoolLife
  <2>4. pool[p].manager # "release" /\ pool[p].detach # "done"
    BY <1>4, <2>3, PoolFacts
  <2> QED BY <1>1, <2>1, <2>2, <2>4, PoolFacts, PoolStep DEF PoolFields
<1>5. CASE pool' = [pool EXCEPT ![p].handler = FALSE]
  <2>1. /\ pool' \in [Pool -> PoolFields] /\ \A o \in Pool : o # p => pool'[o] = pool[o]
        /\ pool'[p] = [pool[p] EXCEPT !.handler = FALSE]
    BY <1>5, PoolFacts DEF PoolFields
  <2>2. Attached(p)' = Attached(p)
    BY <1>2, <2>1, PoolFacts DEF Attached, Managing, PoolFields
  <2> QED BY <1>1, <2>1, <2>2, PoolFacts, PoolStep DEF PoolFields
<1> QED BY <1>3, <1>4, <1>5

(* A destroyed worker leaves its pool, and may complete detach_completion. *)
LEMMA DetachStep == ASSUME IInv, NEW p \in Pool, Detach(p) PROVE IInv'
<1> USE DEF Detach, wqVars, workVars
<1> DEFINE d == IF pool[p].detach = "set" /\ Attached(p) = 1 THEN "done" ELSE pool[p].detach
<1>1. pool[p].phase = "live"
  BY Living DEF NoPool
<1>2. Busy(p)' = Busy(p)
  BY SameBusy DEF IInv
<1>3. d \in {"unset", "set", "done"} /\ (d # "unset" => pool[p].detach # "unset")
  BY PoolFacts DEF PoolFields
<1>4. d = "done" => pool[p].dying = 1
  BY PoolFacts DEF Attached, Managing, PoolFields
<1>5. pool[p].dying > 0 /\ pool' = [pool EXCEPT ![p].dying = @ - 1, ![p].detach = d]
  OBVIOUS
<1> HIDE DEF d, Detach
<1>6. /\ pool' \in [Pool -> PoolFields] /\ \A o \in Pool : o # p => pool'[o] = pool[o]
      /\ pool'[p] = [pool[p] EXCEPT !.dying = @ - 1, !.detach = d]
  <2>1. [pool[p] EXCEPT !.dying = @ - 1, !.detach = d] \in PoolFields
    <3>1. ASSUME NEW n \in Nat, NEW e \in {"unset", "set", "done"}
          PROVE  [pool[p] EXCEPT !.dying = n, !.detach = e] \in PoolFields
      BY PoolFacts, Assigned
    <3>2. pool[p].dying - 1 \in Nat
      BY <1>5, PoolFacts
    <3> QED BY <3>1, <3>2, <1>3
  <2>2. pool' = [pool EXCEPT ![p] = [pool[p] EXCEPT !.dying = @ - 1, !.detach = d]]
    BY <1>5, PoolFacts DEF PoolFields
  <2> QED BY ZenonT(40), <2>1, <2>2, PoolFacts
<1>7. Attached(p)' <= MaxWorkers + 1
  BY <1>2, <1>5, <1>6, PoolFacts DEF Attached, Managing, PoolFields
<1>8. UNCHANGED <<wqVars, pwq, plock, workVars, relq, rel, wrlock>>
  BY DEF Detach
<1> QED BY <1>1, <1>3, <1>4, <1>5, <1>6, <1>7, <1>8, PoolFacts, PoolStep DEF PoolFields
-------------------------------------------------------------------------------
(* Works that come into flight, are executed and return.                   *)

(* Holding a pwq and being counted by its pool depend on nothing else.     *)
LEMMA SameHolders ==
  ASSUME UNCHANGED <<dfl, old, putting, dpc>>
  PROVE  \A q : Holders(q)' = Holders(q)
BY DEF Holders

(* The pwqs that a pool counts are the same.                               *)
LEMMA SameCounted ==
  ASSUME \A q \in Pwq : pwq'[q].phase = pwq[q].phase /\ pwq'[q].pool = pwq[q].pool
  PROVE  \A p : Counted(p)' = Counted(p)
BY DEF Counted

(* The pwq of a queued work is the default one of its workqueue.           *)
LEMMA Target ==
  ASSUME IInv, NEW x \in Work, NEW w \in Wq, state[w] = "live"
  PROVE  TargetPwq(x, w) = dfl[w] /\ dfl[w] \in Pwq /\ pwq[dfl[w]].phase = "linked"
<1>1. \A r \in running : pwq[r[2]].pool # None
  BY Standing, LifeAssumption
<1>2. {r \in running : r[1] = x /\ pwq[r[2]].wq = w /\ pwq[r[2]].pool = LastPool(x)} = {}
  BY <1>1 DEF LastPool
<1>3. TargetPwq(x, w) = dfl[w]
  BY <1>2 DEF TargetPwq
<1>4. dfl[w] \in Pwq /\ w \in Holders(dfl[w])
  <2>1. dfl[w] \in Pwq \cup {None} /\ dfl[w] # None
    BY DEF IInv, TypeOK, Owners
  <2> QED BY <2>1 DEF Holders
<1> QED BY <1>3, <1>4 DEF IInv, Owners

(* queue_work() takes a reference for the work.                            *)
LEMMA QueueWorkStep == ASSUME IInv, NEW x \in Work, NEW w \in Wq, QueueWork(x, w) PROVE IInv'
<1> USE DEF wqVars
<1> PICK q \in Pwq : q = dfl[w]
  BY Target DEF QueueWork
<1>1. q \in Pwq /\ pwq[q].phase = "linked" /\ q # None
  BY Target, LifeAssumption DEF QueueWork
<1>2. /\ at[x] = None /\ pwq' = [pwq EXCEPT ![q].refcnt = @ + 1] /\ at' = [at EXCEPT ![x] = q]
      /\ UNCHANGED <<wqVars, pool, plock, running, relq, rel, wrlock>>
  BY Target DEF QueueWork
<1>3. pwq \in [Pwq -> PwqFields] /\ at \in [Work -> Pwq \cup {None}]
  BY DEF IInv, TypeOK
<1>4. /\ pwq' \in [Pwq -> PwqFields] /\ \A z \in Pwq : z # q => pwq'[z] = pwq[z]
      /\ pwq'[q] = [pwq[q] EXCEPT !.refcnt = @ + 1] /\ pwq'[q].refcnt = pwq[q].refcnt + 1
      /\ pwq[q].refcnt \in Nat
  BY <1>1, <1>2, <1>3 DEF PwqFields
<1>5. \A z \in Pwq : pwq'[z].phase = pwq[z].phase /\ pwq'[z].wq = pwq[z].wq /\ pwq'[z].pool = pwq[z].pool
  BY <1>1, <1>3, <1>4 DEF PwqFields
<1>6. at' \in [Work -> Pwq \cup {None}] /\ at'[x] = q /\ \A y \in Work : y # x => at'[y] = at[y]
  BY <1>1, <1>2, <1>3
<1>7. InFlight(q)' = InFlight(q) \cup {<<x, "queued">>} /\ <<x, "queued">> \notin InFlight(q)
  <2>1. Queued(q)' = Queued(q) \cup {x} /\ x \notin Queued(q)
    BY <1>1, <1>2, <1>6 DEF Queued
  <2>2. UNCHANGED running
    BY <1>2
  <2> QED BY <2>1, <2>2 DEF InFlight
<1>8. \A z \in Pwq : z # q => InFlight(z)' = InFlight(z)
  BY <1>1, <1>2, <1>6, LifeAssumption DEF InFlight, Queued
<1>9. TypeOK'
  BY <1>2, <1>4, <1>6 DEF TypeOK, IInv
<1>10. Owners'
  BY <1>2, <1>5, SameOwners DEF IInv
<1>11. Places'
  BY <1>1, <1>2, <1>4, <1>5, <1>8 DEF IInv, Places
<1>12. ReferencesExact'
  <2>1. Cardinality(InFlight(q)') = Cardinality(InFlight(q)) + 1
    BY <1>7, Finite, FS_AddElement DEF IInv
  <2>2. Cardinality(InFlight(q)) \in Nat /\ Cardinality(Holders(q)) \in Nat
    BY Finite, FS_CardinalityType DEF IInv
  <2>3. \A z : Holders(z)' = Holders(z) /\ Counted(z)' = Counted(z)
    BY <1>2, <1>5, SameHolders, SameCounted
  <2>4. pwq[q].refcnt # 0
    <3>1. w \in Holders(q)
      BY DEF Holders
    <3>2. Cardinality(Holders(q)) # 0
      BY <3>1, Finite, FS_EmptySet DEF IInv
    <3> QED BY <1>1, <2>2, <3>2 DEF IInv, ReferencesExact
  <2>5. pwq'[q].refcnt = Cardinality(Holders(q)') + Cardinality(InFlight(q)')
    BY <1>1, <1>4, <2>1, <2>2, <2>3 DEF IInv, ReferencesExact
  <2>6. ReferencesExact
    BY DEF IInv
  <2>7. pwq'[q].refcnt # 0
    BY <1>4
  <2>8. \A z \in Pwq : z # q => pwq'[z] = pwq[z] /\ InFlight(z)' = InFlight(z)
    BY <1>4, <1>8
  <2>9. UNCHANGED <<pool, relq, rel>>
    BY <1>2
  <2>10. \A z : InRelq(z)' <=> InRelq(z)
    BY <2>9 DEF InRelq
  <2> QED BY <1>5, <2>3, <2>4, <2>5, <2>6, <2>7, <2>8, <2>9, <2>10 DEF ReferencesExact
<1>13. ReleaseThread'
  BY <1>2, <1>5, SameRelease DEF IInv
<1>14. PoolLife'
  <2>1. \A p \in Pool : Attached(p)' = Attached(p)
    <3>1. \A r \in running : pwq'[r[2]].pool = pwq[r[2]].pool
      BY <1>5, Standing
    <3> QED BY <1>2, <3>1, SameBusy DEF IInv, Attached, Managing
  <2>2. rel.pc # "pop" => rel.pwq \in Pwq
    BY DEF IInv, TypeOK, ReleaseThread
  <2> QED BY <1>2, <1>5, <2>1, <2>2 DEF IInv, PoolLife, RelPool, Teardown
<1>15. Distinct'
  BY <1>2 DEF IInv, Distinct
<1> QED BY <1>9, <1>10, <1>11, <1>12, <1>13, <1>14, <1>15 DEF IInv
-------------------------------------------------------------------------------
(* References that are put.                                                *)

(* Steps that leave the pools to themselves.                               *)
LEMMA SamePools ==
  ASSUME IInv, UNCHANGED <<pool, rel, running>>, \A q \in Pwq : pwq'[q].pool = pwq[q].pool
  PROVE  PoolLife' /\ Distinct'
<1>1. \A p \in Pool : Attached(p)' = Attached(p)
  BY Standing, SameBusy DEF IInv, Attached, Managing
<1>2. rel.pc # "pop" => rel.pwq \in Pwq
  BY DEF IInv, TypeOK, ReleaseThread
<1>3. PoolLife'
  BY <1>1, <1>2 DEF IInv, PoolLife, RelPool, Teardown
<1> QED BY <1>3 DEF IInv, Distinct

(* A pwq that is counted is not in the release thread's hands.             *)
LEMMA CountedIsFree ==
  ASSUME IInv, NEW q \in Pwq, pwq[q].phase = "linked", pwq[q].refcnt > 0
  PROVE  rel.pwq # q /\ \A i \in 1 .. Len(relq) : relq[i] # q
<1>1. relq \in Seq(Pwq)
  BY DEF IInv, TypeOK
<1> QED BY <1>1 DEF IInv, ReferencesExact, InRelq

(* put_pwq() takes one reference away, and queues the pwq for release when *)
(* it was the last.                                                        *)
LEMMA PutFacts ==
  ASSUME IInv, NEW q \in Pwq, pwq[q].phase = "linked", pwq[q].refcnt > 0, PutPwq(pwq, q)
  PROVE  /\ pwq' \in [Pwq -> PwqFields] /\ relq' \in Seq(Pwq)
         /\ \A z \in Pwq : z # q => pwq'[z] = pwq[z]
         /\ pwq[q].refcnt \in Nat /\ pwq'[q].refcnt = pwq[q].refcnt - 1
         /\ \A z \in Pwq : /\ pwq'[z].phase = pwq[z].phase /\ pwq'[z].wq = pwq[z].wq
                           /\ pwq'[z].pool = pwq[z].pool
         /\ \A z : InRelq(z)' <=> InRelq(z) \/ (z = q /\ pwq[q].refcnt = 1)
         /\ \A i, j \in 1 .. Len(relq') : relq'[i] = relq'[j] => i = j
         /\ \A i \in 1 .. Len(relq') : relq'[i] # rel.pwq /\ pwq'[relq'[i]].phase = "linked"
<1>1. pwq \in [Pwq -> PwqFields] /\ relq \in Seq(Pwq)
  BY DEF IInv, TypeOK
<1>2. rel.pwq # q /\ \A i \in 1 .. Len(relq) : relq[i] # q
  BY CountedIsFree
<1>3. /\ \A i, j \in 1 .. Len(relq) : relq[i] = relq[j] => i = j
      /\ \A i \in 1 .. Len(relq) : relq[i] # rel.pwq /\ pwq[relq[i]].phase = "linked"
  BY DEF IInv, ReleaseThread
<1>4. /\ pwq' = [pwq EXCEPT ![q].refcnt = @ - 1]
      /\ relq' = IF pwq[q].refcnt = 1 THEN Append(relq, q) ELSE relq
  BY DEF PutPwq
<1>5. pwq[q].refcnt \in Nat /\ pwq[q].refcnt - 1 \in Nat
  BY <1>1 DEF PwqFields
<1>6. /\ pwq' \in [Pwq -> PwqFields] /\ \A z \in Pwq : z # q => pwq'[z] = pwq[z]
      /\ pwq'[q] = [pwq[q] EXCEPT !.refcnt = @ - 1] /\ pwq'[q].refcnt = pwq[q].refcnt - 1
  BY <1>1, <1>4, <1>5 DEF PwqFields
<1>7. \A z \in Pwq : /\ pwq'[z].phase = pwq[z].phase /\ pwq'[z].wq = pwq[z].wq
                     /\ pwq'[z].pool = pwq[z].pool
  BY <1>1, <1>6 DEF PwqFields
<1>8. CASE pwq[q].refcnt = 1
  <2>1. /\ relq' \in Seq(Pwq) /\ Len(relq') = Len(relq) + 1 /\ relq'[Len(relq) + 1] = q
        /\ \A i \in 1 .. Len(relq) : relq'[i] = relq[i]
    BY <1>1, <1>4, <1>8
  <2>2. DOMAIN relq' = 1 .. Len(relq) + 1 /\ DOMAIN relq = 1 .. Len(relq) /\ Len(relq) \in Nat
    BY <1>1, <2>1
  <2>3. \A i \in 1 .. Len(relq) + 1 : i \in 1 .. Len(relq) \/ i = Len(relq) + 1
    BY <2>2
  <2>4. \A i \in 1 .. Len(relq) : relq[i] \in Pwq
    BY <1>1
  <2>5. \A z : InRelq(z)' <=> InRelq(z) \/ z = q
    BY <2>1, <2>2, <2>3 DEF InRelq
  <2>6. \A i, j \in 1 .. Len(relq') : relq'[i] = relq'[j] => i = j
    BY <1>2, <1>3, <2>1, <2>2, <2>3
  <2>7. \A i \in 1 .. Len(relq') : relq'[i] # rel.pwq /\ pwq'[relq'[i]].phase = "linked"
    BY <1>2, <1>3, <1>7, <2>1, <2>2, <2>3, <2>4
  <2> QED BY <1>5, <1>6, <1>7, <1>8, <2>1, <2>5, <2>6, <2>7
<1>9. CASE pwq[q].refcnt # 1
  <2>1. \A i \in 1 .. Len(relq) : relq[i] \in Pwq
    BY <1>1
  <2>2. UNCHANGED relq
    BY <1>4, <1>9
  <2>3. \A z : InRelq(z)' <=> InRelq(z)
    BY <2>2 DEF InRelq
  <2> QED BY <1>1, <1>3, <1>5, <1>6, <1>7, <1>9, <2>1, <2>2, <2>3
<1> QED BY <1>8, <1>9

(* The references after that: one holder or one work in flight less.       *)
LEMMA PutReferences ==
  ASSUME IInv, NEW q \in Pwq, pwq[q].phase = "linked", pwq[q].refcnt > 0, PutPwq(pwq, q),
         UNCHANGED rel, \A p \in Pool : pool'[p].refcnt = pool[p].refcnt,
         \A z \in Pwq : z # q => Holders(z)' = Holders(z) /\ InFlight(z)' = InFlight(z),
         Cardinality(Holders(q)') + Cardinality(InFlight(q)')
           = Cardinality(Holders(q)) + Cardinality(InFlight(q)) - 1
  PROVE  ReferencesExact'
<1>1. ReferencesExact
  BY DEF IInv
<1>2. \A p : Counted(p)' = Counted(p)
  BY PutFacts, SameCounted
<1>3. rel'.pwq # q
  BY CountedIsFree
<1>4. /\ pwq'[q].refcnt = Cardinality(Holders(q)') + Cardinality(InFlight(q)')
      /\ pwq'[q].refcnt = 0 <=> pwq[q].refcnt = 1
  <2>1. Cardinality(Holders(q)) \in Nat /\ Cardinality(InFlight(q)) \in Nat
    BY Finite, FS_CardinalityType DEF IInv
  <2>2. pwq[q].refcnt = Cardinality(Holders(q)) + Cardinality(InFlight(q))
    BY <1>1 DEF ReferencesExact
  <2>3. pwq[q].refcnt \in Nat /\ pwq'[q].refcnt = pwq[q].refcnt - 1
    BY PutFacts
  <2> QED BY <2>1, <2>2, <2>3
<1>5. pwq'[q].refcnt = 0 <=> rel'.pwq = q \/ InRelq(q)'
  BY <1>3, <1>4, <1>1, PutFacts DEF ReferencesExact
<1>6. ASSUME NEW z \in Pwq, z # q, pwq'[z].phase # "none"
      PROVE  /\ pwq'[z].refcnt = Cardinality(Holders(z)') + Cardinality(InFlight(z)')
             /\ pwq'[z].refcnt = 0 <=> rel'.pwq = z \/ InRelq(z)'
  <2>1. /\ pwq'[z] = pwq[z]
        /\ InRelq(z)' <=> InRelq(z)
    BY <1>6, PutFacts
  <2>2. Holders(z)' = Holders(z) /\ InFlight(z)' = InFlight(z) /\ pwq[z].phase # "none"
    BY <1>6, <2>1
  <2>3. /\ pwq[z].refcnt = Cardinality(Holders(z)) + Cardinality(InFlight(z))
        /\ pwq[z].refcnt = 0 <=> rel.pwq = z \/ InRelq(z)
    BY <1>1, <2>2 DEF ReferencesExact
  <2> QED BY <2>1, <2>2, <2>3
<1> QED BY <1>1, <1>2, <1>4, <1>5, <1>6 DEF ReferencesExact

(* The release thread has one more pwq in its queue at most.               *)
LEMMA PutRelease ==
  ASSUME IInv, NEW q \in Pwq, pwq[q].phase = "linked", pwq[q].refcnt > 0, PutPwq(pwq, q),
         UNCHANGED rel, rel.pc \in Teardown => wrlock' = wrlock,
         \A w \in Wq : state[w] = "dead" => state'[w] = "dead",
         \A p \in Pool : pool'[p].phase = pool[p].phase /\ pool'[p].refcnt = pool[p].refcnt
  PROVE  ReleaseThread'
<1>1. \A w : Linked(w)' = Linked(w)
  BY PutFacts DEF Linked
<1>2. /\ rel.pc # "pop" => rel.pwq \in Pwq
      /\ rel.last => rel.pc # "pop" /\ rel.pc # "unlink"
      /\ rel.pc \in Teardown => rel.pc # "pop" /\ rel.pc # "unlink"
  BY DEF IInv, TypeOK, ReleaseThread, Teardown
<1>3. rel.pc # "pop" => RelPool' = RelPool /\ pwq'[rel'.pwq].wq = pwq[rel.pwq].wq
                        /\ pwq'[rel'.pwq].phase = pwq[rel.pwq].phase
  BY <1>2, PutFacts DEF RelPool
<1>4. rel.pc # "pop" /\ rel.pc # "unlink" => RelPool \in Pool /\ pwq[rel.pwq].wq \in Wq
  BY <1>2 DEF IInv, Places, RelPool
<1>5. rel.last => Linked(pwq[rel.pwq].wq)' = {}
  <2>1. rel.last => Linked(pwq[rel.pwq].wq) = {}
    BY DEF IInv, ReleaseThread
  <2>2. rel.last => pwq'[rel'.pwq].wq = pwq[rel.pwq].wq
    BY <1>2, <1>3
  <2> QED BY <2>1, <2>2, PutFacts DEF Linked
<1>6. rel.last => state'[pwq'[rel'.pwq].wq] = "dead"
  BY <1>2, <1>3, <1>4 DEF IInv, ReleaseThread
<1>7. rel.pc \in Teardown => /\ wrlock' = "release" /\ (pool[RelPool].phase = "live")'
                             /\ (pool[RelPool].refcnt = 0)'
  BY <1>2, <1>3, <1>4 DEF IInv, ReleaseThread
<1> QED BY <1>2, <1>3, <1>5, <1>6, <1>7, PutFacts DEF IInv, ReleaseThread
-------------------------------------------------------------------------------
(* The works: execution and return.                                        *)

(* A worker takes a work up; what is counted for it stays.                 *)
LEMMA ExecuteStep == ASSUME IInv, NEW x \in Work, Execute(x) PROVE IInv'
<1> USE DEF wqVars
<1> PICK q \in Pwq : q = at[x] /\ pwq[q].phase = "linked"
  BY Standing DEF Execute
<1> PICK p \in Pool : p = pwq[q].pool /\ pool[p].phase = "live" /\ pool[p].refcnt > 0
  BY Standing
<1>1. /\ at[x] # None /\ (\A r \in Busy(p) : r[1] # x)
      /\ pool[p].idle > (IF pool[p].manager = "none" THEN 1 ELSE 0)
      /\ pool' = [pool EXCEPT ![p].idle = @ - 1] /\ at' = [at EXCEPT ![x] = None]
      /\ running' = running \cup {<<x, q>>}
      /\ UNCHANGED <<wqVars, pwq, plock, relq, rel, wrlock>>
  BY DEF Execute
<1>2. at \in [Work -> Pwq \cup {None}] /\ running \subseteq Work \X Pwq
  BY DEF IInv, TypeOK
<1>3. <<x, q>> \notin running
  BY <1>1 DEF Busy
<1>4. pool[p].idle \in Nat /\ pool[p].idle - 1 \in Nat /\ pool[p].idle > 0
  BY <1>1, PoolFacts
<1>5. /\ pool' \in [Pool -> PoolFields] /\ \A o \in Pool : o # p => pool'[o] = pool[o]
      /\ pool'[p] = [pool[p] EXCEPT !.idle = @ - 1]
  BY <1>1, <1>4, PoolFacts DEF PoolFields
<1>6. /\ pool'[p].idle = pool[p].idle - 1 /\ pool'[p].phase = pool[p].phase
      /\ pool'[p].cookie = pool[p].cookie /\ pool'[p].refcnt = pool[p].refcnt
      /\ pool'[p].hashed = pool[p].hashed /\ pool'[p].dying = pool[p].dying
      /\ pool'[p].manager = pool[p].manager /\ pool'[p].detach = pool[p].detach
  BY <1>5, PoolFacts DEF PoolFields
<1>7. \A o \in Pool : pool'[o].phase = pool[o].phase /\ pool'[o].refcnt = pool[o].refcnt
  BY <1>5, <1>6
<1>8. /\ Queued(q)' = Queued(q) \ {x} /\ x \in Queued(q)
      /\ \A z \in Pwq : z # q => Queued(z)' = Queued(z)
  BY <1>1, <1>2, LifeAssumption DEF Queued
<1>9. /\ InFlight(q)' = (InFlight(q) \ {<<x, "queued">>}) \cup {<<x, "running">>}
      /\ <<x, "queued">> \in InFlight(q) /\ <<x, "running">> \notin InFlight(q)
  <2>1. {y \in Work : <<y, q>> \in running'} = {y \in Work : <<y, q>> \in running} \cup {x}
    BY <1>1
  <2>2. x \notin {y \in Work : <<y, q>> \in running}
    BY <1>3
  <2> QED BY <1>8, <2>1, <2>2 DEF InFlight
<1>10. \A z \in Pwq : z # q => InFlight(z)' = InFlight(z)
  <2>1. \A z \in Pwq : z # q =>
          {y \in Work : <<y, z>> \in running'} = {y \in Work : <<y, z>> \in running}
    BY <1>1
  <2> QED BY <1>8, <2>1 DEF InFlight
<1>11. TypeOK'
  <2>1. at' \in [Work -> Pwq \cup {None}] /\ running' \subseteq Work \X Pwq
    BY <1>1, <1>2
  <2> QED BY <1>1, <1>5, <2>1 DEF IInv, TypeOK
<1>12. Owners'
  BY <1>1, SameOwners DEF IInv
<1>13. Places'
  BY <1>1, <1>7, <1>9, <1>10 DEF IInv, Places
<1>14. ReferencesExact'
  <2>1. Cardinality(InFlight(q) \ {<<x, "queued">>}) = Cardinality(InFlight(q)) - 1
        /\ IsFiniteSet(InFlight(q) \ {<<x, "queued">>})
    BY <1>9, Finite, FS_RemoveElement DEF IInv
  <2>2. Cardinality(InFlight(q)') = Cardinality(InFlight(q) \ {<<x, "queued">>}) + 1
    BY <1>9, <2>1, FS_AddElement
  <2>3. Cardinality(InFlight(q)) \in Nat
    BY Finite, FS_CardinalityType DEF IInv
  <2>4. \A z \in Pwq : Cardinality(InFlight(z)') = Cardinality(InFlight(z))
    BY <1>10, <2>1, <2>2, <2>3
  <2>5. \A z : Holders(z)' = Holders(z) /\ Counted(z)' = Counted(z)
    BY <1>1, SameHolders, SameCounted
  <2>6. \A z : InRelq(z)' <=> InRelq(z)
    BY <1>1 DEF InRelq
  <2> QED BY <1>1, <1>7, <2>4, <2>5, <2>6 DEF IInv, ReferencesExact
<1>15. ReleaseThread'
  BY <1>1, <1>7, SameRelease DEF IInv
<1>16. \A o \in Pool : Attached(o)' = Attached(o)
  <2>1. Busy(p)' = Busy(p) \cup {<<x, q>>} /\ <<x, q>> \notin Busy(p)
    BY <1>1, <1>3 DEF Busy
  <2>2. Cardinality(Busy(p)') = Cardinality(Busy(p)) + 1
    <3>1. IsFiniteSet(Busy(p))
      BY Finite DEF IInv
    <3> DEFINE e == <<x, q>>
               B == Busy(p)
    <3>2. Busy(p)' = B \cup {e} /\ e \notin B /\ IsFiniteSet(B)
      BY <2>1, <3>1
    <3> HIDE DEF e, B
    <3>3. Cardinality(B \cup {e}) = Cardinality(B) + 1
      BY <3>2, FS_AddElement
    <3> QED BY <3>2, <3>3 DEF B
  <2>3. \A o \in Pool : o # p => Busy(o)' = Busy(o)
    BY <1>1 DEF Busy
  <2>4. Attached(p)' = Attached(p)
    BY <1>4, <1>6, <2>2, PoolFacts DEF Attached, Managing, PoolFields
  <2> QED BY <1>5, <2>3, <2>4, SameAttached
<1>17. PoolLife'
  <2>1. PoolLife /\ RelPool' = RelPool
    BY <1>1 DEF IInv, RelPool
  <2>2. pool[p].manager # "release"
    BY <2>1, <1>4 DEF PoolLife
  <2>3. ASSUME NEW o \in Pool, o # p PROVE pool'[o] = pool[o] /\ Attached(o)' <= MaxWorkers + 1
    <3>1. Attached(o) <= MaxWorkers + 1
      BY <2>1 DEF PoolLife
    <3>2. Attached(o)' = Attached(o)
      BY <1>16
    <3> QED BY <3>1, <3>2, <2>3, <1>5
  <2>4. Attached(p)' <= MaxWorkers + 1
    BY <1>16, <2>1 DEF PoolLife
  <2>5. pool'[p].phase = "live" /\ pool[p].phase = "live"
    BY <1>6
  <2>6. pool'[p].refcnt = pool[p].refcnt /\ pool'[p].hashed = pool[p].hashed
        /\ pool'[p].cookie = pool[p].cookie /\ pool'[p].manager = pool[p].manager
        /\ pool'[p].detach = pool[p].detach /\ pool'[p].dying = pool[p].dying
    BY <1>6
  <2>7. UNCHANGED rel
    BY <1>1
  <2> QED BY <2>1, <2>2, <2>3, <2>4, <2>5, <2>6, <2>7 DEF PoolLife, Teardown
<1>18. Distinct'
  <2>1. \A o \in Pool : pool'[o].hashed = pool[o].hashed /\ pool'[o].cookie = pool[o].cookie
    BY <1>5, <1>6
  <2> QED BY <2>1 DEF IInv, Distinct
<1> QED BY <1>11, <1>12, <1>13, <1>14, <1>15, <1>17, <1>18 DEF IInv

(* A work returns and puts its reference.                                  *)
LEMMA ReturnStep == ASSUME IInv, NEW r \in running, Return(r) PROVE IInv'
<1> USE DEF wqVars
<1> PICK x \in Work, q \in Pwq : r = <<x, q>> /\ x = r[1] /\ q = r[2] /\ pwq[q].phase = "linked"
  BY Standing
<1> PICK p \in Pool : p = pwq[q].pool /\ pool[p].phase = "live" /\ pool[p].refcnt > 0
  BY Standing
<1>1. /\ running' = running \ {r} /\ PutPwq(pwq, q)
      /\ pool' = [pool EXCEPT ![p] = EnterIdle(@, Cardinality(Busy(p)) - 1)]
      /\ UNCHANGED <<wqVars, plock, at, rel, wrlock>>
  BY DEF Return
<1>2. running \subseteq Work \X Pwq
  BY DEF IInv, TypeOK
<1>3. /\ pool' \in [Pool -> PoolFields] /\ \A o \in Pool : o # p => pool'[o] = pool[o]
      /\ pool'[p] = EnterIdle(pool[p], Cardinality(Busy(p)) - 1)
  BY <1>1, PoolFacts, EnterIdleFields
<1>4. /\ pool'[p].idle = pool[p].idle + 1 /\ pool'[p].phase = pool[p].phase
      /\ pool'[p].cookie = pool[p].cookie /\ pool'[p].refcnt = pool[p].refcnt
      /\ pool'[p].hashed = pool[p].hashed /\ pool'[p].dying = pool[p].dying
      /\ pool'[p].manager = pool[p].manager /\ pool'[p].detach = pool[p].detach
  BY <1>3, PoolFacts, EnterIdleFields
<1>5. \A o \in Pool : pool'[o].phase = pool[o].phase /\ pool'[o].refcnt = pool[o].refcnt
  BY <1>3, <1>4
<1>6. \A z \in Pwq : Queued(z)' = Queued(z)
  BY <1>1 DEF Queued
<1>7. InFlight(q)' = InFlight(q) \ {<<x, "running">>} /\ <<x, "running">> \in InFlight(q)
  <2>1. {y \in Work : <<y, q>> \in running'} = {y \in Work : <<y, q>> \in running} \ {x}
    BY <1>1
  <2>2. x \in {y \in Work : <<y, q>> \in running}
    OBVIOUS
  <2> QED BY <1>6, <2>1, <2>2 DEF InFlight
<1>8. \A z \in Pwq : z # q => InFlight(z)' = InFlight(z)
  <2>1. \A z \in Pwq : z # q =>
          {y \in Work : <<y, z>> \in running'} = {y \in Work : <<y, z>> \in running}
    BY <1>1
  <2> QED BY <1>6, <2>1 DEF InFlight
<1>9. /\ Cardinality(InFlight(q)') = Cardinality(InFlight(q)) - 1 /\ Cardinality(InFlight(q)) > 0
      /\ Cardinality(InFlight(q)) \in Nat /\ Cardinality(Holders(q)) \in Nat
  <2>1. Cardinality(InFlight(q)') = Cardinality(InFlight(q)) - 1
    BY <1>7, Finite, FS_RemoveElement DEF IInv
  <2>2. Cardinality(InFlight(q)) \in Nat /\ Cardinality(Holders(q)) \in Nat
    BY Finite, FS_CardinalityType DEF IInv
  <2>3. Cardinality(InFlight(q)) # 0
    BY <1>7, Finite, FS_EmptySet DEF IInv
  <2> QED BY <2>1, <2>2, <2>3
<1>10. pwq[q].refcnt > 0
  BY <1>9 DEF IInv, ReferencesExact
<1>11. /\ pwq' \in [Pwq -> PwqFields] /\ relq' \in Seq(Pwq)
       /\ \A z \in Pwq : /\ pwq'[z].phase = pwq[z].phase /\ pwq'[z].wq = pwq[z].wq
                         /\ pwq'[z].pool = pwq[z].pool /\ (pwq[z].phase = "none" => pwq'[z] = pwq[z])
  BY <1>1, <1>10, PutFacts
<1>12. TypeOK'
  BY <1>1, <1>2, <1>3, <1>11 DEF IInv, TypeOK
<1>13. Owners'
  BY <1>1, <1>11, SameOwners DEF IInv
<1>14. Places'
  BY <1>1, <1>5, <1>7, <1>8, <1>11 DEF IInv, Places
<1>15. ReferencesExact'
  <2>1. \A z : Holders(z)' = Holders(z)
    BY <1>1, SameHolders
  <2>2. UNCHANGED rel
    BY <1>1
  <2>3. Cardinality(Holders(q)') + Cardinality(InFlight(q)')
          = Cardinality(Holders(q)) + Cardinality(InFlight(q)) - 1
    BY <1>9, <2>1
  <2> QED BY <1>1, <1>5, <1>8, <1>10, <2>1, <2>2, <2>3, PutReferences
<1>16. ReleaseThread'
  BY <1>1, <1>5, <1>10, PutRelease
<1>17. \A o \in Pool : Attached(o)' = Attached(o)
  <2>1. Busy(p)' = Busy(p) \ {r} /\ r \in Busy(p)
    BY <1>1, <1>2, <1>11 DEF Busy
  <2>2. Cardinality(Busy(p)') = Cardinality(Busy(p)) - 1
    <3>1. IsFiniteSet(Busy(p))
      BY Finite DEF IInv
    <3> QED BY <2>1, <3>1, FS_RemoveElement
  <2>3. \A o \in Pool : o # p => Busy(o)' = Busy(o)
    BY <1>1, <1>2, <1>11 DEF Busy
  <2>4. Attached(p)' = Attached(p)
    <3>1. Managing(p)' = Managing(p)
      BY <1>4 DEF Managing
    <3>2. pool[p].idle \in Nat /\ pool[p].dying \in Nat
      BY PoolFacts DEF PoolFields
    <3>3. Managing(p) \in Nat
      BY DEF Managing
    <3>4. Cardinality(Busy(p)) \in Nat
      BY Finite, FS_CardinalityType DEF IInv
    <3> QED BY <1>4, <2>2, <3>1, <3>2, <3>3, <3>4 DEF Attached
  <2> QED BY <1>3, <2>3, <2>4, SameAttached
<1>18. PoolLife'
  <2>1. PoolLife
    BY DEF IInv
  <2>2. rel.pc \in Teardown => RelPool' = RelPool
    BY <1>1, <1>11 DEF IInv, TypeOK, ReleaseThread, RelPool, Teardown
  <2>3. rel.pc \in Teardown => p # RelPool
    BY DEF IInv, ReleaseThread
  <2>4. ASSUME NEW o \in Pool, o # p PROVE pool'[o] = pool[o] /\ Attached(o)' <= MaxWorkers + 1
    <3>1. Attached(o) <= MaxWorkers + 1
      BY <2>1 DEF PoolLife
    <3>2. Attached(o)' = Attached(o)
      BY <1>17
    <3> QED BY <3>1, <3>2, <2>4, <1>3
  <2>5. Attached(p)' <= MaxWorkers + 1
    BY <1>17, <2>1 DEF PoolLife
  <2>6. pool'[p].phase = "live" /\ pool'[p].refcnt > 0 /\ pool'[p].hashed /\ pool'[p].cookie = pool[p].cookie
    BY <1>4, <2>1 DEF PoolLife
  <2>7. pool'[p].manager # "release" /\ pool'[p].detach = "unset"
    BY <1>4, <2>1, <2>3 DEF PoolLife, Teardown
  <2>8. UNCHANGED rel
    BY <1>1
  <2> QED BY <2>1, <2>2, <2>3, <2>4, <2>5, <2>6, <2>7, <2>8 DEF PoolLife, Teardown
<1>19. Distinct'
  BY <1>3, <1>4 DEF IInv, Distinct
<1> QED BY <1>12, <1>13, <1>14, <1>15, <1>16, <1>18, <1>19 DEF IInv
-------------------------------------------------------------------------------
(* The owner of a workqueue.                                               *)

(* The pool that an installed pwq gets: one that is hashed, or a new one.  *)
LEMMA GetPool ==
  ASSUME IInv, NEW p \in Pool, NEW c \in Cookie, GetUnboundPool(p, c)
  PROVE  /\ pool' \in [Pool -> PoolFields] /\ \A o \in Pool : o # p => pool'[o] = pool[o]
         /\ pool'[p].phase = "live" /\ pool[p].refcnt \in Nat /\ pool'[p].refcnt = pool[p].refcnt + 1
         /\ pool'[p].hashed /\ pool'[p].manager # "release" /\ pool'[p].detach = "unset"
         /\ \A o \in Pool : o # p /\ pool[o].hashed => pool[o].cookie # pool'[p].cookie
         /\ \/ /\ pool[p].idle = pool'[p].idle /\ pool[p].dying = pool'[p].dying
               /\ pool[p].manager = pool'[p].manager
            \/ /\ pool'[p].idle = 1 /\ pool'[p].dying = 0 /\ pool'[p].manager = "none"
               /\ Busy(p) = {}
<1>1. pool \in [Pool -> PoolFields] /\ pool[p] \in PoolFields /\ pool[p].refcnt \in Nat
  BY DEF IInv, TypeOK, PoolFields
<1>2. PoolLife /\ Distinct
  BY DEF IInv
<1>3. CASE Matching(c) # {}
  <2>1. pool[p].hashed /\ pool[p].cookie = c /\ pool' = [pool EXCEPT ![p].refcnt = @ + 1]
    BY <1>3 DEF GetUnboundPool, Matching
  <2>2. pool[p].phase = "live" /\ pool[p].refcnt > 0
    BY <1>1, <1>2, <2>1 DEF PoolLife, NoPool, PoolFields
  <2>3. /\ pool' \in [Pool -> PoolFields] /\ \A o \in Pool : o # p => pool'[o] = pool[o]
        /\ pool'[p] = [pool[p] EXCEPT !.refcnt = @ + 1]
    BY <1>1, <2>1 DEF PoolFields
  <2>4. pool[p].manager # "release" /\ pool[p].detach = "unset"
    <3>1. rel.pc \in Teardown => pool[RelPool].refcnt = 0
      BY DEF IInv, ReleaseThread
    <3> QED BY <3>1, <2>2, <1>2 DEF PoolLife, Teardown
  <2>5. /\ pool'[p].idle = pool[p].idle /\ pool'[p].phase = pool[p].phase
        /\ pool'[p].cookie = pool[p].cookie /\ pool'[p].refcnt = pool[p].refcnt + 1
        /\ pool'[p].hashed = pool[p].hashed /\ pool'[p].dying = pool[p].dying
        /\ pool'[p].manager = pool[p].manager /\ pool'[p].detach = pool[p].detach
    BY <1>1, <2>3 DEF PoolFields
  <2>6. \A o \in Pool : o # p /\ pool[o].hashed => pool[o].cookie # pool[p].cookie
    BY <1>2, <2>1 DEF Distinct
  <2> QED BY <1>1, <2>1, <2>2, <2>3, <2>4, <2>5, <2>6
<1>4. CASE Matching(c) = {}
  <2>1. pool[p].phase = "none" /\ pool[p] = NoPool
    BY <1>2, <1>4 DEF GetUnboundPool, PoolLife
  <2>2. pool' = [pool EXCEPT ![p] = [NoPool EXCEPT !.phase = "live", !.cookie = c,
                                       !.refcnt = 1, !.hashed = TRUE, !.idle = 1]]
    BY <1>4 DEF GetUnboundPool
  <2>3. /\ pool' \in [Pool -> PoolFields] /\ \A o \in Pool : o # p => pool'[o] = pool[o]
        /\ pool'[p] = [NoPool EXCEPT !.phase = "live", !.cookie = c,
                         !.refcnt = 1, !.hashed = TRUE, !.idle = 1]
    BY <1>1, <2>2 DEF PoolFields, NoPool
  <2>4. Busy(p) = {}
    BY <2>1, Standing DEF NoPool
  <2>5. \A o \in Pool : o # p /\ pool[o].hashed => pool[o].cookie # c
    BY <1>4 DEF Matching
  <2> QED BY <2>1, <2>3, <2>4, <2>5 DEF NoPool
<1> QED BY <1>3, <1>4

(* A new default pwq is linked, in a pool found or made for its            *)
(* attributes.                                                             *)
LEMMA InstallStep ==
  ASSUME IInv, NEW w \in Wq, state[w] \in {"none", "live"}, dpc[w] = "out", wrlock = None,
         NEW q \in Pwq, NEW p \in Pool, NEW c \in Cookie, Install(w, q, p, c),
         applies' \in 0 .. MaxApplies, UNCHANGED <<dpc, putting, plock, workVars, relq, rel>>
  PROVE  IInv'
<1> USE DEF workVars
<1>1. /\ pwq[q].phase = "none"
      /\ pwq' = [pwq EXCEPT ![q] = [phase |-> "linked", pool |-> p, wq |-> w, refcnt |-> 1]]
      /\ dfl' = [dfl EXCEPT ![w] = q] /\ old' = [old EXCEPT ![w] = dfl[w]]
      /\ state' = [state EXCEPT ![w] = "apply"] /\ wrlock' = w
  BY DEF Install
<1>2. /\ pool' \in [Pool -> PoolFields] /\ \A o \in Pool : o # p => pool'[o] = pool[o]
      /\ pool'[p].phase = "live" /\ pool[p].refcnt \in Nat /\ pool'[p].refcnt = pool[p].refcnt + 1
      /\ pool'[p].hashed /\ pool'[p].manager # "release" /\ pool'[p].detach = "unset"
      /\ \A o \in Pool : o # p /\ pool[o].hashed => pool[o].cookie # pool'[p].cookie
  BY GetPool DEF Install
<1>3. /\ pwq \in [Pwq -> PwqFields] /\ dfl \in [Wq -> Pwq \cup {None}] /\ old \in [Wq -> Pwq \cup {None}]
      /\ state \in [Wq -> {"none", "live", "apply", "dead"}] /\ relq \in Seq(Pwq)
  BY DEF IInv, TypeOK
<1>4. rel.pc \notin Teardown
  BY LifeAssumption DEF IInv, ReleaseThread
<1>5. /\ pwq' \in [Pwq -> PwqFields] /\ \A z \in Pwq : z # q => pwq'[z] = pwq[z]
      /\ pwq'[q].phase = "linked" /\ pwq'[q].pool = p /\ pwq'[q].wq = w /\ pwq'[q].refcnt = 1
  BY <1>1, <1>3 DEF PwqFields
<1>6. /\ InFlight(q) = {} /\ Holders(q) = {} /\ rel.pwq # q /\ \A i \in 1 .. Len(relq) : relq[i] # q
  <2>1. InFlight(q) = {} /\ rel.pwq # q
    BY <1>1 DEF IInv, Places, ReleaseThread
  <2>2. Holders(q) = {}
    BY <1>1 DEF IInv, Owners, Holders
  <2>3. \A i \in 1 .. Len(relq) : relq[i] # q
    BY <1>1 DEF IInv, ReleaseThread
  <2> QED BY <2>1, <2>2, <2>3
<1>7. /\ dfl'[w] = q /\ old'[w] = dfl[w] /\ state'[w] = "apply" /\ old[w] = None /\ dfl[w] # q
      /\ \A v \in Wq : v # w => dfl'[v] = dfl[v] /\ old'[v] = old[v] /\ state'[v] = state[v]
  <2>1. old[w] = None
    BY DEF IInv, Owners
  <2>2. w \notin Holders(q)
    BY <1>6
  <2> QED BY <1>1, <1>3, <2>1, <2>2 DEF Holders
<1>8. Holders(q)' = {w} /\ \A z \in Pwq : z # q => Holders(z)' = Holders(z)
  <2>1. ASSUME NEW v \in Wq PROVE v \in Holders(q)' <=> v = w
    <3>1. v \notin Holders(q)
      BY <1>6
    <3> QED BY <1>7, <3>1 DEF Holders
  <2>2. ASSUME NEW z \in Pwq, z # q, NEW v \in Wq PROVE v \in Holders(z)' <=> v \in Holders(z)
    BY <1>7, <2>2, LifeAssumption DEF Holders
  <2>3. \A z \in Pwq : Holders(z) \subseteq Wq /\ Holders(z)' \subseteq Wq
    BY DEF Holders
  <2> QED BY <2>1, <2>2, <2>3
<1>9. \A z : InFlight(z)' = InFlight(z)
  BY DEF InFlight, Queued
<1>10. TypeOK'
  BY <1>1, <1>2, <1>3, <1>5 DEF IInv, TypeOK
<1>11. Owners'
  <2>1. ASSUME NEW v \in Wq, v # w
        PROVE  /\ dfl'[v] # None <=> state'[v] \in {"live", "apply"}
               /\ old'[v] # None => state'[v] = "apply" /\ old'[v] # dfl'[v]
               /\ dpc'[v] = "put" => state'[v] = "dead" /\ putting'[v] # None
               /\ state'[v] = "apply" => wrlock' = v
    <3>1. state[v] # "apply"
      BY LifeAssumption DEF IInv, Owners
    <3>2. /\ dfl'[v] = dfl[v] /\ old'[v] = old[v] /\ state'[v] = state[v]
          /\ dpc'[v] = dpc[v] /\ putting'[v] = putting[v]
      BY <1>7, <2>1
    <3> QED BY <3>1, <3>2 DEF IInv, Owners
  <2>2. /\ dfl'[w] # None /\ state'[w] = "apply" /\ (old'[w] # None => old'[w] # dfl'[w])
        /\ dpc'[w] # "put" /\ wrlock' = w
    BY <1>1, <1>7, LifeAssumption
  <2>3. ASSUME NEW v \in Wq, NEW z \in Pwq, v \in Holders(z)'
        PROVE  pwq'[z].phase = "linked" /\ pwq'[z].wq = v
    <3>1. CASE z = q
      BY <1>5, <1>8, <2>3, <3>1
    <3>2. CASE z # q
      <4>1. v \in Holders(z) /\ pwq'[z] = pwq[z]
        BY <1>5, <1>8, <2>3, <3>2
      <4> QED BY <4>1 DEF IInv, Owners
    <3> QED BY <3>1, <3>2
  <2> QED BY <2>1, <2>2, <2>3 DEF Owners
<1>12. Places'
  <2>1. ASSUME NEW z \in Pwq, z # q
        PROVE  /\ pwq'[z].phase = "none" => pwq'[z] = NoPwq
               /\ pwq'[z].phase # "none" => /\ pwq'[z].pool \in Pool /\ pwq'[z].wq \in Wq
                                            /\ state'[pwq'[z].wq] # "none"
               /\ pwq'[z].phase = "linked" => pool'[pwq'[z].pool].phase = "live"
               /\ pwq'[z].phase = "unlinked" <=> rel'.pwq = z /\ rel'.pc # "unlink"
               /\ InFlight(z)' # {} => pwq'[z].phase = "linked"
    <3>1. pwq'[z] = pwq[z] /\ InFlight(z)' = InFlight(z)
      BY <1>5, <1>9, <2>1
    <3>2. \A v \in Wq : state[v] # "none" => state'[v] # "none"
      BY <1>7
    <3>3. \A o \in Pool : pool[o].phase = "live" => pool'[o].phase = "live"
      BY <1>2
    <3>4. UNCHANGED rel
      OBVIOUS
    <3> QED BY <3>1, <3>2, <3>3, <3>4 DEF IInv, Places
  <2> QED BY <1>2, <1>5, <1>6, <1>7, <2>1 DEF Places
<1>13. ReferencesExact'
  <2>1. ReferencesExact
    BY DEF IInv
  <2>2. Cardinality(Holders(q)') = 1 /\ Cardinality(InFlight(q)') = 0
    BY <1>6, <1>8, <1>9, FS_Singleton, FS_EmptySet
  <2>3. \A z : InRelq(z)' <=> InRelq(z)
    BY DEF InRelq
  <2>4. ~InRelq(q)
    BY <1>6 DEF InRelq
  <2>5. ASSUME NEW z \in Pwq, z # q, pwq'[z].phase # "none"
        PROVE  /\ pwq'[z].refcnt = Cardinality(Holders(z)') + Cardinality(InFlight(z)')
               /\ (pwq'[z].refcnt = 0) <=> (rel'.pwq = z \/ InRelq(z)')
    BY <1>5, <1>8, <1>9, <2>1, <2>3, <2>5 DEF ReferencesExact
  <2>6. Counted(p)' = Counted(p) \cup {q} /\ q \notin Counted(p)
    BY <1>1, <1>5 DEF Counted
  <2>7. \A o \in Pool : o # p => Counted(o)' = Counted(o)
    BY <1>1, <1>5 DEF Counted
  <2>8. Cardinality(Counted(p)') = Cardinality(Counted(p)) + 1
    BY <2>6, Finite, FS_AddElement DEF IInv
  <2>9. \A o \in Pool : pool'[o].refcnt = Cardinality(Counted(o)')
    BY <1>2, <2>1, <2>7, <2>8 DEF ReferencesExact
  <2>10. /\ pwq'[q].refcnt = Cardinality(Holders(q)') + Cardinality(InFlight(q)')
         /\ (pwq'[q].refcnt = 0) <=> (rel'.pwq = q \/ InRelq(q)')
    BY <1>5, <1>6, <2>2, <2>3, <2>4
  <2> QED BY <2>5, <2>9, <2>10 DEF ReferencesExact
<1>14. ReleaseThread'
  <2>1. rel.pwq # q /\ (rel.pc # "pop" => rel.pwq \in Pwq /\ pwq'[rel.pwq] = pwq[rel.pwq])
    BY <1>5, <1>6 DEF IInv, TypeOK, ReleaseThread
  <2>2. rel.last => rel.pc # "pop"
    BY DEF IInv, ReleaseThread
  <2>3. rel.last => pwq[rel.pwq].wq # w
    BY DEF IInv, ReleaseThread
  <2>4. rel.last => pwq[rel.pwq].wq \in Wq
    BY <2>1, <2>2 DEF IInv, Places, ReleaseThread
  <2>5. rel.last => Linked(pwq[rel.pwq].wq)' = {}
    <3>1. rel.last => Linked(pwq[rel.pwq].wq) = {} /\ pwq'[rel'.pwq].wq = pwq[rel.pwq].wq
      BY <2>1, <2>2 DEF IInv, ReleaseThread
    <3> QED BY <2>3, <3>1, <1>5 DEF Linked
  <2>6. rel.last => state'[pwq'[rel'.pwq].wq] = "dead"
    BY <1>7, <2>1, <2>2, <2>3, <2>4 DEF IInv, ReleaseThread
  <2>7. \A i \in 1 .. Len(relq) : relq[i] \in Pwq
    <3>1. relq \in Seq(Pwq)
      BY <1>3
    <3> QED BY <3>1
  <2>8. ReleaseThread
    BY DEF IInv
  <2> QED BY <1>4, <1>5, <1>6, <2>1, <2>5, <2>6, <2>7, <2>8 DEF ReleaseThread, Teardown
<1>15. PoolLife'
  <2>1. PoolLife
    BY DEF IInv
  <2>2. \A o : Busy(o)' = Busy(o)
    <3>1. \A r \in running : pwq'[r[2]].pool = pwq[r[2]].pool
      BY <1>1, <1>5, Standing
    <3> QED BY <3>1, SameBusy DEF IInv
  <2>3. ASSUME NEW o \in Pool, o # p PROVE pool'[o] = pool[o] /\ Attached(o)' <= MaxWorkers + 1
    <3>1. Attached(o) <= MaxWorkers + 1
      BY <2>1 DEF PoolLife
    <3> QED BY <1>2, <2>2, <2>3, <3>1 DEF Attached, Managing
  <2>4. Attached(p)' <= MaxWorkers + 1
    <3>1. \/ /\ pool[p].idle = pool'[p].idle /\ pool[p].dying = pool'[p].dying
             /\ pool[p].manager = pool'[p].manager
          \/ /\ pool'[p].idle = 1 /\ pool'[p].dying = 0 /\ pool'[p].manager = "none" /\ Busy(p) = {}
      BY GetPool DEF Install
    <3>2. CASE /\ pool[p].idle = pool'[p].idle /\ pool[p].dying = pool'[p].dying
               /\ pool[p].manager = pool'[p].manager
      <4>1. Attached(p)' = Attached(p)
        BY <2>2, <3>2 DEF Attached, Managing
      <4> QED BY <4>1, <2>1 DEF PoolLife
    <3>3. CASE /\ pool'[p].idle = 1 /\ pool'[p].dying = 0 /\ pool'[p].manager = "none" /\ Busy(p) = {}
      <4>1. Attached(p)' = 1
        <5>1. Cardinality({}) = 0
          BY FS_EmptySet
        <5>2. Busy(p)' = {}
          BY <2>2, <3>3
        <5> QED BY <3>3, <5>1, <5>2 DEF Attached, Managing
      <4> QED BY <4>1, LifeAssumption
    <3> QED BY <3>1, <3>2, <3>3
  <2>5. ASSUME NEW o \in Pool, o # p
        PROVE  /\ pool[o].phase = "none" => pool[o] = NoPool
               /\ pool[o].hashed <=> pool[o].refcnt > 0
               /\ ~(pool[o].phase = "live" /\ pool[o].refcnt = 0)
               /\ pool[o].manager # "release" /\ pool[o].detach = "unset"
    BY <1>4, <2>1 DEF PoolLife, Teardown
  <2>6. pool'[p].refcnt > 0
    <3>1. pool[p].refcnt \in Nat /\ pool'[p].refcnt = pool[p].refcnt + 1
      BY <1>2
    <3> QED BY <3>1
  <2>7. rel'.pc \notin Teardown
    BY <1>4
  <2>8. /\ pool'[p].phase = "live" /\ pool'[p].hashed /\ pool'[p].manager # "release"
        /\ pool'[p].detach = "unset"
    BY <1>2
  <2>9. ASSUME NEW o \in Pool
        PROVE  /\ pool'[o].phase = "none" => pool'[o] = NoPool
               /\ pool'[o].hashed <=> pool'[o].refcnt > 0
               /\ ~(pool'[o].phase = "live" /\ pool'[o].refcnt = 0)
               /\ pool'[o].manager # "release" /\ pool'[o].detach = "unset"
               /\ Attached(o)' <= MaxWorkers + 1
    BY <2>3, <2>4, <2>5, <2>6, <2>8
  <2> QED BY <2>7, <2>9 DEF PoolLife, Teardown
<1>16. Distinct'
  <2>1. \A o \in Pool : o # p => pool'[o] = pool[o] /\ (pool[o].hashed => pool[o].cookie # pool'[p].cookie)
    BY <1>2
  <2> QED BY <2>1 DEF IInv, Distinct
<1> QED BY <1>10, <1>11, <1>12, <1>13, <1>14, <1>15, <1>16 DEF IInv

(* alloc_workqueue() links the first pwq, ...                              *)
LEMMA AllocWorkqueueStep == ASSUME IInv, NEW w \in Wq, AllocWorkqueue(w) PROVE IInv'
<1> PICK q \in Pwq, p \in Pool, c \in Cookie : Install(w, q, p, c)
  BY DEF AllocWorkqueue
<1>1. applies' \in 0 .. MaxApplies
  BY DEF AllocWorkqueue, IInv, TypeOK
<1> QED BY <1>1, InstallStep DEF AllocWorkqueue

(* ... and apply_workqueue_attrs() one more, the old one being kept until  *)
(* its reference is put.                                                   *)
LEMMA ApplyAttrsStep == ASSUME IInv, NEW w \in Wq, ApplyAttrs(w) PROVE IInv'
<1> PICK q \in Pwq, p \in Pool, c \in Cookie : Install(w, q, p, c)
  BY DEF ApplyAttrs
<1>1. applies' \in 0 .. MaxApplies
  <2>1. applies \in 0 .. MaxApplies /\ MaxApplies \in Nat
    BY LifeAssumption DEF IInv, TypeOK
  <2>2. applies < MaxApplies /\ applies' = applies + 1
    BY DEF ApplyAttrs
  <2> QED BY <2>1, <2>2
<1> QED BY <1>1, InstallStep DEF ApplyAttrs

(* The old default pwq is put; wq_pool_lock and the workqueue are free.    *)
LEMMA ApplyCleanupStep == ASSUME IInv, NEW w \in Wq, ApplyCleanup(w) PROVE IInv'
<1> USE DEF workVars
<1>1. /\ state[w] = "apply" /\ state' = [state EXCEPT ![w] = "live"]
      /\ old' = [old EXCEPT ![w] = None] /\ wrlock' = None
      /\ UNCHANGED <<dfl, dpc, putting, applies, pool, plock, at, running, rel>>
  BY DEF ApplyCleanup
<1>2. /\ dfl \in [Wq -> Pwq \cup {None}] /\ old \in [Wq -> Pwq \cup {None}]
      /\ state \in [Wq -> {"none", "live", "apply", "dead"}] /\ relq \in Seq(Pwq)
      /\ pwq \in [Pwq -> PwqFields]
  BY DEF IInv, TypeOK
<1>3. /\ wrlock = w /\ rel.pc \notin Teardown /\ dpc[w] # "put" /\ dfl[w] # None /\ old[w] # dfl[w]
  BY <1>1, LifeAssumption DEF IInv, Owners, ReleaseThread
<1>4. /\ state'[w] = "live" /\ old'[w] = None
      /\ \A v \in Wq : v # w => old'[v] = old[v] /\ state'[v] = state[v] /\ state[v] # "apply"
  BY <1>1, <1>2, <1>3 DEF IInv, Owners
<1>5. \A z : InFlight(z)' = InFlight(z)
  BY <1>1 DEF InFlight, Queued
<1>6. \A z \in Pwq : z # old[w] => Holders(z)' = Holders(z)
  <2>1. ASSUME NEW z \in Pwq, z # old[w], NEW v \in Wq PROVE v \in Holders(z)' <=> v \in Holders(z)
    BY <1>1, <1>4, <2>1, LifeAssumption DEF Holders
  <2>2. \A z \in Pwq : Holders(z) \subseteq Wq /\ Holders(z)' \subseteq Wq
    BY DEF Holders
  <2> QED BY <2>1, <2>2
<1>7. CASE old[w] = None
  <2>1. UNCHANGED <<pwq, relq>>
    BY <1>7 DEF ApplyCleanup
  <2>2. \A z \in Pwq : Holders(z)' = Holders(z)
    BY <1>6, <1>7, LifeAssumption
  <2>3. ReferencesExact'
    <3>1. \A z : InRelq(z)' <=> InRelq(z)
      BY <2>1 DEF InRelq
    <3>2. \A z : Counted(z)' = Counted(z)
      BY <2>1, SameCounted
    <3> QED BY <1>1, <1>5, <2>1, <2>2, <3>1, <3>2 DEF IInv, ReferencesExact
  <2>4. ReleaseThread'
    <3>1. \A v \in Wq : state[v] = "dead" => state'[v] = "dead"
      BY <1>1, <1>4
    <3>2. \A v : Linked(v)' = Linked(v)
      BY <2>1 DEF Linked
    <3>3. rel.last => pwq[rel.pwq].wq \in Wq
      BY DEF IInv, TypeOK, ReleaseThread, Places
    <3>4. rel.last => Linked(pwq[rel.pwq].wq)' = {}
      BY <1>1, <2>1, <3>2 DEF IInv, ReleaseThread, Linked
    <3>5. ReleaseThread /\ UNCHANGED <<pwq, relq, rel>>
      BY <1>1, <2>1 DEF IInv
    <3> QED BY <1>3, <3>1, <3>3, <3>4, <3>5 DEF ReleaseThread
  <2>5. pwq' = pwq
    BY <2>1
  <2>6. TypeOK'
    BY <1>1, <1>2, <2>1 DEF IInv, TypeOK
  <2>7. Owners'
    <3>1. Owners
      BY DEF IInv
    <3>2. \A v \in Wq : \A q \in Pwq : v \in Holders(q)' => pwq'[q].phase = "linked" /\ pwq'[q].wq = v
      BY <2>2, <2>5, <3>1 DEF Owners
    <3>3. \A v \in Wq : v # w => old[v] = None
      BY <1>4, <3>1 DEF Owners
    <3> QED BY <1>1, <1>3, <1>4, <3>1, <3>2, <3>3 DEF Owners
  <2>8. Places'
    BY <1>1, <1>4, <1>5, <2>5 DEF IInv, Places
  <2>9. PoolLife' /\ Distinct'
    BY <1>1, <2>5, SamePools
  <2> QED BY <2>3, <2>4, <2>6, <2>7, <2>8, <2>9 DEF IInv
<1>8. CASE old[w] # None
  <2> PICK q \in Pwq : q = old[w]
    BY <1>2, <1>8
  <2>1. PutPwq(pwq, q)
    BY <1>8 DEF ApplyCleanup
  <2>2. w \in Holders(q) /\ pwq[q].phase = "linked" /\ pwq[q].wq = w
    BY DEF IInv, Owners, Holders
  <2>3. Holders(q)' = {} /\ Holders(q) = {w}
    <3>1. ASSUME NEW v \in Wq, v # w PROVE v \notin Holders(q)
      BY <2>2, <3>1 DEF IInv, Owners
    <3>2. ASSUME NEW v \in Wq PROVE v \notin Holders(q)'
      BY <1>1, <1>3, <1>4, <3>1, LifeAssumption DEF Holders
    <3>3. Holders(q) \subseteq Wq /\ Holders(q)' \subseteq Wq
      BY DEF Holders
    <3> QED BY <2>2, <3>1, <3>2, <3>3
  <2>4. /\ Cardinality(Holders(q)') = 0 /\ Cardinality(Holders(q)) = 1
        /\ Cardinality(InFlight(q)) \in Nat
    BY <2>3, FS_EmptySet, FS_Singleton, Finite, FS_CardinalityType DEF IInv
  <2>5. pwq[q].refcnt > 0
    BY <2>2, <2>4 DEF IInv, ReferencesExact
  <2>6. /\ pwq' \in [Pwq -> PwqFields] /\ relq' \in Seq(Pwq)
        /\ \A z \in Pwq : /\ pwq'[z].phase = pwq[z].phase /\ pwq'[z].wq = pwq[z].wq
                          /\ pwq'[z].pool = pwq[z].pool
                          /\ (pwq[z].phase = "none" => pwq'[z] = pwq[z])
    BY <2>1, <2>2, <2>5, PutFacts
  <2>7. TypeOK'
    BY <1>1, <1>2, <2>6 DEF IInv, TypeOK
  <2>8. Owners'
    <3>1. Owners
      BY DEF IInv
    <3>2. \A v \in Wq : \A z \in Pwq : v \in Holders(z)' => v \in Holders(z)
      BY <1>6, <2>3
    <3>3. \A v \in Wq : \A z \in Pwq : v \in Holders(z)' => pwq'[z].phase = "linked" /\ pwq'[z].wq = v
      BY <2>6, <3>1, <3>2 DEF Owners
    <3>4. \A v \in Wq : v # w => old[v] = None
      BY <1>4, <3>1 DEF Owners
    <3> QED BY <1>1, <1>3, <1>4, <3>1, <3>3, <3>4 DEF Owners
  <2>9. Places'
    <3>1. \A v \in Wq : state[v] # "none" => state'[v] # "none"
      BY <1>4
    <3> QED BY <1>1, <1>5, <2>6, <3>1 DEF IInv, Places
  <2>10. ReferencesExact'
    <3>1. Cardinality(Holders(q)') + Cardinality(InFlight(q)')
            = Cardinality(Holders(q)) + Cardinality(InFlight(q)) - 1
      BY <1>5, <2>4
    <3>2. UNCHANGED <<rel, pool>> /\ q = old[w]
      BY <1>1
    <3> QED BY <1>5, <1>6, <2>1, <2>2, <2>5, <3>1, <3>2, PutReferences
  <2>11. ReleaseThread'
    <3>1. \A v \in Wq : state[v] = "dead" => state'[v] = "dead"
      BY <1>1, <1>4
    <3> QED BY <1>1, <1>3, <2>1, <2>2, <2>5, <3>1, PutRelease
  <2>12. PoolLife' /\ Distinct'
    BY <1>1, <2>6, SamePools
  <2> QED BY <2>7, <2>8, <2>9, <2>10, <2>11, <2>12 DEF IInv
<1> QED BY <1>7, <1>8

(* The default pwq passes from the workqueue to its destroyer.             *)
LEMMA DestroyStep == ASSUME IInv, NEW w \in Wq, Destroy(w) PROVE IInv'
<1> USE DEF workVars
<1>1. /\ state[w] = "live" /\ dpc[w] = "out" /\ wrlock = None
      /\ state' = [state EXCEPT ![w] = "dead"] /\ putting' = [putting EXCEPT ![w] = dfl[w]]
      /\ dfl' = [dfl EXCEPT ![w] = None] /\ dpc' = [dpc EXCEPT ![w] = "put"]
      /\ UNCHANGED <<old, applies, pwq, pool, plock, at, running, relq, rel, wrlock>>
  BY DEF Destroy
<1>2. /\ dfl \in [Wq -> Pwq \cup {None}] /\ old \in [Wq -> Pwq \cup {None}]
      /\ putting \in [Wq -> Pwq \cup {None}] /\ dpc \in [Wq -> {"out", "put", "unlock"}]
      /\ state \in [Wq -> {"none", "live", "apply", "dead"}]
  BY DEF IInv, TypeOK
<1>3. /\ dfl[w] # None /\ old[w] = None
  BY <1>1 DEF IInv, Owners
<1>4. /\ state'[w] = "dead" /\ putting'[w] = dfl[w] /\ dfl'[w] = None /\ dpc'[w] = "put"
      /\ \A v \in Wq : v # w => /\ state'[v] = state[v] /\ putting'[v] = putting[v]
                                /\ dfl'[v] = dfl[v] /\ dpc'[v] = dpc[v]
  BY <1>1, <1>2
<1>5. \A z : InFlight(z)' = InFlight(z) /\ Counted(z)' = Counted(z) /\ (InRelq(z)' <=> InRelq(z))
  BY <1>1 DEF InFlight, Queued, Counted, InRelq
<1>6. \A z \in Pwq : Holders(z)' = Holders(z)
  <2>1. ASSUME NEW z \in Pwq, NEW v \in Wq PROVE v \in Holders(z)' <=> v \in Holders(z)
    BY <1>1, <1>3, <1>4, <2>1, LifeAssumption DEF Holders
  <2>2. \A z \in Pwq : Holders(z) \subseteq Wq /\ Holders(z)' \subseteq Wq
    BY DEF Holders
  <2> QED BY <2>1, <2>2
<1>7. TypeOK'
  BY <1>1, <1>2 DEF IInv, TypeOK
<1>8. Owners'
  <2>1. Owners
    BY DEF IInv
  <2>2. \A v \in Wq : \A q \in Pwq : v \in Holders(q)' => pwq'[q].phase = "linked" /\ pwq'[q].wq = v
    BY <1>1, <1>6, <2>1 DEF Owners
  <2> QED BY <1>1, <1>3, <1>4, <2>1, <2>2 DEF Owners
<1>9. Places'
  BY <1>1, <1>4, <1>5 DEF IInv, Places
<1>10. ReferencesExact'
  BY <1>1, <1>5, <1>6 DEF IInv, ReferencesExact
<1>11. ReleaseThread'
  <2>1. \A v \in Wq : state[v] = "dead" => state'[v] = "dead"
    BY <1>1, <1>4
  <2>2. rel.last => pwq[rel.pwq].wq \in Wq
    BY DEF IInv, TypeOK, ReleaseThread, Places
  <2>3. rel.last => Linked(pwq[rel.pwq].wq)' = {}
    BY <1>1 DEF IInv, ReleaseThread, Linked
  <2>4. RelPool' = RelPool
    BY <1>1 DEF RelPool
  <2> QED BY <1>1, <2>1, <2>2, <2>3, <2>4 DEF IInv, ReleaseThread
<1>12. PoolLife' /\ Distinct'
  BY <1>1, SamePools
<1> QED BY <1>7, <1>8, <1>9, <1>10, <1>11, <1>12 DEF IInv

(* destroy_workqueue() puts the base reference under the pool's lock, ...  *)
LEMMA DestroyPutStep == ASSUME IInv, NEW w \in Wq, DestroyPut(w) PROVE IInv'
<1> USE DEF workVars
<1> PICK q \in Pwq : q = putting[w]
  BY DEF DestroyPut, IInv, TypeOK, Owners
<1>1. /\ dpc[w] = "put" /\ plock' = [plock EXCEPT ![pwq[q].pool] = w] /\ PutPwq(pwq, q)
      /\ dpc' = [dpc EXCEPT ![w] = "unlock"]
      /\ UNCHANGED <<state, dfl, old, putting, applies, pool, at, running, rel, wrlock>>
  BY DEF DestroyPut
<1>2. /\ dpc \in [Wq -> {"out", "put", "unlock"}] /\ plock \in [Pool -> Wq \cup {None}]
  BY DEF IInv, TypeOK
<1>3. /\ state[w] = "dead" /\ dfl[w] = None /\ old[w] = None
  BY <1>1 DEF IInv, Owners
<1>4. /\ dpc'[w] = "unlock" /\ \A v \in Wq : v # w => dpc'[v] = dpc[v]
  BY <1>1, <1>2
<1>5. \A z : InFlight(z)' = InFlight(z)
  BY <1>1 DEF InFlight, Queued
<1>6. w \in Holders(q) /\ pwq[q].phase = "linked" /\ pwq[q].wq = w
  BY <1>1 DEF IInv, Owners, Holders
<1>7. Holders(q)' = {} /\ Holders(q) = {w} /\ \A z \in Pwq : z # q => Holders(z)' = Holders(z)
  <2>1. ASSUME NEW v \in Wq, v # w PROVE v \notin Holders(q)
    BY <1>6, <2>1 DEF IInv, Owners
  <2>2. ASSUME NEW v \in Wq PROVE v \notin Holders(q)'
    BY <1>1, <1>3, <1>4, <2>1, LifeAssumption DEF Holders
  <2>3. ASSUME NEW z \in Pwq, z # q, NEW v \in Wq PROVE v \in Holders(z)' <=> v \in Holders(z)
    BY <1>1, <1>4, <2>3 DEF Holders
  <2>4. \A z \in Pwq : Holders(z) \subseteq Wq /\ Holders(z)' \subseteq Wq
    BY DEF Holders
  <2> QED BY <1>6, <2>1, <2>2, <2>3, <2>4
<1>8. /\ Cardinality(Holders(q)') = 0 /\ Cardinality(Holders(q)) = 1
      /\ Cardinality(InFlight(q)) \in Nat
  BY <1>7, FS_EmptySet, FS_Singleton, Finite, FS_CardinalityType DEF IInv
<1>9. pwq[q].refcnt > 0
  BY <1>6, <1>8 DEF IInv, ReferencesExact
<1>10. /\ pwq' \in [Pwq -> PwqFields] /\ relq' \in Seq(Pwq)
       /\ \A z \in Pwq : /\ pwq'[z].phase = pwq[z].phase /\ pwq'[z].wq = pwq[z].wq
                         /\ pwq'[z].pool = pwq[z].pool
                         /\ (pwq[z].phase = "none" => pwq'[z] = pwq[z])
  BY <1>1, <1>6, <1>9, PutFacts
<1>11. TypeOK'
  BY <1>1, <1>2, <1>10 DEF IInv, TypeOK
<1>12. Owners'
  <2>1. Owners
    BY DEF IInv
  <2>2. \A v \in Wq : \A z \in Pwq : v \in Holders(z)' => v \in Holders(z)
    BY <1>7
  <2>3. \A v \in Wq : \A z \in Pwq : v \in Holders(z)' => pwq'[z].phase = "linked" /\ pwq'[z].wq = v
    BY <1>10, <2>1, <2>2 DEF Owners
  <2> QED BY <1>1, <1>4, <2>1, <2>3 DEF Owners
<1>13. Places'
  BY <1>1, <1>5, <1>10 DEF IInv, Places
<1>14. ReferencesExact'
  <2>1. Cardinality(Holders(q)') + Cardinality(InFlight(q)')
          = Cardinality(Holders(q)) + Cardinality(InFlight(q)) - 1
    BY <1>5, <1>8
  <2>2. UNCHANGED <<rel, pool>>
    BY <1>1
  <2> QED BY <1>1, <1>5, <1>6, <1>7, <1>9, <2>1, <2>2, PutReferences
<1>15. ReleaseThread'
  BY <1>1, <1>6, <1>9, PutRelease
<1>16. PoolLife' /\ Distinct'
  BY <1>1, <1>10, SamePools
<1> QED BY <1>11, <1>12, <1>13, <1>14, <1>15, <1>16 DEF IInv

(* ... which it drops after that.                                          *)
LEMMA DestroyUnlockStep == ASSUME IInv, NEW w \in Wq, DestroyUnlock(w) PROVE IInv'
<1> USE DEF workVars
<1>1. /\ dpc[w] = "unlock" /\ plock' = [p \in Pool |-> IF plock[p] = w THEN None ELSE plock[p]]
      /\ dpc' = [dpc EXCEPT ![w] = "out"] /\ putting' = [putting EXCEPT ![w] = None]
      /\ UNCHANGED <<state, dfl, old, applies, pwq, pool, at, running, relq, rel, wrlock>>
  BY DEF DestroyUnlock
<1>2. /\ dpc \in [Wq -> {"out", "put", "unlock"}] /\ putting \in [Wq -> Pwq \cup {None}]
      /\ plock \in [Pool -> Wq \cup {None}]
  BY DEF IInv, TypeOK
<1>3. /\ dpc'[w] = "out" /\ \A v \in Wq : v # w => dpc'[v] = dpc[v] /\ putting'[v] = putting[v]
  BY <1>1, <1>2
<1>4. \A z \in Pwq : Holders(z)' = Holders(z)
  <2>1. ASSUME NEW z \in Pwq, NEW v \in Wq PROVE v \in Holders(z)' <=> v \in Holders(z)
    BY <1>1, <1>3 DEF Holders
  <2>2. \A z \in Pwq : Holders(z) \subseteq Wq /\ Holders(z)' \subseteq Wq
    BY DEF Holders
  <2> QED BY <2>1, <2>2
<1>5. \A z : InFlight(z)' = InFlight(z) /\ Counted(z)' = Counted(z) /\ (InRelq(z)' <=> InRelq(z))
  BY <1>1 DEF InFlight, Queued, Counted, InRelq
<1>6. TypeOK'
  <2>1. plock' \in [Pool -> Wq \cup {None}]
    BY <1>1, <1>2
  <2> QED BY <1>1, <1>2, <2>1 DEF IInv, TypeOK
<1>7. Owners'
  <2>1. Owners
    BY DEF IInv
  <2>2. \A v \in Wq : \A q \in Pwq : v \in Holders(q)' => pwq'[q].phase = "linked" /\ pwq'[q].wq = v
    BY <1>1, <1>4, <2>1 DEF Owners
  <2> QED BY <1>1, <1>3, <2>1, <2>2 DEF Owners
<1>8. Places'
  BY <1>1, <1>5 DEF IInv, Places
<1>9. ReferencesExact'
  BY <1>1, <1>4, <1>5 DEF IInv, ReferencesExact
<1>10. ReleaseThread'
  BY <1>1, SameRelease DEF IInv
<1>11. PoolLife' /\ Distinct'
  BY <1>1, SamePools
<1> QED BY <1>6, <1>7, <1>8, <1>9, <1>10, <1>11 DEF IInv
-------------------------------------------------------------------------------
(* The release thread.                                                     *)

(* The release thread takes a pwq off its queue.                           *)
LEMMA PopStep == ASSUME IInv, Pop PROVE IInv'
<1> USE DEF wqVars, workVars
<1> PICK q \in Pwq : q = Head(relq)
  BY DEF Pop, IInv, TypeOK
<1>1. /\ rel.pc = "pop" /\ relq # <<>> /\ relq' = Tail(relq)
      /\ rel' = [rel EXCEPT !.pc = "unlink", !.pwq = q]
      /\ UNCHANGED <<wqVars, pwq, pool, plock, workVars, wrlock>>
  BY DEF Pop
<1>2. relq \in Seq(Pwq) /\ rel \in [pc : {"pop", "unlink", "manager", "attach", "wait", "timer", "free"},
                                   pwq : Pwq \cup {None}, last : BOOLEAN]
  BY DEF IInv, TypeOK
<1>3. ReleaseThread
  BY DEF IInv
<1>4. rel'.pc = "unlink" /\ rel'.pwq = q /\ rel'.last = rel.last /\ rel.pwq = None /\ ~rel.last
  BY <1>1, <1>2, <1>3 DEF ReleaseThread
<1>5. /\ relq' \in Seq(Pwq) /\ Len(relq) \in Nat /\ Len(relq) > 0 /\ Len(relq') = Len(relq) - 1
      /\ q = relq[1] /\ \A i \in 1 .. Len(relq') : relq'[i] = relq[i + 1]
  BY <1>1, <1>2
<1>6. \A i \in 1 .. Len(relq) : relq[i] \in Pwq
  BY <1>2
<1>7. pwq[q].phase = "linked" /\ InRelq(q)
  BY <1>3, <1>5 DEF ReleaseThread, InRelq
<1>8. \A i \in 1 .. Len(relq') : i + 1 \in 1 .. Len(relq) /\ i + 1 # 1
  BY <1>5
<1>9. \A i \in 1 .. Len(relq') : relq'[i] # q /\ relq'[i] \in Pwq /\ pwq[relq'[i]].phase = "linked"
  <2>1. \A i, j \in 1 .. Len(relq) : relq[i] = relq[j] => i = j
    BY <1>3 DEF ReleaseThread
  <2>2. 1 \in 1 .. Len(relq)
    BY <1>5
  <2>3. \A i \in 1 .. Len(relq') : relq'[i] = relq[i + 1] /\ relq[i + 1] # q
    BY <1>5, <1>8, <2>1, <2>2
  <2>4. \A i \in 1 .. Len(relq) : pwq[relq[i]].phase = "linked"
    BY <1>3 DEF ReleaseThread
  <2> QED BY <1>6, <1>8, <2>3, <2>4
<1>10. \A z \in Pwq : rel'.pwq = z \/ InRelq(z)' <=> rel.pwq = z \/ InRelq(z)
  <2>1. ASSUME NEW z \in Pwq, InRelq(z), z # q PROVE InRelq(z)'
    <3> PICK i \in 1 .. Len(relq) : relq[i] = z
      BY <2>1 DEF InRelq
    <3>1. i # 1 /\ i - 1 \in 1 .. Len(relq') /\ (i - 1) + 1 = i
      BY <1>5, <2>1
    <3>2. relq'[i - 1] = z
      BY <1>5, <3>1
    <3> QED BY <3>1, <3>2 DEF InRelq
  <2>2. ASSUME NEW z \in Pwq, InRelq(z)' PROVE InRelq(z)
    BY <1>5, <1>8, <2>2 DEF InRelq
  <2> QED BY <1>4, <1>7, <2>1, <2>2, LifeAssumption
<1>11. TypeOK'
  BY <1>1, <1>2, <1>5 DEF IInv, TypeOK
<1>12. Owners'
  BY <1>1, SameOwners DEF IInv
<1>13. \A z : InFlight(z)' = InFlight(z) /\ Holders(z)' = Holders(z) /\ Counted(z)' = Counted(z)
  BY <1>1 DEF InFlight, Queued, Holders, Counted
<1>14. Places'
  BY <1>1, <1>4, <1>7, <1>13, LifeAssumption DEF IInv, Places
<1>15. ReferencesExact'
  BY <1>1, <1>10, <1>13 DEF IInv, ReferencesExact
<1>16. ReleaseThread'
  <2>1. \A i, j \in 1 .. Len(relq') : relq'[i] = relq'[j] => i = j
    <3>1. \A i, j \in 1 .. Len(relq') : relq[i + 1] = relq[j + 1] => i + 1 = j + 1
      BY <1>3, <1>8 DEF ReleaseThread
    <3> QED BY <3>1, <1>5
  <2> QED BY <1>1, <1>4, <1>7, <1>9, <2>1, LifeAssumption DEF ReleaseThread, Teardown
<1>17. PoolLife'
  <2>1. \A p \in Pool : Attached(p)' = Attached(p)
    BY <1>1, SameBusy DEF IInv, Attached, Managing
  <2> QED BY <1>1, <1>4, <2>1 DEF IInv, PoolLife, Teardown
<1>18. Distinct'
  BY <1>1 DEF IInv, Distinct
<1> QED BY <1>11, <1>12, <1>14, <1>15, <1>16, <1>17, <1>18 DEF IInv

(* The pwq leaves its workqueue and its pool; the last to leave a pool     *)
(* starts the teardown.                                                    *)
LEMMA UnlinkStep == ASSUME IInv, Unlink PROVE IInv'
<1> USE DEF wqVars, workVars
<1> PICK q \in Pwq : q = rel.pwq
  BY DEF Unlink, IInv, TypeOK, ReleaseThread
<1>1. ReleaseThread /\ PoolLife /\ Places /\ ReferencesExact /\ Owners
  BY DEF IInv
<1>2. rel.pc = "unlink" /\ pwq[q].phase = "linked" /\ ~rel.last
  BY <1>1 DEF Unlink, ReleaseThread
<1> PICK p \in Pool : p = RelPool /\ p = pwq[q].pool /\ pool[p].phase = "live" /\ pool[p].refcnt > 0
  BY <1>2, Standing DEF RelPool
<1> PICK w \in Wq : w = pwq[q].wq /\ state[w] # "none"
  BY <1>2, Standing
<1>3. /\ wrlock = None
      /\ pwq' = [pwq EXCEPT ![q].phase = "unlinked"]
      /\ pool' = [pool EXCEPT ![p].refcnt = @ - 1, ![p].hashed = @ /\ pool[p].refcnt > 1]
      /\ rel' = [rel EXCEPT !.last = (Linked(w) = {q}),
                            !.pc = IF pool[p].refcnt = 1 THEN "manager" ELSE "free"]
      /\ wrlock' = IF pool[p].refcnt = 1 THEN "release" ELSE None
      /\ UNCHANGED <<wqVars, plock, workVars, relq>>
  BY DEF Unlink
<1>4. /\ pwq \in [Pwq -> PwqFields] /\ relq \in Seq(Pwq)
      /\ rel \in [pc : {"pop", "unlink", "manager", "attach", "wait", "timer", "free"},
                  pwq : Pwq \cup {None}, last : BOOLEAN]
  BY DEF IInv, TypeOK
<1>5. /\ pwq' \in [Pwq -> PwqFields] /\ pwq'[q].phase = "unlinked"
      /\ \A z \in Pwq : z # q => pwq'[z] = pwq[z]
      /\ \A z \in Pwq : pwq'[z].wq = pwq[z].wq /\ pwq'[z].pool = pwq[z].pool
                        /\ pwq'[z].refcnt = pwq[z].refcnt
  BY <1>3, <1>4 DEF PwqFields
<1>6. /\ rel'.pwq = q /\ (rel'.last <=> Linked(w) = {q}) /\ rel'.last \in BOOLEAN
      /\ rel'.pc = (IF pool[p].refcnt = 1 THEN "manager" ELSE "free")
  BY <1>3, <1>4
<1>7. /\ pool[p].refcnt \in Nat /\ pool[p].refcnt - 1 \in Nat /\ pool[p].hashed
      /\ pool[p].manager # "release" /\ pool[p].detach = "unset"
  BY <1>1, <1>2, PoolFacts DEF PoolFields, PoolLife, Teardown
<1> DEFINE g == [pool[p] EXCEPT !.refcnt = @ - 1, !.hashed = (pool[p].refcnt > 1)]
<1>8. g \in PoolFields
  <2>1. ASSUME NEW n \in Nat, NEW b \in BOOLEAN PROVE [pool[p] EXCEPT !.refcnt = n, !.hashed = b] \in PoolFields
    BY PoolFacts, Assigned
  <2>2. (pool[p].refcnt > 1) \in BOOLEAN
    BY <1>7
  <2> QED BY <1>7, <2>1, <2>2
<1>9. pool' = [pool EXCEPT ![p] = g]
  <2>1. (pool[p].hashed /\ pool[p].refcnt > 1) = (pool[p].refcnt > 1)
    BY <1>7
  <2> QED BY <1>3, <1>7, <2>1, PoolFacts DEF PoolFields
<1>10. /\ g.refcnt = pool[p].refcnt - 1 /\ (g.hashed <=> pool[p].refcnt > 1)
       /\ g.idle = pool[p].idle /\ g.phase = pool[p].phase /\ g.cookie = pool[p].cookie
       /\ g.dying = pool[p].dying /\ g.manager = pool[p].manager /\ g.detach = pool[p].detach
  BY PoolFacts DEF PoolFields
<1> HIDE DEF g
<1>11. /\ pool' \in [Pool -> PoolFields] /\ \A o \in Pool : o # p => pool'[o] = pool[o]
       /\ pool'[p] = g
  BY <1>8, <1>9, PoolFacts
<1>12. pwq[q].refcnt = 0 /\ Cardinality(Holders(q)) = 0 /\ Cardinality(InFlight(q)) = 0
  <2>1. Cardinality(Holders(q)) \in Nat /\ Cardinality(InFlight(q)) \in Nat
    BY Finite, FS_CardinalityType DEF IInv
  <2> QED BY <1>1, <1>2, <2>1 DEF ReferencesExact
<1>13. Holders(q) = {} /\ InFlight(q) = {}
  BY <1>12, Finite, FS_EmptySet DEF IInv
<1>14. \A z : InFlight(z)' = InFlight(z) /\ Holders(z)' = Holders(z) /\ (InRelq(z)' <=> InRelq(z))
  BY <1>3 DEF InFlight, Queued, Holders, InRelq
<1>15. TypeOK'
  <2>1. rel' \in [pc : {"pop", "unlink", "manager", "attach", "wait", "timer", "free"},
                  pwq : Pwq \cup {None}, last : BOOLEAN]
    BY <1>3, <1>4
  <2>2. wrlock' \in Wq \cup {None, "release"}
    BY <1>3
  <2> QED BY <1>3, <1>4, <1>5, <1>11, <2>1, <2>2 DEF IInv, TypeOK
<1>16. Owners'
  <2>1. \A v \in Wq : \A z \in Pwq : v \in Holders(z)' => pwq'[z].phase = "linked" /\ pwq'[z].wq = v
    BY <1>1, <1>5, <1>13, <1>14 DEF Owners
  <2>2. \A v \in Wq : state[v] # "apply"
    BY <1>1, <1>3, LifeAssumption DEF Owners
  <2> QED BY <1>1, <1>3, <2>1, <2>2 DEF Owners
<1>17. Places'
  <2>1. \A z \in Pwq : z # q => pwq[z].phase # "unlinked"
    BY <1>1, <1>2 DEF Places
  <2>2. \A o \in Pool : pool'[o].phase = pool[o].phase
    BY <1>10, <1>11
  <2>3. rel'.pc # "unlink"
    BY <1>6
  <2>4. UNCHANGED state
    BY <1>3
  <2>5. ASSUME NEW z \in Pwq, z # q
        PROVE  /\ pwq'[z].phase = "none" => pwq'[z] = NoPwq
               /\ pwq'[z].phase # "none" => /\ pwq'[z].pool \in Pool /\ pwq'[z].wq \in Wq
                                            /\ state'[pwq'[z].wq] # "none"
               /\ pwq'[z].phase = "linked" => pool'[pwq'[z].pool].phase = "live"
               /\ pwq'[z].phase = "unlinked" <=> rel'.pwq = z /\ rel'.pc # "unlink"
               /\ InFlight(z)' # {} => pwq'[z].phase = "linked"
    BY <1>1, <1>5, <1>6, <1>14, <2>1, <2>2, <2>4, <2>5 DEF Places
  <2> QED BY <1>5, <1>6, <1>13, <1>14, <2>3, <2>4, <2>5 DEF Places
<1>18. ReferencesExact'
  <2>1. Counted(p)' = Counted(p) \ {q} /\ q \in Counted(p)
    BY <1>2, <1>5 DEF Counted
  <2>2. Cardinality(Counted(p)') = Cardinality(Counted(p)) - 1
    BY <2>1, Finite, FS_RemoveElement DEF IInv
  <2>3. \A o \in Pool : o # p => Counted(o)' = Counted(o)
    BY <1>2, <1>5 DEF Counted
  <2>4. \A o \in Pool : pool'[o].refcnt = Cardinality(Counted(o)')
    BY <1>1, <1>10, <1>11, <2>2, <2>3 DEF ReferencesExact
  <2>5. \A z \in Pwq : pwq'[z].phase # "none" => pwq[z].phase # "none"
    BY <1>2, <1>5
  <2>6. rel'.pwq = rel.pwq
    BY <1>6
  <2> QED BY <1>1, <1>5, <1>14, <2>4, <2>5, <2>6 DEF ReferencesExact
<1>19. ReleaseThread'
  <2>1. rel'.last => state'[pwq'[rel'.pwq].wq] = "dead"
    <3>1. ASSUME rel'.last PROVE state[w] = "dead"
      <4>1. Linked(w) = {q}
        BY <1>6, <3>1
      <4>2. CASE dfl[w] # None
        <5> PICK d \in Pwq : d = dfl[w]
          BY <4>2 DEF IInv, TypeOK
        <5>1. w \in Holders(d) /\ d \in Linked(w)
          BY <1>1 DEF Owners, Holders, Linked
        <5> QED BY <5>1, <4>1, <1>13
      <4>3. CASE dfl[w] = None
        <5>1. state[w] \in {"none", "live", "apply", "dead"}
          BY DEF IInv, TypeOK
        <5> QED BY <5>1, <4>3, <1>1 DEF Owners
      <4> QED BY <4>2, <4>3
    <3> QED BY <3>1, <1>3, <1>5, <1>6
  <2>2. rel'.last => Linked(pwq[rel.pwq].wq)' = {}
    <3>1. ASSUME rel'.last, NEW z \in Pwq PROVE ~(pwq'[z].phase = "linked" /\ pwq'[z].wq = w)
      <4>1. Linked(w) = {q}
        BY <1>6, <3>1
      <4> QED BY <4>1, <1>5 DEF Linked
    <3>2. pwq'[rel'.pwq].wq = w
      BY <1>5, <1>6
    <3> QED BY <3>1, <3>2 DEF Linked
  <2>3. (RelPool = p)' /\ RelPool' \in Pool
    BY <1>5, <1>6 DEF RelPool
  <2>4. rel'.pc \in Teardown => /\ wrlock' = "release" /\ pool'[p].phase = "live"
                                /\ pool'[p].refcnt = 0
    <3>1. rel'.pc \in Teardown => pool[p].refcnt = 1
      BY <1>6 DEF Teardown
    <3>2. pool'[p].phase = "live" /\ pool'[p].refcnt = pool[p].refcnt - 1
      BY <1>10, <1>11
    <3>3. pool[p].refcnt = 1 => wrlock' = "release"
      BY <1>3
    <3> QED BY <3>1, <3>2, <3>3
  <2>5. \A i \in 1 .. Len(relq) : relq[i] \in Pwq
    BY <1>4
  <2>6. \A i \in 1 .. Len(relq) : relq[i] # q /\ pwq'[relq[i]].phase = "linked"
    BY <1>1, <1>5, <2>5 DEF ReleaseThread
  <2>7. rel'.pc \notin {"pop", "unlink"} /\ rel'.pwq # None
    BY <1>6, LifeAssumption
  <2>8. UNCHANGED relq
    BY <1>3
  <2> QED BY <1>1, <1>6, <2>1, <2>2, <2>3, <2>4, <2>6, <2>7, <2>8 DEF ReleaseThread
<1>20. PoolLife'
  <2>1. \A o \in Pool : Attached(o)' = Attached(o)
    <3>1. \A o : Busy(o)' = Busy(o)
      <4>1. \A r \in running : pwq'[r[2]].pool = pwq[r[2]].pool
        BY <1>5, Standing
      <4> QED BY <1>3, <4>1, SameBusy DEF IInv
    <3> QED BY <3>1, <1>10, <1>11 DEF Attached, Managing
  <2>2. (RelPool = p)'
    BY <1>5, <1>6 DEF RelPool
  <2>3. ASSUME NEW o \in Pool, o # p
        PROVE  /\ pool'[o] = pool[o] /\ ~(pool[o].phase = "live" /\ pool[o].refcnt = 0)
               /\ pool[o].phase = "none" => pool[o] = NoPool
               /\ pool[o].hashed <=> pool[o].refcnt > 0
               /\ pool[o].manager # "release" /\ pool[o].detach = "unset"
               /\ Attached(o)' <= MaxWorkers + 1
    BY <1>1, <1>2, <1>11, <2>1, <2>3 DEF PoolLife, Teardown
  <2>4. /\ pool'[p].phase = "live" /\ pool'[p].manager # "release" /\ pool'[p].detach = "unset"
        /\ pool'[p].hashed <=> pool'[p].refcnt > 0
        /\ pool'[p].refcnt = 0 => rel'.pc = "manager"
        /\ Attached(p)' <= MaxWorkers + 1
    BY <1>1, <1>6, <1>7, <1>10, <1>11, <2>1 DEF PoolLife
  <2>5. rel'.pc \in {"manager", "free"}
    BY <1>6
  <2> QED BY <2>2, <2>3, <2>4, <2>5 DEF PoolLife, Teardown
<1>21. Distinct'
  BY <1>10, <1>11, <1>7 DEF IInv, Distinct
<1> QED BY <1>15, <1>16, <1>17, <1>18, <1>19, <1>20, <1>21 DEF IInv

(* The steps of a teardown before the pool is freed.                       *)
LEMMA TeardownStep ==
  ASSUME IInv, rel.pc \in Teardown, NEW p \in Pool, p = RelPool,
         UNCHANGED <<wqVars, pwq, plock, workVars, relq, wrlock>>,
         NEW l \in {"attach", "wait", "timer"}, rel' = [rel EXCEPT !.pc = l],
         \A o \in Pool : o # p => pool'[o] = pool[o],
         pool' \in [Pool -> PoolFields], pool'[p].phase = pool[p].phase,
         pool'[p].cookie = pool[p].cookie, pool'[p].refcnt = pool[p].refcnt,
         pool'[p].hashed = pool[p].hashed, pool'[p].manager = "release", pool'[p].idle = 0,
         pool'[p].detach # "unset" => l \in {"wait", "timer"},
         pool'[p].detach = "done" \/ l = "timer" => pool'[p].dying = 0,
         Attached(p)' <= MaxWorkers + 1
  PROVE  IInv'
<1> USE DEF wqVars, workVars
<1>1. rel \in [pc : {"pop", "unlink", "manager", "attach", "wait", "timer", "free"},
               pwq : Pwq \cup {None}, last : BOOLEAN]
  BY DEF IInv, TypeOK
<1>2. /\ rel'.pc = l /\ rel'.pwq = rel.pwq /\ rel'.last = rel.last /\ rel.pc # "unlink" /\ rel.pc # "pop"
      /\ rel' \in [pc : {"pop", "unlink", "manager", "attach", "wait", "timer", "free"},
                   pwq : Pwq \cup {None}, last : BOOLEAN]
  BY <1>1 DEF Teardown
<1>3. \A o \in Pool : pool'[o].phase = pool[o].phase /\ pool'[o].refcnt = pool[o].refcnt
  OBVIOUS
<1>4. TypeOK'
  BY <1>2 DEF IInv, TypeOK
<1>5. Owners'
  BY SameOwners DEF IInv
<1>6. \A z : InFlight(z)' = InFlight(z)
  BY DEF InFlight, Queued
<1>7. Places'
  BY <1>2, <1>3, <1>6 DEF IInv, Places
<1>8. ReferencesExact'
  BY <1>2, <1>3, SameReferences DEF IInv
<1>9. RelPool' = RelPool
  BY <1>2 DEF RelPool
<1>10. ReleaseThread'
  <2>1. rel.last => Linked(pwq[rel.pwq].wq)' = {}
    BY <1>2 DEF IInv, ReleaseThread, Linked
  <2> QED BY <1>2, <1>3, <1>9, <2>1 DEF IInv, ReleaseThread, Teardown
<1>11. PoolLife'
  <2>1. PoolLife
    BY DEF IInv
  <2>2. ASSUME NEW o \in Pool, o # p PROVE Attached(o)' <= MaxWorkers + 1
    <3>1. Attached(o) <= MaxWorkers + 1
      BY <2>1 DEF PoolLife
    <3>2. Attached(o)' = Attached(o)
      BY <2>2, SameBusy DEF IInv, Attached, Managing
    <3> QED BY <3>1, <3>2
  <2>3. ASSUME NEW o \in Pool, o # p
        PROVE  /\ pool'[o] = pool[o] /\ ~(pool[o].phase = "live" /\ pool[o].refcnt = 0)
               /\ pool[o].phase = "none" => pool[o] = NoPool
               /\ pool[o].hashed <=> pool[o].refcnt > 0
               /\ pool[o].manager # "release" /\ pool[o].detach = "unset"
    BY <2>1, <2>3 DEF PoolLife
  <2>4. pool'[p].phase = "live" /\ (pool'[p].hashed <=> pool'[p].refcnt > 0)
    BY <2>1 DEF IInv, ReleaseThread, PoolLife
  <2>5. rel'.pc \in {"attach", "wait", "timer"} /\ rel'.pc \in Teardown
    BY <1>2 DEF Teardown
  <2> QED BY <1>2, <1>9, <2>2, <2>3, <2>4, <2>5 DEF PoolLife
<1>12. Distinct'
  <2>1. \A o \in Pool : pool'[o].hashed = pool[o].hashed /\ pool'[o].cookie = pool[o].cookie
    OBVIOUS
  <2> QED BY <2>1 DEF IInv, Distinct
<1> QED BY <1>4, <1>5, <1>7, <1>8, <1>10, <1>11, <1>12 DEF IInv

(* The release thread becomes the manager of a pool that has none.         *)
LEMMA BecomeLastManagerStep == ASSUME IInv, BecomeLastManager PROVE IInv'
<1> USE DEF wqVars, workVars
<1>1. rel.pc = "manager" /\ rel.pc \in Teardown
  BY DEF BecomeLastManager, Teardown
<1> PICK p \in Pool : p = RelPool
  BY <1>1 DEF IInv, TypeOK, Places, ReleaseThread, RelPool
<1>2. /\ pool[p].manager = "none"
      /\ pool' = [pool EXCEPT ![p].manager = "release", ![p].idle = 0, ![p].dying = @ + pool[p].idle]
      /\ rel' = [rel EXCEPT !.pc = "attach"]
      /\ UNCHANGED <<wqVars, pwq, plock, workVars, relq, wrlock>>
  BY DEF BecomeLastManager, RelGoto
<1> DEFINE g == [pool[p] EXCEPT !.manager = "release", !.idle = 0, !.dying = @ + pool[p].idle]
<1>3. g \in PoolFields
  <2>1. ASSUME NEW n \in Nat
        PROVE  [pool[p] EXCEPT !.manager = "release", !.idle = 0, !.dying = n] \in PoolFields
    BY PoolFacts, Assigned
  <2>2. pool[p].dying + pool[p].idle \in Nat
    BY PoolFacts
  <2> QED BY <2>1, <2>2
<1>4. /\ g.refcnt = pool[p].refcnt /\ g.hashed = pool[p].hashed
      /\ g.idle = 0 /\ g.phase = pool[p].phase /\ g.cookie = pool[p].cookie
      /\ g.dying = pool[p].dying + pool[p].idle /\ g.manager = "release" /\ g.detach = pool[p].detach
  BY PoolFacts DEF PoolFields
<1>5. pool' = [pool EXCEPT ![p] = g]
  BY <1>2, PoolFacts DEF PoolFields
<1> HIDE DEF g
<1>6. pool' \in [Pool -> PoolFields] /\ (\A o \in Pool : o # p => pool'[o] = pool[o]) /\ pool'[p] = g
  BY <1>3, <1>5, PoolFacts
<1>7. pool[p].detach = "unset"
  BY <1>1 DEF IInv, PoolLife
<1>8. Attached(p)' = Attached(p)
  <2>1. Busy(p)' = Busy(p)
    BY <1>2, SameBusy DEF IInv
  <2> QED BY <1>2, <1>4, <1>6, <2>1, PoolFacts DEF Attached, Managing
<1>9. Attached(p)' <= MaxWorkers + 1
  BY <1>8, PoolFacts
<1> QED BY <1>1, <1>2, <1>4, <1>6, <1>7, <1>9, TeardownStep

(* It sets detach_completion if workers are left, ...                      *)
LEMMA SetDetachStep == ASSUME IInv, SetDetach PROVE IInv'
<1> USE DEF wqVars, workVars
<1>1. rel.pc = "attach" /\ rel.pc \in Teardown
  BY DEF SetDetach, Teardown
<1> PICK p \in Pool : p = RelPool
  BY <1>1 DEF IInv, TypeOK, Places, ReleaseThread, RelPool
<1>2. pool[p].manager = "release" /\ pool[p].idle = 0 /\ pool[p].detach = "unset"
  BY <1>1 DEF IInv, PoolLife
<1>3. Busy(p)' = Busy(p)
  BY SameBusy DEF IInv, SetDetach
<1>4. CASE Attached(p) > 0
  <2>1. /\ pool' = [pool EXCEPT ![p].detach = "set"] /\ rel' = [rel EXCEPT !.pc = "wait"]
        /\ UNCHANGED <<wqVars, pwq, plock, workVars, relq, wrlock>>
    BY <1>4 DEF SetDetach, RelGoto
  <2>2. /\ pool' \in [Pool -> PoolFields] /\ \A o \in Pool : o # p => pool'[o] = pool[o]
        /\ pool'[p] = [pool[p] EXCEPT !.detach = "set"]
    BY <2>1, PoolFacts DEF PoolFields
  <2>3. /\ pool'[p].phase = pool[p].phase /\ pool'[p].cookie = pool[p].cookie
        /\ pool'[p].refcnt = pool[p].refcnt /\ pool'[p].hashed = pool[p].hashed
        /\ pool'[p].manager = "release" /\ pool'[p].idle = 0 /\ pool'[p].detach = "set"
        /\ pool'[p].dying = pool[p].dying
    BY <1>2, <2>2, PoolFacts DEF PoolFields
  <2>4. Attached(p)' <= MaxWorkers + 1
    BY <1>2, <1>3, <2>3, PoolFacts DEF Attached, Managing
  <2> QED BY <1>1, <2>1, <2>2, <2>3, <2>4, TeardownStep
<1>5. CASE ~(Attached(p) > 0)
  <2>1. /\ rel' = [rel EXCEPT !.pc = "timer"]
        /\ UNCHANGED <<pool, wqVars, pwq, plock, workVars, relq, wrlock>>
    BY <1>5 DEF SetDetach, RelGoto
  <2>2. pool[p].dying = 0
    BY <1>2, <1>5, PoolFacts DEF Attached, Managing
  <2>3. Attached(p)' <= MaxWorkers + 1
    BY <1>3, <2>1, PoolFacts DEF Attached, Managing
  <2>4. pool' \in [Pool -> PoolFields] /\ pool' = pool
    BY <2>1, PoolFacts
  <2> QED BY <1>1, <1>2, <2>1, <2>2, <2>3, <2>4, TeardownStep
<1> QED BY <1>4, <1>5

(* ... waits for the last of them, ...                                     *)
LEMMA WaitDetachedStep == ASSUME IInv, WaitDetached PROVE IInv'
<1> USE DEF wqVars, workVars
<1>1. rel.pc = "wait" /\ rel.pc \in Teardown
  BY DEF WaitDetached, Teardown
<1> PICK p \in Pool : p = RelPool
  BY <1>1 DEF IInv, TypeOK, Places, ReleaseThread, RelPool
<1>2. pool[p].manager = "release" /\ pool[p].idle = 0
  BY <1>1 DEF IInv, PoolLife
<1>3. pool[p].dying = 0
  BY DEF WaitDetached, IInv, PoolLife
<1>4. Busy(p)' = Busy(p)
  BY SameBusy DEF IInv, WaitDetached
<1>5. /\ rel' = [rel EXCEPT !.pc = "timer"]
      /\ UNCHANGED <<pool, wqVars, pwq, plock, workVars, relq, wrlock>>
  BY DEF WaitDetached, RelGoto
<1>6. Attached(p)' <= MaxWorkers + 1
  BY <1>4, <1>5, PoolFacts DEF Attached, Managing
<1>7. pool' \in [Pool -> PoolFields] /\ pool' = pool
  BY <1>5, PoolFacts
<1> QED BY <1>1, <1>2, <1>3, <1>5, <1>6, <1>7, TeardownStep

(* ... and frees the pool, with its timer deleted.                         *)
LEMMA FreePoolStep == ASSUME IInv, FreePool PROVE IInv'
<1> USE DEF wqVars, workVars
<1>1. rel.pc = "timer" /\ rel.pc \in Teardown
  BY DEF FreePool, Teardown
<1> PICK p \in Pool : p = RelPool
  BY <1>1 DEF IInv, TypeOK, Places, ReleaseThread, RelPool
<1>2. /\ pool' = [pool EXCEPT ![p] = NoPool] /\ wrlock' = None /\ rel' = [rel EXCEPT !.pc = "free"]
      /\ UNCHANGED <<wqVars, pwq, plock, workVars, relq>>
  BY DEF FreePool, RelGoto
<1>3. wrlock = "release" /\ pool[p].refcnt = 0 /\ Busy(p) = {} /\ Counted(p) = {}
  BY <1>1, Standing DEF IInv, ReleaseThread
<1>4. NoPool \in PoolFields
  BY DEF NoPool, PoolFields
<1>5. pool' \in [Pool -> PoolFields] /\ (\A o \in Pool : o # p => pool'[o] = pool[o]) /\ pool'[p] = NoPool
  BY <1>2, <1>4, PoolFacts
<1>6. rel \in [pc : {"pop", "unlink", "manager", "attach", "wait", "timer", "free"},
               pwq : Pwq \cup {None}, last : BOOLEAN]
  BY DEF IInv, TypeOK
<1>7. /\ rel'.pc = "free" /\ rel'.pwq = rel.pwq /\ rel'.last = rel.last
      /\ rel' \in [pc : {"pop", "unlink", "manager", "attach", "wait", "timer", "free"},
                   pwq : Pwq \cup {None}, last : BOOLEAN]
  BY <1>2, <1>6
<1>8. \A o \in Pool : pool'[o].refcnt = pool[o].refcnt
  BY <1>3, <1>5 DEF NoPool
<1>9. TypeOK'
  BY <1>2, <1>5, <1>7 DEF IInv, TypeOK
<1>10. Owners'
  <2>1. \A v \in Wq : state[v] # "apply"
    BY <1>3, LifeAssumption DEF IInv, Owners
  <2>2. \A v \in Wq : \A q \in Pwq : v \in Holders(q)' <=> v \in Holders(q)
    BY <1>2 DEF Holders
  <2>3. \A v \in Wq : \A q \in Pwq : v \in Holders(q)' => pwq'[q].phase = "linked" /\ pwq'[q].wq = v
    BY <1>2, <2>2 DEF IInv, Owners
  <2> QED BY <1>2, <2>1, <2>3 DEF IInv, Owners
<1>11. Places'
  <2>1. \A z : InFlight(z)' = InFlight(z)
    BY <1>2 DEF InFlight, Queued
  <2>2. \A z \in Pwq : pwq[z].phase = "linked" => pwq[z].pool # p
    BY <1>3, Standing
  <2> QED BY <1>1, <1>2, <1>5, <1>7, <2>1, <2>2 DEF IInv, Places
<1>12. ReferencesExact'
  BY <1>2, <1>7, <1>8, SameReferences DEF IInv
<1>13. ReleaseThread'
  <2>1. rel.last => Linked(pwq[rel.pwq].wq)' = {}
    BY <1>2, <1>7 DEF IInv, ReleaseThread, Linked
  <2> QED BY <1>1, <1>2, <1>7, <2>1 DEF IInv, ReleaseThread, Teardown
<1>14. PoolLife'
  <2>1. PoolLife
    BY DEF IInv
  <2>2. \A o : Busy(o)' = Busy(o)
    BY <1>2, SameBusy DEF IInv
  <2>3. ASSUME NEW o \in Pool, o # p PROVE Attached(o)' <= MaxWorkers + 1
    <3>1. Attached(o) <= MaxWorkers + 1
      BY <2>1 DEF PoolLife
    <3>2. Attached(o)' = Attached(o)
      BY <1>5, <2>2, <2>3 DEF Attached, Managing
    <3> QED BY <3>1, <3>2
  <2>4. Attached(p)' <= MaxWorkers + 1
    <3>1. Attached(p)' = 0
      <4>1. Cardinality({}) = 0
        BY FS_EmptySet
      <4>2. Busy(p)' = {}
        BY <1>3, <2>2
      <4> QED BY <1>5, <4>1, <4>2 DEF Attached, Managing, NoPool
    <3> QED BY <3>1, LifeAssumption
  <2>5. ASSUME NEW o \in Pool, o # p
        PROVE  /\ pool'[o] = pool[o] /\ ~(pool[o].phase = "live" /\ pool[o].refcnt = 0)
               /\ pool[o].phase = "none" => pool[o] = NoPool
               /\ pool[o].hashed <=> pool[o].refcnt > 0
               /\ pool[o].manager # "release" /\ pool[o].detach = "unset"
    BY <1>5, <2>1, <2>5 DEF PoolLife
  <2>6. ASSUME NEW o \in Pool
        PROVE  /\ pool'[o].phase = "none" => pool'[o] = NoPool
               /\ pool'[o].hashed <=> pool'[o].refcnt > 0
               /\ ~(pool'[o].phase = "live" /\ pool'[o].refcnt = 0)
               /\ pool'[o].manager # "release" /\ pool'[o].detach = "unset"
               /\ Attached(o)' <= MaxWorkers + 1
    BY <1>5, <2>3, <2>4, <2>5 DEF NoPool
  <2> QED BY <1>7, <2>6 DEF PoolLife
<1>15. Distinct'
  BY <1>5 DEF IInv, Distinct, NoPool
<1> QED BY <1>9, <1>10, <1>11, <1>12, <1>13, <1>14, <1>15 DEF IInv

(* The pwq is freed, and with the last one its workqueue.                  *)
LEMMA FreePwqStep == ASSUME IInv, FreePwq PROVE IInv'
<1> USE DEF workVars
<1>1. rel.pc = "free"
  BY DEF FreePwq
<1> PICK q \in Pwq : q = rel.pwq /\ pwq[q].phase = "unlinked"
  BY <1>1 DEF IInv, TypeOK, ReleaseThread, Places
<1> PICK w \in Wq : w = pwq[q].wq
  BY DEF IInv, Places
<1>2. /\ state' = (IF rel.last THEN [state EXCEPT ![w] = "none"] ELSE state)
      /\ pwq' = [pwq EXCEPT ![q] = NoPwq]
      /\ rel' = [pc |-> "pop", pwq |-> None, last |-> FALSE]
      /\ UNCHANGED <<dfl, old, dpc, putting, applies, pool, plock, at, running, relq, wrlock>>
  BY DEF FreePwq
<1>3. /\ pwq \in [Pwq -> PwqFields] /\ relq \in Seq(Pwq)
      /\ state \in [Wq -> {"none", "live", "apply", "dead"}]
  BY DEF IInv, TypeOK
<1>4. pwq' \in [Pwq -> PwqFields] /\ pwq'[q] = NoPwq /\ \A z \in Pwq : z # q => pwq'[z] = pwq[z]
  BY <1>2, <1>3 DEF PwqFields, NoPwq
<1>5. rel'.pc = "pop" /\ rel'.pwq = None /\ rel'.last = FALSE
  BY <1>2
<1>6. /\ state' \in [Wq -> {"none", "live", "apply", "dead"}]
      /\ \A v \in Wq : v # w \/ ~rel.last => state'[v] = state[v]
      /\ rel.last => state'[w] = "none" /\ state[w] = "dead" /\ Linked(w) = {}
  BY <1>2, <1>3 DEF IInv, ReleaseThread
<1>7. /\ \A z : InFlight(z)' = InFlight(z) /\ Holders(z)' = Holders(z) /\ (InRelq(z)' <=> InRelq(z))
      /\ InFlight(q) = {} /\ Holders(q) = {}
  <2>1. \A z : InFlight(z)' = InFlight(z) /\ Holders(z)' = Holders(z) /\ (InRelq(z)' <=> InRelq(z))
    BY <1>2 DEF InFlight, Queued, Holders, InRelq
  <2>2. InFlight(q) = {}
    BY DEF IInv, Places
  <2>3. Holders(q) = {}
    BY DEF IInv, Owners, Holders
  <2> QED BY <2>1, <2>2, <2>3
<1>8. TypeOK'
  BY <1>2, <1>4, <1>6 DEF IInv, TypeOK
<1>9. Owners'
  <2>1. Owners
    BY DEF IInv
  <2>2. rel.last => dpc[w] # "put"
    <3>1. ASSUME dpc[w] = "put", rel.last PROVE FALSE
      <4> PICK z \in Pwq : z = putting[w]
        BY <2>1, <3>1 DEF Owners, IInv, TypeOK
      <4>1. w \in Holders(z)
        BY <3>1 DEF Holders
      <4>2. z \in Linked(w)
        BY <2>1, <4>1 DEF Owners, Linked
      <4> QED BY <1>6, <3>1, <4>2
    <3> QED BY <3>1
  <2>3. \A v \in Wq : \A z \in Pwq : v \in Holders(z)' => pwq'[z].phase = "linked" /\ pwq'[z].wq = v
    BY <1>4, <1>7, <2>1 DEF Owners
  <2> QED BY <1>2, <1>6, <2>1, <2>2, <2>3 DEF Owners
<1>10. Places'
  <2>1. ASSUME NEW z \in Pwq, z # q
        PROVE  /\ pwq'[z].phase = "none" => pwq'[z] = NoPwq
               /\ pwq'[z].phase # "none" => /\ pwq'[z].pool \in Pool /\ pwq'[z].wq \in Wq
                                            /\ state'[pwq'[z].wq] # "none"
               /\ pwq'[z].phase = "linked" => pool'[pwq'[z].pool].phase = "live"
               /\ pwq'[z].phase # "unlinked"
               /\ InFlight(z)' # {} => pwq'[z].phase = "linked"
    <3>1. pwq[z].phase # "unlinked" /\ pwq[z].phase \in {"none", "linked", "unlinked"}
      BY <1>3, <2>1 DEF IInv, Places, PwqFields
    <3>2. rel.last /\ pwq[z].phase = "linked" => pwq[z].wq # w
      BY <1>6 DEF Linked
    <3> QED BY <1>2, <1>4, <1>6, <1>7, <2>1, <3>1, <3>2 DEF IInv, Places
  <2> QED BY <1>4, <1>5, <1>7, <2>1, LifeAssumption DEF Places, NoPwq
<1>11. ReferencesExact'
  <2>1. \A p : Counted(p)' = Counted(p)
    BY <1>4 DEF Counted, NoPwq
  <2>2. \A z \in Pwq : z # q => (rel'.pwq = z \/ InRelq(z)' <=> rel.pwq = z \/ InRelq(z))
    BY <1>5, <1>7, LifeAssumption
  <2>3. pwq'[q].phase = "none"
    BY <1>4 DEF NoPwq
  <2>4. ASSUME NEW z \in Pwq, pwq'[z].phase # "none"
        PROVE  /\ pwq'[z].refcnt = Cardinality(Holders(z)') + Cardinality(InFlight(z)')
               /\ (pwq'[z].refcnt = 0) <=> (rel'.pwq = z \/ InRelq(z)')
    <3>1. z # q /\ pwq'[z] = pwq[z]
      BY <1>4, <2>3, <2>4
    <3> QED BY <1>7, <2>2, <2>4, <3>1 DEF IInv, ReferencesExact
  <2> QED BY <1>2, <2>1, <2>4 DEF IInv, ReferencesExact
<1>12. ReleaseThread'
  <2>1. \A i \in 1 .. Len(relq) : relq[i] \in Pwq
    BY <1>3
  <2>2. \A i \in 1 .. Len(relq) : relq[i] # None /\ pwq'[relq[i]].phase = "linked"
    BY <1>4, <2>1, LifeAssumption DEF IInv, ReleaseThread
  <2> QED BY <1>2, <1>5, <2>2 DEF IInv, ReleaseThread, Teardown
<1>13. PoolLife'
  <2>1. \A r \in running : pwq'[r[2]].pool = pwq[r[2]].pool
    BY <1>4, Standing
  <2>2. \A p \in Pool : Attached(p)' = Attached(p)
    BY <1>2, <2>1, SameBusy DEF IInv, Attached, Managing
  <2>3. rel'.pc = "pop" /\ UNCHANGED pool
    BY <1>2
  <2> QED BY <1>1, <2>2, <2>3 DEF IInv, PoolLife, Teardown
<1>14. Distinct'
  BY <1>2 DEF IInv, Distinct
<1> QED BY <1>8, <1>9, <1>10, <1>11, <1>12, <1>13, <1>14 DEF IInv
-------------------------------------------------------------------------------
(* The invariant and what it implies.                                      *)

(* Nothing is there at the start.                                          *)
LEMMA InitInv == ASSUME Init PROVE IInv
<1> USE DEF Init
<1>1. \A q : Holders(q) \cap Wq = Holders(q) /\ \A p : Counted(p) = {}
  BY DEF Holders, Counted, NoPwq
<1>2. \A q \in Pwq : Holders(q) = {}
  BY LifeAssumption DEF Holders
<1>3. \A q \in Pwq : InFlight(q) = {}
  BY FlightSet, LifeAssumption
<1>4. TypeOK
  <2>1. NoPwq \in PwqFields /\ NoPool \in PoolFields
    BY DEF NoPwq, NoPool, PwqFields, PoolFields
  <2>2. <<>> \in Seq(Pwq) /\ 0 \in 0 .. MaxApplies
    BY LifeAssumption
  <2> QED BY <2>1, <2>2 DEF TypeOK
<1>5. Owners
  BY <1>2 DEF Owners
<1>6. Places
  BY <1>3, LifeAssumption DEF Places, NoPwq
<1>7. ReferencesExact
  <2>1. \A p \in Pool : pool[p].refcnt = Cardinality(Counted(p))
    BY <1>1, FS_EmptySet DEF NoPool
  <2> QED BY <2>1 DEF ReferencesExact, NoPwq
<1>8. ReleaseThread
  BY DEF ReleaseThread, Teardown
<1>9. PoolLife
  <2>1. \A p : Busy(p) = {}
    BY DEF Busy
  <2>2. \A p \in Pool : Attached(p) = 0
    <3>1. Cardinality({}) = 0
      BY FS_EmptySet
    <3>2. \A p \in Pool : pool[p].idle = 0 /\ pool[p].dying = 0 /\ Managing(p) = 0
      BY DEF Managing, NoPool
    <3>3. \A p : Cardinality(Busy(p)) = 0
      BY <2>1, <3>1
    <3> QED BY <3>2, <3>3 DEF Attached
  <2> QED BY <2>2, LifeAssumption DEF PoolLife, NoPool, Teardown
<1>10. Distinct
  BY DEF Distinct, NoPool
<1> QED BY <1>4, <1>5, <1>6, <1>7, <1>8, <1>9, <1>10 DEF IInv

(* Every step keeps the invariant.                                         *)
LEMMA NextInv == ASSUME IInv, [Next]_vars PROVE IInv'
<1>1. CASE UNCHANGED vars
  <2> USE <1>1 DEF vars, wqVars, workVars
  <2>1. \A q \in Pwq : pwq'[q] = pwq[q]
    OBVIOUS
  <2>2. TypeOK'
    BY DEF IInv, TypeOK
  <2>3. Owners' /\ Places' /\ ReferencesExact' /\ ReleaseThread'
    BY SameOwners, SamePlaces, SameReferences, SameRelease DEF IInv
  <2>4. PoolLife' /\ Distinct'
    BY SamePools
  <2> QED BY <2>2, <2>3, <2>4 DEF IInv
<1>2. CASE \E w \in Wq : AllocWorkqueue(w) \/ ApplyAttrs(w) \/ Destroy(w) \/ OwnerGoesOn(w)
  BY <1>2, AllocWorkqueueStep, ApplyAttrsStep, DestroyStep, ApplyCleanupStep, DestroyPutStep,
     DestroyUnlockStep DEF OwnerGoesOn
<1>3. CASE \E x \in Work : Execute(x) \/ \E w \in Wq : QueueWork(x, w)
  BY <1>3, ExecuteStep, QueueWorkStep
<1>4. CASE \E r \in running : Return(r)
  BY <1>4, ReturnStep
<1>5. CASE \E p \in Pool : BecomeManager(p) \/ TimerFires(p) \/ PoolGoesOn(p)
  BY <1>5, BecomeManagerStep, TimerFiresStep, ManagerEndsStep, ManagerCreatesStep, ManagerGivesUpStep,
     TimerHandlerStep, DetachStep DEF PoolGoesOn, ManagerGoesOn
<1>6. CASE Release
  BY <1>6, PopStep, UnlinkStep, BecomeLastManagerStep, SetDetachStep, WaitDetachedStep, FreePoolStep,
     FreePwqStep DEF Release
<1> QED BY <1>1, <1>2, <1>3, <1>4, <1>5, <1>6 DEF Next

(* The books of workqueues, pwqs, pools and the release thread agree.      *)
THEOREM LifeInvariant == Spec => []IInv
BY InitInv, NextInv, PTL DEF Spec

(* A work is in flight on a pwq twice at most: queued again while it runs. *)
LEMMA FlightBound ==
  ASSUME TypeOK, NEW q
  PROVE  Cardinality(InFlight(q)) \in Nat /\ Cardinality(InFlight(q)) <= 2 * Cardinality(Work)
<1> DEFINE A == Queued(q) \X {"queued"}
           R == {x \in Work : <<x, q>> \in running}
           B == R \X {"running"}
<1>1. IsFiniteSet({"queued"}) /\ Cardinality({"queued"}) = 1
      /\ IsFiniteSet({"running"}) /\ Cardinality({"running"}) = 1
  BY FS_Singleton
<1>2. Cardinality(Work) \in Nat
  BY LifeAssumption, FS_CardinalityType
<1>3. /\ IsFiniteSet(Queued(q)) /\ Cardinality(Queued(q)) <= Cardinality(Work)
      /\ IsFiniteSet(R) /\ Cardinality(R) <= Cardinality(Work)
  <2>1. Queued(q) \subseteq Work /\ R \subseteq Work
    BY DEF Queued
  <2> QED BY <2>1, LifeAssumption, FS_Subset
<1>4. IsFiniteSet(A) /\ Cardinality(A) <= Cardinality(Work)
  <2>1. IsFiniteSet(A) /\ Cardinality(A) = Cardinality(Queued(q)) * 1
    BY <1>1, <1>3, FS_Product
  <2> QED BY <2>1, <1>2, <1>3, FS_CardinalityType
<1>5. IsFiniteSet(B) /\ Cardinality(B) <= Cardinality(Work)
  <2> HIDE DEF R
  <2>1. IsFiniteSet(B) /\ Cardinality(B) = Cardinality(R) * 1
    BY <1>1, <1>3, FS_Product
  <2> QED BY <2>1, <1>2, <1>3, FS_CardinalityType
<1>6. InFlight(q) = A \cup B
  BY DEF InFlight
<1> HIDE DEF A, B
<1>7. /\ Cardinality(A \cup B) = Cardinality(A) + Cardinality(B) - Cardinality(A \cap B)
      /\ IsFiniteSet(A \cap B) /\ IsFiniteSet(A \cup B)
  BY <1>4, <1>5, FS_Union, FS_Intersection
<1>8. /\ Cardinality(A) \in Nat /\ Cardinality(B) \in Nat /\ Cardinality(A \cap B) \in Nat
      /\ Cardinality(A \cup B) \in Nat
  BY <1>4, <1>5, <1>7, FS_CardinalityType
<1> QED BY <1>2, <1>4, <1>5, <1>6, <1>7, <1>8

(* The invariant implies PwqHeld.                                          *)
LEMMA HeldInv == ASSUME IInv PROVE PwqHeld
<1>1. ASSUME NEW q \in Pwq PROVE pwq[q].refcnt <= 1 + 2 * Cardinality(Work)
  <2>1. Cardinality(Work) \in Nat
    BY LifeAssumption, FS_CardinalityType
  <2>2. Cardinality(InFlight(q)) \in Nat /\ Cardinality(InFlight(q)) <= 2 * Cardinality(Work)
    BY FlightBound DEF IInv
  <2>3. Cardinality(Holders(q)) \in Nat /\ Cardinality(Holders(q)) <= 1
    <3>1. \A v1, v2 \in Wq : v1 \in Holders(q) /\ v2 \in Holders(q) => v1 = v2
      BY DEF IInv, Owners
    <3>2. CASE Holders(q) = {}
      BY <3>2, FS_EmptySet
    <3>3. CASE Holders(q) # {}
      <4> PICK w \in Wq : w \in Holders(q)
        BY <3>3 DEF Holders
      <4>1. Holders(q) = {w}
        BY <3>1 DEF Holders
      <4>2. Cardinality({w}) = 1
        BY FS_Singleton
      <4> QED BY <4>1, <4>2
    <3> QED BY <3>2, <3>3
  <2>4. CASE pwq[q].phase = "none"
    BY <2>1, <2>4 DEF IInv, Places, NoPwq
  <2>5. CASE pwq[q].phase # "none"
    <3>1. pwq[q].refcnt = Cardinality(Holders(q)) + Cardinality(InFlight(q))
      BY <2>5 DEF IInv, ReferencesExact
    <3> QED BY <2>1, <2>2, <2>3, <3>1
  <2> QED BY <2>4, <2>5
<1>2. ASSUME NEW p \in Pool PROVE pool[p].refcnt <= Cardinality(Pwq)
  <2>1. Counted(p) \subseteq Pwq
    BY DEF Counted
  <2>2. Cardinality(Counted(p)) <= Cardinality(Pwq)
    BY <2>1, LifeAssumption, FS_Subset
  <2> QED BY <2>2 DEF IInv, ReferencesExact
<1>3. Bounded
  BY <1>1, <1>2 DEF Bounded, IInv, PoolLife
<1>4. InFlightIsLinked
  BY DEF IInv, Places, InFlightIsLinked
<1> QED BY <1>3, <1>4 DEF IInv, PwqHeld

(* Every reference that keeps a pwq or a pool is counted, and a work in    *)
(* flight has a pwq linked to its workqueue, whose pool is there.          *)
THEOREM ReferencesAreExact == Spec => []PwqHeld
<1>1. IInv => PwqHeld
  BY HeldInv
<1> QED BY <1>1, LifeInvariant, PTL

(* A pool is taken down after its last work, and freed after its last      *)
(* worker, its manager and its timer handler.                              *)
THEOREM TeardownComesLast == Spec => []TeardownIsLast
<1>1. IInv => TeardownIsLast
  BY Standing DEF IInv, PoolLife, TeardownIsLast
<1> QED BY <1>1, LifeInvariant, PTL

(* get_unbound_pool() finds one pool for a set of attributes, and none in  *)
(* teardown.                                                               *)
THEOREM OnePoolPerAttributes == Spec => []HashedOnce
<1>1. IInv => HashedOnce
  BY DEF IInv, PoolLife, Distinct, HashedOnce
<1> QED BY <1>1, LifeInvariant, PTL
=============================================================================
