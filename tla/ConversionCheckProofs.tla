----------------------- MODULE ConversionCheckProofs ------------------------
(***************************************************************************)
(* For any objects, page size and number of restarts: a call of            *)
(* checkConversionHealth makes a bounded number of requests, and its       *)
(* answer is the one-step gate's of ConversionGate.                        *)
(***************************************************************************)
EXTENDS ConversionCheck, FiniteSetTheorems, TLAPS

\* What a call has already seen: the objects it converted were convertible
\* during the call, and what it has not seen of the steady ones is still to
\* come in the snapshot the token names.
Seen ==
    /\ pc \in {"idle", "list"}
    /\ verdict \in {"", "healthy", "pending", "failed"}
    /\ steady \subseteq stored
    /\ pc = "list" => /\ convertible \subseteq okOnce
                      /\ converted \subseteq okOnce
                      /\ token # {} => steady \subseteq converted \union token

\* The initial states satisfy Seen.
LEMMA SeenInit == Init => Seen
BY DEF Init, Seen

\* Every step preserves Seen.
LEMMA SeenNext == Seen /\ [Next]_vars => Seen'
<1> SUFFICES ASSUME Seen, [Next]_vars PROVE Seen'
  OBVIOUS
<1>1. CASE Begin
  BY <1>1 DEF Begin, Seen, worldVars
<1>2. CASE List
  <2>0. pc = "list" /\ UNCHANGED <<worldVars, steady, okOnce>>
    BY <1>2 DEF List
  <2>1. CASE Return("pending")
    BY <2>0, <2>1 DEF Return, Seen, worldVars
  <2>2. CASE Return("failed")
    BY <2>0, <2>2 DEF Return, Seen, worldVars
  <2>3. CASE Expired
    BY <2>0, <2>1, <2>3 DEF Expired, Seen, worldVars
  <2>4. ASSUME NEW page \in SUBSET Snapshot, page \subseteq convertible, Page(page)
        PROVE  Seen'
    <3>1. CASE token' = {}
      BY <2>0, <2>4, <3>1 DEF Page, Seen, worldVars
    <3>2. CASE token' # {}
      <4>1. steady \subseteq converted \union Snapshot
        BY <2>0 DEF Seen, Snapshot
      <4>2. steady' \subseteq converted' \union token'
        BY <2>0, <2>4, <4>1 DEF Page, Continue
      <4>3. converted' \subseteq okOnce'
        BY <2>0, <2>4 DEF Page, Seen
      <4> QED
        BY <2>0, <2>4, <3>2, <4>2, <4>3 DEF Page, Seen, worldVars
    <3> QED
      BY <3>1, <3>2
  <2> QED
    BY <1>2, <2>1, <2>2, <2>3, <2>4 DEF List
<1>3. CASE World
  <2>1. UNCHANGED <<callVars, converted>>
    BY <1>3 DEF World
  <2>2. steady' \subseteq stored' /\ steady' \subseteq steady
    BY <1>3 DEF World, Create, Delete, Webhook, Toggle, Seen
  <2>3. okOnce \subseteq okOnce'
        /\ (convertible \subseteq okOnce => convertible' \subseteq okOnce')
    BY <1>3 DEF World, Create, Delete, Webhook, Toggle
  <2> QED
    BY <2>1, <2>2, <2>3 DEF callVars, Seen
<1>4. CASE Reopen
  BY <1>4 DEF Reopen, Seen, worldVars, historyVars
<1>5. CASE UNCHANGED vars
  BY <1>5 DEF vars, worldVars, callVars, historyVars, Seen
<1> QED
  BY <1>1, <1>2, <1>3, <1>4, <1>5 DEF Next

\* A step of the call, or of the cluster under it, is a step of the gate.
LEMMA StepImplements == Seen /\ [Next]_vars => [Gate!GateNext]_(Gate!gateVars)
<1> SUFFICES ASSUME Seen, [Next]_vars PROVE [Gate!GateNext]_(Gate!gateVars)
  OBVIOUS
<1> USE DEF Gate!gateVars
<1>1. CASE Begin
  BY <1>1 DEF Begin, worldVars, Seen, Gate!GateNext, Gate!GateBegin
<1>2. CASE List
  <2>0. pc = "list" /\ UNCHANGED <<stored, convertible, steady, okOnce>>
    BY <1>2 DEF List, worldVars
  <2>1. CASE Return("pending")
    BY <2>0, <2>1 DEF Return, Gate!GateNext, Gate!GateReturn
  <2>2. CASE Return("failed")
    BY <2>0, <2>2 DEF Return, Gate!GateNext, Gate!GateReturn
  <2>3. CASE Expired
    BY <2>0, <2>1, <2>3 DEF Expired
  <2>4. ASSUME NEW page \in SUBSET Snapshot, page \subseteq convertible, Page(page)
        PROVE  [Gate!GateNext]_(Gate!gateVars)
    <3>1. CASE token' = {}
      <4>1. steady \subseteq converted \union Snapshot
        BY <2>0 DEF Seen, Snapshot
      <4>2. Snapshot \subseteq page
        BY <2>4, <3>1 DEF Page, Continue
      <4>3. steady \subseteq okOnce
        BY <2>0, <2>4, <4>1, <4>2 DEF Seen
      <4> QED
        BY <2>0, <2>4, <3>1, <4>3 DEF Page, Gate!GateNext, Gate!GateReturn
    <3>2. CASE token' # {}
      BY <2>0, <2>4, <3>2 DEF Page
    <3> QED
      BY <3>1, <3>2
  <2> QED
    BY <1>2, <2>1, <2>2, <2>3, <2>4 DEF List
<1>3. CASE World
  <2>1. UNCHANGED <<pc, verdict>>
    BY <1>3 DEF World, callVars
  <2>2. steady' = steady \intersect stored'
    BY <1>3 DEF World, Create, Delete, Webhook, Toggle, Seen
  <2>3. okOnce' = okOnce \union (convertible' \ convertible)
    BY <1>3 DEF World, Create, Delete, Webhook, Toggle
  <2> QED
    BY <2>1, <2>2, <2>3 DEF Gate!GateNext, Gate!GateWorld
<1>4. CASE Reopen
  BY <1>4 DEF Reopen, worldVars, historyVars, Gate!GateNext, Gate!GateReopen
<1>5. CASE UNCHANGED vars
  BY <1>5 DEF vars, worldVars, callVars, historyVars
<1> QED
  BY <1>1, <1>2, <1>3, <1>4, <1>5 DEF Next

\* The paged check of checkConversionHealth implements the one-step gate,
\* whatever its page size and its bound on restarts.
THEOREM CheckIsGate == Spec => ImplementsGate
<1>1. Init => Gate!GateInit
  BY DEF Init, Gate!GateInit
<1> QED
  BY <1>1, SeenInit, SeenNext, StepImplements, PTL
     DEF Spec, ImplementsGate, Gate!GateSpec

-----------------------------------------------------------------------------
\* The requests a call has made and those its listing may still need fit into
\* the listings it has begun.
Left(n) ==
    /\ IF token = {} THEN n = MaxPages ELSE Cardinality(token) <= n * PageLimit
    /\ calls + n <= (restarts + 1) * MaxPages

Work ==
    /\ stored \subseteq Objects /\ token \subseteq Objects
    /\ pc \in {"idle", "list"}
    /\ calls \in Nat /\ restarts \in 0..MaxRestarts
    /\ pc = "list" => \E n \in Nat : Left(n)

\* A page takes one request and PageLimit objects, or all that are left.
LEMMA PageShrinks ==
    ASSUME NEW S, IsFiniteSet(S), NEW page \in SUBSET S, NEW n \in Nat,
           Cardinality(S) <= n * PageLimit,
           Cardinality(S) > PageLimit => Cardinality(page) = PageLimit,
           Cardinality(S) <= PageLimit => page = S,
           S \ page # {}
    PROVE  n - 1 \in Nat /\ Cardinality(S \ page) <= (n - 1) * PageLimit
<1> USE CheckAssumption DEF CheckAssumption
<1>1. /\ Cardinality(S) \in Nat /\ IsFiniteSet(page) /\ Cardinality(page) \in Nat
      /\ Cardinality(S \ page) = Cardinality(S) - Cardinality(S \intersect page)
  BY FS_Subset, FS_CardinalityType, FS_Difference
<1>2. S \intersect page = page
  OBVIOUS
<1>3. Cardinality(S) > PageLimit
  BY <1>1
<1>4. n # 0
  BY <1>1, <1>3
<1>5. n - 1 \in Nat /\ (n - 1) * PageLimit = n * PageLimit - PageLimit
  BY <1>4
<1>6. Cardinality(S \ page) = Cardinality(S) - PageLimit
  BY <1>1, <1>2, <1>3
<1>7. n * PageLimit \in Nat
  OBVIOUS
<1> QED
  BY <1>1, <1>5, <1>6, <1>7

\* The initial states satisfy Work.
LEMMA WorkInit == Init => Work
<1>1. 0 \in 0..MaxRestarts
  BY CheckAssumption DEF CheckAssumption
<1> SUFFICES ASSUME Init PROVE Work
  OBVIOUS
<1>2. /\ stored \subseteq Objects /\ token = {} /\ pc = "idle"
      /\ calls = 0 /\ restarts = 0
  BY DEF Init
<1> QED
  BY <1>1, <1>2 DEF Work

\* Every step preserves Work and the bound.
LEMMA WorkNext == Work /\ BoundedWork /\ [Next]_vars => Work' /\ BoundedWork'
<1> SUFFICES ASSUME Work, BoundedWork, [Next]_vars PROVE Work' /\ BoundedWork'
  OBVIOUS
<1> USE CheckAssumption DEF CheckAssumption
<1>0. /\ \A r \in 0..MaxRestarts : (r + 1) * MaxPages <= (MaxRestarts + 1) * MaxPages
      /\ \A r \in 0..MaxRestarts : (r + 2) * MaxPages = (r + 1) * MaxPages + MaxPages
      /\ \A r \in 0..MaxRestarts : (r + 1) * MaxPages \in Nat
      /\ (0 + 1) * MaxPages = MaxPages
  OBVIOUS
<1>1. CASE Begin
  <2>1. /\ pc' = "list" /\ token' = {} /\ restarts' = 0 /\ calls' = 0
        /\ UNCHANGED stored
    BY <1>1 DEF Begin, worldVars
  <2>2. Left(MaxPages)'
    BY <2>1, <1>0 DEF Left
  <2>3. MaxPages \in Nat
    OBVIOUS
  <2>4. \E n \in Nat : Left(n)'
    BY <2>2, <2>3
  <2> QED
    BY <2>1, <2>4, <1>0 DEF Work, BoundedWork
<1>2. CASE List
  <2>0. pc = "list" /\ calls' = calls + 1 /\ UNCHANGED stored
    BY <1>2 DEF List, worldVars
  <2>1. PICK n \in Nat : Left(n)
    BY <2>0 DEF Work
  <2>2. n # 0
    <3>1. IsFiniteSet(token) /\ Cardinality(token) \in Nat
          /\ (Cardinality(token) = 0 <=> token = {})
      BY FS_Subset, FS_CardinalityType, FS_EmptySet DEF Work
    <3> QED
      BY <2>1, <3>1 DEF Left
  <2>3. calls' <= (restarts + 1) * MaxPages
    BY <2>0, <2>1, <2>2, <1>0 DEF Left, Work
  <2>4. BoundedWork'
    BY <2>0, <2>3, <1>0 DEF Work, BoundedWork
  <2>5. CASE \E answer \in {"pending", "failed"} : Return(answer)
    BY <2>0, <2>4, <2>5 DEF Return, Work
  <2>6. CASE Expired /\ restarts < MaxRestarts
    <3>1. restarts' = restarts + 1 /\ token' = {} /\ pc' = "list"
      BY <2>0, <2>6 DEF Expired
    <3>2. calls' + MaxPages <= (restarts' + 1) * MaxPages
      BY <2>0, <2>3, <3>1, <1>0 DEF Work
    <3>3. \E m \in Nat : Left(m)'
      <4>1. Left(MaxPages)'
        BY <3>1, <3>2 DEF Left
      <4> QED
        BY <4>1
    <3> QED
      BY <2>0, <2>4, <2>6, <3>1, <3>3 DEF Work
  <2>7. CASE Expired /\ ~(restarts < MaxRestarts)
    BY <2>5, <2>7 DEF Expired
  <2>8. ASSUME NEW page \in SUBSET Snapshot, IsPage(page), Page(page)
        PROVE  Work'
    <3>1. CASE token' = {}
      BY <2>0, <2>8, <3>1 DEF Page, Work
    <3>2. CASE token' # {}
      <4>0. /\ token' = Snapshot \ page /\ pc' = "list"
            /\ restarts' = restarts /\ token' \subseteq Objects
        BY <2>0, <2>8, <3>2 DEF Page, Continue, Work, Snapshot
      <4>1. Snapshot \subseteq Objects /\ IsFiniteSet(Snapshot)
        BY FS_Subset DEF Snapshot, Work
      <4>2. Cardinality(Snapshot) <= n * PageLimit
        <5>1. CASE token = {}
          <6>1. Cardinality(Snapshot) <= Cardinality(Objects)
                /\ Cardinality(Snapshot) \in Nat /\ Cardinality(Objects) \in Nat
            BY <4>1, FS_Subset, FS_CardinalityType
          <6> QED
            BY <2>1, <5>1, <6>1 DEF Left
        <5>2. CASE token # {}
          BY <2>1, <5>2 DEF Left, Snapshot
        <5> QED
          BY <5>1, <5>2
      <4>3. /\ Cardinality(Snapshot) > PageLimit => Cardinality(page) = PageLimit
            /\ Cardinality(Snapshot) <= PageLimit => page = Snapshot
        <5>1. Cardinality(Snapshot) \in Nat
          BY <4>1, FS_CardinalityType
        <5> QED
          BY <2>8, <5>1 DEF IsPage
      <4>4. n - 1 \in Nat /\ Cardinality(Snapshot \ page) <= (n - 1) * PageLimit
        BY <2>8, <3>2, <4>0, <4>1, <4>2, <4>3, PageShrinks
      <4>5. Left(n - 1)'
        BY <2>0, <2>1, <3>2, <4>0, <4>4, <1>0 DEF Left, Work
      <4>6. \E m \in Nat : Left(m)'
        BY <4>4, <4>5
      <4> QED
        BY <2>0, <4>0, <4>6 DEF Work
    <3> QED
      BY <3>1, <3>2
  <2> QED
    BY <1>2, <2>4, <2>5, <2>6, <2>7, <2>8 DEF List
<1>3. CASE World
  <2>1. UNCHANGED <<pc, token, restarts, calls>>
    BY <1>3 DEF World, callVars
  <2>2. stored' \subseteq Objects
    BY <1>3 DEF World, Create, Delete, Webhook, Toggle, Work
  <2> QED
    BY <2>1, <2>2 DEF Work, Left, BoundedWork
<1>4. CASE Reopen
  BY <1>4 DEF Reopen, Work, Left, BoundedWork, worldVars, historyVars
<1>5. CASE UNCHANGED vars
  BY <1>5 DEF vars, worldVars, callVars, historyVars, Work, Left, BoundedWork
<1> QED
  BY <1>1, <1>2, <1>3, <1>4, <1>5 DEF Next

\* A single call does bounded work however many objects are stored and however
\* often its tokens expire.
THEOREM WorkIsBounded == Spec => []BoundedWork
<1>1. Init => BoundedWork
  <2>1. (MaxRestarts + 1) * MaxPages \in Nat
    BY CheckAssumption DEF CheckAssumption
  <2>2. Init => calls = 0
    BY DEF Init
  <2> QED
    BY <2>1, <2>2 DEF BoundedWork
<1> QED
  BY <1>1, WorkInit, WorkNext, PTL DEF Spec

-----------------------------------------------------------------------------
\* The server's switches are switched, and nothing else.
LEMMA ServerTypes == ServerTyped /\ [Next]_vars => ServerTyped'
<1> SUFFICES ASSUME ServerTyped, [Next]_vars PROVE ServerTyped'
  OBVIOUS
<1>1. CASE UNCHANGED <<served, compacting>>
  BY <1>1, Zenon DEF ServerTyped
<1>2. CASE Toggle
  BY <1>2, Zenon DEF Toggle, ServerTyped
<1> QED
  BY <1>1, <1>2 DEF Next, Begin, List, World, Create, Delete, Webhook, Reopen, vars,
                    worldVars

\* Every step keeps the call on stored or once stored objects.
LEMMA CallTypes == CallTyped /\ [Next]_vars => CallTyped'
<1> SUFFICES ASSUME CallTyped, [Next]_vars PROVE CallTyped'
  OBVIOUS
<1>1. CASE Begin
  BY <1>1 DEF Begin, CallTyped, worldVars
<1>2. CASE List
  <2>1. UNCHANGED <<stored, convertible, steady, okOnce>>
    BY <1>2 DEF List, worldVars
  <2>2. Snapshot \subseteq Objects
    BY DEF Snapshot, CallTyped
  <2>3. converted' \subseteq Objects
    BY <1>2, <2>2 DEF List, Page, Expired, CallTyped
  <2>4. CASE Return("pending") \/ Return("failed")
    BY <2>1, <2>3, <2>4 DEF Return, CallTyped
  <2>5. CASE Expired
    BY <2>1, <2>3, <2>4, <2>5 DEF Expired, CallTyped
  <2>6. ASSUME NEW page \in SUBSET Snapshot, Page(page)
        PROVE  CallTyped'
    BY <2>1, <2>2, <2>3, <2>6 DEF Page, Continue, CallTyped
  <2> QED
    BY <1>2, <2>4, <2>5, <2>6 DEF List
<1>3. CASE World
  <2>1. UNCHANGED <<callVars, converted>>
    BY <1>3 DEF World
  <2>2. /\ stored' \subseteq Objects /\ convertible' \subseteq Objects
        /\ steady' \subseteq Objects /\ okOnce' \subseteq Objects
    BY <1>3 DEF World, Create, Delete, Webhook, Toggle, CallTyped
  <2> QED
    BY <2>1, <2>2 DEF callVars, CallTyped
<1>4. CASE Reopen
  BY <1>4 DEF Reopen, CallTyped, worldVars, historyVars
<1>5. CASE UNCHANGED vars
  BY <1>5 DEF vars, worldVars, callVars, historyVars, CallTyped
<1> QED
  BY <1>1, <1>2, <1>3, <1>4, <1>5 DEF Next

\* Every step keeps the counts within their bounds.
LEMMA CountTypes == CountsTyped /\ [Next]_vars => CountsTyped'
<1> SUFFICES ASSUME CountsTyped, [Next]_vars PROVE CountsTyped'
  OBVIOUS
<1>a. MaxRestarts \in Nat /\ MaxChanges \in Nat
  BY CheckAssumption
<1>1. calls' \in {0, calls, calls + 1}
  BY DEF Next, Begin, List, World, Reopen, vars, historyVars
<1>2. changes' = changes \/ Change
  BY DEF Next, Begin, List, World, Reopen, vars
<1>3. restarts' \in {0, restarts} \/ (restarts < MaxRestarts /\ restarts' = restarts + 1)
  <2>1. CASE List
    BY <2>1 DEF List, Return, Expired, Page
  <2>2. CASE ~List
    BY <2>2 DEF Next, Begin, World, Reopen, vars, callVars
  <2> QED
    BY <2>1, <2>2
<1> QED
  BY <1>a, <1>1, <1>2, <1>3 DEF Change, CountsTyped

\* The state of checkConversionHealth is well-typed; above all, one call
\* restarts its listing at most MaxRestarts times.
THEOREM CheckTypeCorrect == Spec => []ConversionTypeOK
<1>1. Init => ServerTyped
  BY Zenon DEF Init, ServerTyped
<1>2. Init => CallTyped
  BY DEF Init, CallTyped
<1>3. Init => CountsTyped
  <2>1. 0 \in 0..MaxRestarts /\ 0 \in 0..MaxChanges /\ 0 \in Nat
    BY CheckAssumption
  <2>2. Init => restarts = 0 /\ changes = 0 /\ calls = 0
    BY DEF Init
  <2> QED
    BY <2>1, <2>2 DEF CountsTyped
<1>4. ServerTyped /\ CallTyped /\ CountsTyped <=> ConversionTypeOK
  BY DEF ConversionTypeOK
<1> QED
  BY <1>1, <1>2, <1>3, <1>4, ServerTypes, CallTypes, CountTypes, PTL DEF Spec

=============================================================================
