------------------------ MODULE ManagedDispatchProofs ------------------------
(***************************************************************************)
(* Proofs about ManagedDispatch, for every number of callers, brokers,     *)
(* targets, operations, runs and generations.                              *)
(***************************************************************************)
EXTENDS ManagedDispatch, FiniteSetTheorems, TLAPS

(* A call in progress has an operation. *)
CallsNamed == \A c \in Caller : ~At(c, "idle") => call[c].op \in OpKey

(* The generation of a call is one the registry has issued for its target. *)
Issuance ==
    \A c \in Caller :
        call[c].at \in {"leased", "armed", "replacing"} => call[c].gen <= generation[On(c)]

(* A call that armed or advanced the fence of its target, and has not written. *)
Armed(c) == call[c].at \in {"armed", "checked", "invalidated"}
Claims(c) == Armed(c) /\ call[c].gen = fence[On(c)]

(* The provider's fence: it never falls behind what was armed, handed over or *)
(* written, and at most one call can still write under it, a call that has    *)
(* not written under it before.                                               *)
ProviderFence ==
    /\ \A c \in Caller : Armed(c) => call[c].gen <= fence[On(c)]
    /\ \A c, d \in Caller : Claims(c) /\ Claims(d) /\ On(c) = On(d) => c = d
    /\ \A c \in Caller : Claims(c) => row[On(c)].gen < fence[On(c)]
    /\ \A t \in Target : row[t].gen <= fence[t] /\ handed[t] <= fence[t]

(* The row of a target is of an operation that was written. *)
RowsWritten == \A t \in Target : row[t].op # None => writes[row[t].op] > 0

Shape == TypeOK /\ CallsNamed

(* The inductive invariant. *)
Dispatching ==
    /\ Shape
    /\ LeaseIsNewest
    /\ Issuance
    /\ FenceAhead
    /\ ProviderFence
    /\ RowsWritten
    /\ ConfirmedWasWritten

(* No call is in progress at first. *)
LEMMA NoCallTyped == NoCall \in Call /\ NoLease \in Lease
  BY DEF NoCall, NoLease, Call, Lease, Steps

(* Nothing is leased, armed or written at first.                               *)
LEMMA InitDispatching == Init => Dispatching
  <1> SUFFICES ASSUME Init PROVE Dispatching
    OBVIOUS
  <1> USE ConstantsAssumption, NoCallTyped
  <1>1. Shape
    BY DEF Init, Shape, TypeOK, CallsNamed, At, NoCall
  <1>2. LeaseIsNewest /\ Issuance /\ FenceAhead
    BY DEF Init, LeaseIsNewest, Issuance, FenceAhead, NoLease, NoCall
  <1>3. ProviderFence
    BY DEF Init, ProviderFence, Claims, Armed, NoCall
  <1>4. RowsWritten /\ ConfirmedWasWritten
    BY DEF Init, RowsWritten, ConfirmedWasWritten, NoCall
  <1>5. QED
    BY <1>1, <1>2, <1>3, <1>4 DEF Dispatching

(* Every step leaves a well-formed state, with calls that name an operation. *)
LEMMA ShapeStep == Shape /\ [Next]_vars => Shape'
  <1> SUFFICES ASSUME Shape, [Next]_vars PROVE Shape'
    OBVIOUS
  <1> USE ConstantsAssumption, NoCallTyped
  <1>a. ASSUME NEW c \in Caller, ~At(c, "idle") PROVE On(c) \in Target /\ call[c].op \in OpKey
    BY <1>a DEF Shape, CallsNamed, On
  <1>b. ASSUME NEW c \in Caller, End(c) PROVE call' \in [Caller -> Call] /\ CallsNamed'
    BY <1>b DEF End, Shape, TypeOK, CallsNamed, At, NoCall
  <1>c. ASSUME NEW c \in Caller, NEW s \in Steps, ~At(c, "idle"), GoTo(c, s)
        PROVE  call' \in [Caller -> Call] /\ CallsNamed'
    <2>1. [call[c] EXCEPT !.at = s] \in Call
      BY <1>c DEF Shape, TypeOK, Call
    <2>2. call' \in [Caller -> Call]
      BY <1>c, <2>1 DEF GoTo, Shape, TypeOK
    <2>3. CallsNamed'
      BY <1>c DEF GoTo, Shape, TypeOK, CallsNamed, At, Call
    <2>4. QED
      BY <2>2, <2>3
  <1>d. ASSUME NEW c \in Caller, NEW x \in Call, x.op \in OpKey,
               call' = [call EXCEPT ![c] = x]
        PROVE  call' \in [Caller -> Call] /\ CallsNamed'
    BY <1>d DEF Shape, TypeOK, CallsNamed, At
  <1>e. ASSUME NEW c \in Caller, ~At(c, "idle"), NEW s \in Steps, NEW g \in Nat
        PROVE  LET x == [call[c] EXCEPT !.at = s, !.gen = g] IN x \in Call /\ x.op \in OpKey
    <2>1. call[c] \in Call /\ call[c].op \in OpKey
      BY <1>a, <1>e DEF Shape, TypeOK
    <2>2. [call[c] EXCEPT !.at = s] \in Call /\ [call[c] EXCEPT !.at = s].op = call[c].op
      BY <2>1 DEF Call
    <2>3. [call[c] EXCEPT !.at = s, !.gen = g] \in Call
      BY <2>2 DEF Call
    <2>4. QED
      BY <2>1, <2>3 DEF Call
  <1> USE DEF Steps
  <1>1. ASSUME NEW c \in Caller, NEW o \in OpKey, NEW r \in Run, Admit(c, o, r) PROVE Shape'
    <2> DEFINE x == [at |-> "admitted", via |-> BrokerOf[c], op |-> o, run |-> r,
                     old |-> 0, gen |-> 0]
    <2>1. x \in Call /\ x.op \in OpKey
      <3>1. BrokerOf[c] \in Broker /\ r \in Nat
        BY DEF Run
      <3>2. QED
        BY <3>1 DEF Call
    <2>2. call' \in [Caller -> Call] /\ CallsNamed'
      <3> HIDE DEF x
      <3>1. call' = [call EXCEPT ![c] = x]
        BY <1>1 DEF Admit, x
      <3>2. QED
        BY <2>1, <3>1, <1>d
    <2>3. QED
      BY <1>1, <2>2 DEF Admit, Shape, TypeOK, registry, provider
  <1>2. ASSUME NEW c \in Caller, ReserveBudget(c) PROVE Shape'
    BY <1>2, <1>a, <1>b, <1>c DEF ReserveBudget, Shape, TypeOK, At, registry, provider
  <1>3. ASSUME NEW c \in Caller, Acquire(c) PROVE Shape'
    <2>1. CASE ~Free(On(c))
      BY <1>3, <2>1, <1>b DEF Acquire, Shape, TypeOK, At, provider
    <2>2. CASE Free(On(c))
      <3> DEFINE t == On(c)
                 g == NextGeneration(t)
                 x == [call[c] EXCEPT !.at = "leased", !.gen = g]
                 l == [held |-> TRUE, owner |-> call[c].run, gen |-> g, expired |-> FALSE]
      <3>1. ~At(c, "idle") /\ t \in Target /\ g \in Nat
        BY <1>3, <1>a DEF Acquire, At, NextGeneration, Shape, TypeOK
      <3>2. x \in Call /\ x.op \in OpKey /\ l \in Lease
        <4>1. call[c].run \in Nat
          BY DEF Shape, TypeOK, Call
        <4>2. l \in Lease
          BY <3>1, <4>1 DEF Lease
        <4>3. QED
          BY <3>1, <4>2, <1>e
      <3>3. call' = [call EXCEPT ![c] = x] /\ lease' = [lease EXCEPT ![t] = l]
            /\ generation' = [generation EXCEPT ![t] = g]
        BY <1>3, <2>2 DEF Acquire
      <3> HIDE DEF x, l, g
      <3>4. call' \in [Caller -> Call] /\ CallsNamed'
        BY <3>2, <3>3, <1>d
      <3>5. lease' \in [Target -> Lease] /\ generation' \in [Target -> Nat]
        BY <3>1, <3>2, <3>3 DEF Shape, TypeOK
      <3>6. QED
        BY <1>3, <3>4, <3>5 DEF Acquire, Shape, TypeOK, provider
    <2>3. QED
      BY <2>1, <2>2
  <1>4. ASSUME NEW c \in Caller, ArmFence(c) PROVE Shape'
    BY <1>4, <1>a, <1>c DEF ArmFence, Shape, TypeOK, At, Call, registry
  <1>5. ASSUME NEW c \in Caller, CheckBoundary(c) PROVE Shape'
    BY <1>5, <1>a, <1>c DEF CheckBoundary, Shape, TypeOK, At, registry, provider
  <1>6. ASSUME NEW c \in Caller, Mutate(c) PROVE Shape'
    <2>1. ~At(c, "idle") /\ On(c) \in Target /\ call[c].op \in OpKey /\ call[c].gen \in Nat
      BY <1>6, <1>a DEF Mutate, At, Shape, TypeOK, Call
    <2>2. call' \in [Caller -> Call] /\ CallsNamed'
      BY <1>6, <2>1, <1>c DEF Mutate
    <2>3. /\ row' \in [Target -> [op : OpKey \cup {None}, gen : Nat]]
          /\ writes' \in [OpKey -> Nat]
      <3>1. [op |-> call[c].op, gen |-> call[c].gen] \in [op : OpKey \cup {None}, gen : Nat]
        BY <2>1
      <3>2. writes[call[c].op] + 1 \in Nat
        BY <2>1 DEF Shape, TypeOK
      <3>3. \/ UNCHANGED <<row, writes>>
            \/ /\ row' = [row EXCEPT ![On(c)] = [op |-> call[c].op, gen |-> call[c].gen]]
               /\ writes' = [writes EXCEPT ![call[c].op] = writes[call[c].op] + 1]
        BY <1>6 DEF Mutate
      <3> DEFINE e == [op |-> call[c].op, gen |-> call[c].gen]
                 n == writes[call[c].op] + 1
                 E == [op : OpKey \cup {None}, gen : Nat]
      <3>4. /\ e \in E /\ n \in Nat
            /\ row \in [Target -> E] /\ writes \in [OpKey -> Nat]
            /\ \/ UNCHANGED <<row, writes>>
               \/ row' = [row EXCEPT ![On(c)] = e] /\ writes' = [writes EXCEPT ![call[c].op] = n]
        BY <3>1, <3>2, <3>3 DEF Shape, TypeOK
      <3> HIDE DEF e, n, E
      <3>5. row' \in [Target -> E] /\ writes' \in [OpKey -> Nat]
        BY <2>1, <3>4
      <3>6. QED
        BY <3>5 DEF E
    <2>4. QED
      BY <1>6, <2>2, <2>3 DEF Mutate, Shape, TypeOK, registry
  <1>7. ASSUME NEW c \in Caller, Consume(c) PROVE Shape'
    BY <1>7, <1>a, <1>c DEF Consume, Drop, Shape, TypeOK, At, provider
  <1>8. ASSUME NEW c \in Caller, Release(c) PROVE Shape'
    BY <1>8, <1>a, <1>b DEF Release, Drop, Shape, TypeOK, At, provider
  <1>9. ASSUME NEW c \in Caller, Commit(c) PROVE Shape'
    BY <1>9, <1>a, <1>b DEF Commit, Recorder, Shape, TypeOK, At, Call, registry, provider
  <1>10. ASSUME NEW c \in Caller, Crash(c) PROVE Shape'
    BY <1>10, <1>b DEF Crash, Shape, TypeOK, At, registry, provider
  <1>11. ASSUME NEW c \in Caller, NEW o \in OpKey, NEW r \in Run, ReplaceRead(c, o, r) PROVE Shape'
    BY <1>11 DEF ReplaceRead, Shape, TypeOK, CallsNamed, At, Call, Lease, Run, registry, provider
  <1>12. ASSUME NEW c \in Caller, Invalidate(c) PROVE Shape'
    <2>1. CASE ~Invalidated(c)
      BY <1>12, <2>1, <1>b DEF Invalidate, Shape, TypeOK, At, registry
    <2>2. CASE Invalidated(c)
      <3> DEFINE g == Successor(call[c].gen)
                 x == [call[c] EXCEPT !.at = "invalidated", !.gen = g]
      <3>1. ~At(c, "idle") /\ On(c) \in Target /\ g \in Nat
        BY SMTT(40), <1>12, <1>a DEF Invalidate, At, Successor, Shape, TypeOK, Call
      <3>2. x \in Call /\ x.op \in OpKey
        BY <3>1, <1>e
      <3>3. call' = [call EXCEPT ![c] = x] /\ fence' = [fence EXCEPT ![On(c)] = g]
        BY <1>12, <2>2 DEF Invalidate
      <3> HIDE DEF x, g
      <3>4. call' \in [Caller -> Call] /\ CallsNamed'
        BY <3>2, <3>3, <1>d
      <3>5. QED
        BY <1>12, <3>1, <3>3, <3>4 DEF Invalidate, Shape, TypeOK, registry
    <2>3. QED
      BY <2>1, <2>2
  <1>13. ASSUME NEW c \in Caller, ReplaceLease(c) PROVE Shape'
    <2>1. ~At(c, "idle") /\ On(c) \in Target /\ call[c].gen \in Nat /\ call[c].run \in Nat
      BY <1>13, <1>a DEF ReplaceLease, At, Shape, TypeOK, Call
    <2>2. call' \in [Caller -> Call] /\ CallsNamed'
      BY <1>13, <2>1, <1>b, <1>c DEF ReplaceLease
    <2>3. [held |-> TRUE, owner |-> call[c].run, gen |-> call[c].gen, expired |-> FALSE] \in Lease
      BY <2>1 DEF Lease
    <2>4. /\ lease' \in [Target -> Lease] /\ generation' \in [Target -> Nat]
          /\ handed' \in [Target -> Nat]
      <3>1. \/ UNCHANGED registry
            \/ /\ lease' = [lease EXCEPT ![On(c)] = [held |-> TRUE, owner |-> call[c].run,
                                                    gen |-> call[c].gen, expired |-> FALSE]]
               /\ generation' = [generation EXCEPT ![On(c)] = call[c].gen]
               /\ handed' = [handed EXCEPT ![On(c)] = call[c].gen]
        BY <1>13 DEF ReplaceLease, Issued
      <3>2. CASE UNCHANGED registry
        BY <3>2 DEF Shape, TypeOK, registry
      <3>3. CASE ~UNCHANGED registry
        <4> DEFINE l == [held |-> TRUE, owner |-> call[c].run, gen |-> call[c].gen,
                         expired |-> FALSE]
        <4>1. l \in Lease
          BY <2>3
        <4>2. lease' = [lease EXCEPT ![On(c)] = l]
          BY <3>1, <3>3
        <4> HIDE DEF l
        <4>3. lease' \in [Target -> Lease]
          BY <4>1, <4>2 DEF Shape, TypeOK
        <4>4. QED
          BY <4>3, <2>1, <3>1, <3>3 DEF Shape, TypeOK
      <3>4. QED
        BY <3>2, <3>3
    <2>5. QED
      BY <1>13, <2>2, <2>4 DEF ReplaceLease, Shape, TypeOK, provider
  <1>14. ASSUME NEW t \in Target, Expire(t) PROVE Shape'
    BY <1>14 DEF Expire, Shape, TypeOK, CallsNamed, At, Lease, provider
  <1>15. ASSUME Reassign \/ Cancel PROVE Shape'
    BY <1>15 DEF Reassign, Cancel, Shape, TypeOK, CallsNamed, At, registry, provider
  <1>16. ASSUME UNCHANGED vars PROVE Shape'
    BY <1>16 DEF vars, Shape, TypeOK, CallsNamed, At, registry, provider
  <1>17. QED
    BY <1>1, <1>2, <1>3, <1>4, <1>5, <1>6, <1>7, <1>8, <1>9, <1>10, <1>11, <1>12, <1>13, <1>14,
       <1>15, <1>16 DEF Next, Dispatch, Replace

(* The registry's side: a lease that is held is the newest, and the fence is  *)
(* at most one generation ahead.                                              *)
LEMMA RegistryStep ==
  ASSUME Shape, LeaseIsNewest, Issuance, FenceAhead, [Next]_vars
  PROVE  LeaseIsNewest' /\ Issuance' /\ FenceAhead'
  <1> DEFINE Goal == LeaseIsNewest' /\ Issuance' /\ FenceAhead'
  <1>a. /\ call \in [Caller -> Call] /\ lease \in [Target -> Lease]
        /\ generation \in [Target -> Nat] /\ fence \in [Target -> Nat]
    BY DEF Shape, TypeOK
  <1>b. \A c \in Caller : ~At(c, "idle") => On(c) \in Target
    BY ConstantsAssumption DEF Shape, CallsNamed, On
  \* Steps that touch neither the fence nor the generations, and only drop leases.
  <1>c. ASSUME UNCHANGED <<generation, fence>>,
               \A t \in Target : lease'[t].held => lease[t].held /\ lease'[t].gen = lease[t].gen,
               \A c \in Caller : call'[c].at \in {"leased", "armed", "replacing"} =>
                   /\ call[c].at \in {"leased", "armed", "replacing"}
                   /\ call'[c].gen = call[c].gen /\ call'[c].op = call[c].op
        PROVE  Goal
    BY <1>c DEF LeaseIsNewest, Issuance, FenceAhead, On
  <1>d. ASSUME NEW c \in Caller, UNCHANGED <<generation, fence>>,
               \A t \in Target : lease'[t].held => lease[t].held /\ lease'[t].gen = lease[t].gen,
               \/ End(c)
               \/ \E s \in Steps \ {"leased", "armed", "replacing"} : GoTo(c, s)
        PROVE  Goal
    <2>1. CASE End(c)
      BY <2>1, <1>a, <1>c, <1>d DEF End, NoCall
    <2>2. ASSUME NEW s \in Steps \ {"leased", "armed", "replacing"}, GoTo(c, s) PROVE Goal
      BY <2>2, <1>a, <1>c, <1>d DEF GoTo, Call
    <2>3. QED
      BY <1>d, <2>1, <2>2
  <1> USE DEF Steps
  <1>1. ASSUME NEW c \in Caller, NEW o \in OpKey, NEW r \in Run, Admit(c, o, r) PROVE Goal
    BY <1>1, <1>a, <1>c DEF Admit, registry, provider
  <1>2. ASSUME NEW c \in Caller, ReserveBudget(c) PROVE Goal
    BY <1>2, <1>a, <1>d DEF ReserveBudget, registry, provider
  <1>3. ASSUME NEW c \in Caller, Acquire(c) PROVE Goal
    <2>1. CASE ~Free(On(c))
      BY <1>3, <2>1, <1>a, <1>c DEF Acquire, End, NoCall, provider
    <2>2. CASE Free(On(c))
      <3> DEFINE t == On(c)
      <3>1. t \in Target
        BY <1>3, <1>b DEF Acquire, At
      <3>2. /\ lease' = [lease EXCEPT ![t] = [held |-> TRUE, owner |-> call[c].run,
                                             gen |-> generation[t] + 1, expired |-> FALSE]]
            /\ generation' = [generation EXCEPT ![t] = generation[t] + 1]
            /\ call' = [call EXCEPT ![c] = [call[c] EXCEPT !.at = "leased",
                                                         !.gen = generation[t] + 1]]
            /\ fence' = fence
        BY <1>3, <2>2 DEF Acquire, NextGeneration, provider
      <3>3. \A u \in Target : generation'[u] \in Nat /\ generation[u] <= generation'[u]
        BY <3>1, <3>2, <1>a
      <3>4. LeaseIsNewest'
        BY <3>1, <3>2, <1>a DEF LeaseIsNewest
      <3>5. Issuance'
        <4> SUFFICES ASSUME NEW d \in Caller, call'[d].at \in {"leased", "armed", "replacing"}
                     PROVE  call'[d].gen <= generation'[On(d)']
          BY DEF Issuance
        <4>1. CASE d = c
          BY <4>1, <3>1, <3>2, <1>a DEF On, Call
        <4>2. CASE d # c
          <5>1. call'[d] = call[d] /\ On(d) \in Target
            BY <4>2, <3>2, <1>a, <1>b DEF At
          <5>2. QED
            BY <5>1, <3>3, <1>a DEF Issuance, On, Call
        <4>3. QED
          BY <4>1, <4>2
      <3>6. FenceAhead'
        BY <3>2, <3>3, <1>a DEF FenceAhead
      <3>7. QED
        BY <3>4, <3>5, <3>6
    <2>3. QED
      BY <2>1, <2>2
  <1>4. ASSUME NEW c \in Caller, ArmFence(c) PROVE Goal
    BY <1>4, <1>a, <1>b DEF ArmFence, At, GoTo, LeaseIsNewest, Issuance, FenceAhead, On, Call, registry
  <1>5. ASSUME NEW c \in Caller, CheckBoundary(c) PROVE Goal
    BY <1>5, <1>a, <1>d DEF CheckBoundary, registry, provider
  <1>6. ASSUME NEW c \in Caller, Mutate(c) PROVE Goal
    BY <1>6, <1>a, <1>d DEF Mutate, registry
  <1>7. ASSUME NEW c \in Caller, Consume(c) PROVE Goal
    BY <1>7, <1>a, <1>d DEF Consume, Drop, NoLease, provider
  <1>8. ASSUME NEW c \in Caller, Release(c) PROVE Goal
    BY <1>8, <1>a, <1>d DEF Release, Drop, NoLease, provider
  <1>9. ASSUME NEW c \in Caller, Commit(c) PROVE Goal
    BY <1>9, <1>a, <1>d DEF Commit, registry, provider
  <1>10. ASSUME NEW c \in Caller, Crash(c) PROVE Goal
    BY <1>10, <1>a, <1>d DEF Crash, registry, provider
  <1>11. ASSUME NEW c \in Caller, NEW o \in OpKey, NEW r \in Run, ReplaceRead(c, o, r) PROVE Goal
    BY <1>11, <1>a, ConstantsAssumption
       DEF ReplaceRead, LeaseIsNewest, Issuance, FenceAhead, On, Lease, registry, provider
  <1>12. ASSUME NEW c \in Caller, Invalidate(c) PROVE Goal
    <2>1. CASE ~Invalidated(c)
      BY <1>12, <2>1, <1>a, <1>c DEF Invalidate, End, NoCall, registry
    <2>2. CASE Invalidated(c)
      <3> DEFINE t == On(c)
                 g == call[c].gen + 1
      <3>1. t \in Target /\ call[c].gen \in Nat
        BY <1>12, <1>a, <1>b DEF Invalidate, At, Call
      <3>2. call[c].gen <= generation[t]
        BY <1>12 DEF Invalidate, At, Issuance
      <3>3. /\ fence' = [fence EXCEPT ![t] = g]
            /\ call' = [call EXCEPT ![c] = [call[c] EXCEPT !.at = "invalidated", !.gen = g]]
            /\ UNCHANGED <<lease, generation>>
        BY <1>12, <2>2 DEF Invalidate, Successor, registry
      <3>4. LeaseIsNewest' /\ FenceAhead'
        BY <3>1, <3>2, <3>3, <1>a DEF LeaseIsNewest, FenceAhead
      <3>5. Issuance'
        BY <3>3, <1>a DEF Issuance, On, Call
      <3>6. QED
        BY <3>4, <3>5
    <2>3. QED
      BY <2>1, <2>2
  <1>13. ASSUME NEW c \in Caller, ReplaceLease(c) PROVE Goal
    <2> DEFINE t == On(c)
               g == call[c].gen
    <2>1. t \in Target /\ g \in Nat
      BY <1>13, <1>a, <1>b DEF ReplaceLease, At, Call
    <2>2. CASE End(c) /\ UNCHANGED registry
      BY <1>13, <2>2, <1>a, <1>c DEF ReplaceLease, End, NoCall, registry, provider
    <2>3. CASE ~(End(c) /\ UNCHANGED registry)
      <3>1. /\ lease[t].held /\ lease[t].gen + 1 = g
            /\ lease' = [lease EXCEPT ![t] = [held |-> TRUE, owner |-> call[c].run,
                                             gen |-> g, expired |-> FALSE]]
            /\ generation' = [generation EXCEPT ![t] = g]
            /\ call' = [call EXCEPT ![c].at = "checked"]
            /\ fence' = fence
        BY <1>13, <2>3 DEF ReplaceLease, Issued, Successor, GoTo, provider
      <3>2. generation[t] + 1 = g
        BY <2>1, <3>1 DEF LeaseIsNewest
      <3>3. \A u \in Target : generation'[u] \in Nat /\ generation[u] <= generation'[u]
        BY <2>1, <3>1, <3>2, <1>a
      <3>4. LeaseIsNewest'
        BY <2>1, <3>1, <1>a DEF LeaseIsNewest
      <3>5. Issuance'
        BY <3>1, <3>3, <1>a, <1>b DEF Issuance, On, At, Call
      <3>6. FenceAhead'
        BY <3>1, <3>3, <1>a DEF FenceAhead
      <3>7. QED
        BY <3>4, <3>5, <3>6
    <2>4. QED
      BY <2>2, <2>3
  <1>14. ASSUME NEW t \in Target, Expire(t) PROVE Goal
    BY <1>14, <1>a, <1>c DEF Expire, provider, Lease
  <1>15. ASSUME Reassign \/ Cancel \/ UNCHANGED vars PROVE Goal
    BY <1>15, <1>a, <1>c DEF Reassign, Cancel, vars, registry, provider
  <1>16. QED
    BY <1>1, <1>2, <1>3, <1>4, <1>5, <1>6, <1>7, <1>8, <1>9, <1>10, <1>11, <1>12, <1>13, <1>14,
       <1>15 DEF Next, Dispatch, Replace

(* The provider's side, which needs nothing of the registry: the fence is      *)
(* raised above every claim before a call gets one.                            *)
LEMMA ProviderStep ==
  ASSUME Shape, ProviderFence, [Next]_vars
  PROVE  ProviderFence'
  <1>a. /\ call \in [Caller -> Call] /\ fence \in [Target -> Nat]
        /\ handed \in [Target -> Nat] /\ \A t \in Target : row[t].gen \in Nat
        /\ row \in [Target -> [op : OpKey \cup {None}, gen : Nat]]
        /\ \A c \in Caller : call[c].gen \in Nat
    BY DEF Shape, TypeOK, Call
  <1>b. \A c \in Caller : ~At(c, "idle") => On(c) \in Target
    BY ConstantsAssumption DEF Shape, CallsNamed, On
  \* Steps that leave the provider and the handed generations alone and arm no call.
  <1>c. ASSUME UNCHANGED <<fence, row, handed>>,
               \A c \in Caller : Armed(c)' =>
                   Armed(c) /\ call'[c].gen = call[c].gen /\ call'[c].op = call[c].op
        PROVE  ProviderFence'
    BY <1>c DEF ProviderFence, Claims, On
  <1>d. ASSUME NEW c \in Caller, UNCHANGED <<fence, row, handed>>,
               \/ End(c)
               \/ ~Armed(c) /\ \E s \in Steps \ {"armed", "checked", "invalidated"} : GoTo(c, s)
               \/ Armed(c) /\ \E s \in Steps : GoTo(c, s)
        PROVE  ProviderFence'
    <2>1. CASE End(c)
      BY <2>1, <1>a, <1>c, <1>d DEF End, NoCall, Armed
    <2>2. ASSUME NEW s \in Steps, Armed(c) \/ s \notin {"armed", "checked", "invalidated"},
                 GoTo(c, s)
          PROVE  ProviderFence'
      BY <2>2, <1>a, <1>c, <1>d DEF GoTo, Call, Armed
    <2>3. QED
      BY <1>d, <2>1, <2>2
  \* Steps that raise the fence of a target to the generation of the call.
  <1>e. ASSUME NEW c \in Caller, NEW t \in Target, t = On(c), NEW g \in Nat,
               fence[t] < g, fence' = [fence EXCEPT ![t] = g], UNCHANGED <<row, handed>>,
               call'[c].gen = g, call'[c].op = call[c].op,
               \A d \in Caller : d # c => call'[d] = call[d]
        PROVE  ProviderFence'
    <2>1. \A u \in Target : fence[u] <= fence'[u] /\ fence'[u] \in Nat
      BY <1>a, <1>e
    <2>2. fence'[t] = g /\ On(c)' = t
      BY <1>a, <1>e DEF On
    <2>3. ASSUME NEW d \in Caller, d # c, Armed(d)'
          PROVE  /\ Armed(d) /\ On(d)' = On(d) /\ On(d) \in Target /\ call'[d].gen = call[d].gen
                 /\ Claims(d)' => Claims(d) /\ On(d) # t
      <3>1. call'[d] = call[d]
        BY <1>e, <2>3
      <3>2. Armed(d) /\ On(d)' = On(d) /\ On(d) \in Target /\ call[d].gen <= fence[On(d)]
        BY <2>3, <3>1, <1>b DEF Armed, On, At, ProviderFence
      <3>3. On(d) # t => fence'[On(d)] = fence[On(d)]
        BY <1>a, <1>e, <3>2
      <3>4. On(d) = t => call[d].gen # fence'[t]
        BY <1>a, <1>e, <2>2, <3>2
      <3>5. QED
        BY <3>1, <3>2, <3>3, <3>4 DEF Claims
    <2>4. \A d \in Caller : Armed(d)' => call'[d].gen <= fence'[On(d)']
      BY <1>a, <1>e, <2>1, <2>2, <2>3 DEF ProviderFence
    <2>5. \A d, f \in Caller : Claims(d)' /\ Claims(f)' /\ On(d)' = On(f)' => d = f
      BY <2>2, <2>3 DEF ProviderFence, Claims
    <2>6. \A d \in Caller : Claims(d)' => row'[On(d)'].gen < fence'[On(d)']
      <3>1. row[t].gen < fence'[t]
        BY <1>a, <1>e, <2>2 DEF ProviderFence
      <3>2. ASSUME NEW d \in Caller, d # c, Claims(d)' PROVE row'[On(d)'].gen < fence'[On(d)']
        <4>1. Claims(d) /\ On(d)' = On(d) /\ On(d) # t /\ On(d) \in Target
          BY <2>3, <3>2 DEF Claims
        <4>2. row[On(d)].gen < fence[On(d)]
          BY <4>1 DEF ProviderFence
        <4>3. QED
          BY <4>1, <4>2, <1>a, <1>e
      <3>3. QED
        BY <1>e, <2>2, <3>1, <3>2
    <2>7. \A u \in Target : row'[u].gen <= fence'[u] /\ handed'[u] <= fence'[u]
      BY <1>a, <1>e, <2>1 DEF ProviderFence
    <2>8. QED
      BY <2>4, <2>5, <2>6, <2>7 DEF ProviderFence
  <1> USE DEF Steps
  <1>1. ASSUME NEW c \in Caller, NEW o \in OpKey, NEW r \in Run, Admit(c, o, r) PROVE ProviderFence'
    BY <1>1, <1>a, <1>c DEF Admit, Armed, registry, provider
  <1>2. ASSUME NEW c \in Caller, ReserveBudget(c) PROVE ProviderFence'
    BY <1>2, <1>d DEF ReserveBudget, Armed, At, registry, provider
  <1>3. ASSUME NEW c \in Caller, Acquire(c) PROVE ProviderFence'
    <2>1. CASE ~Free(On(c))
      BY <1>3, <2>1, <1>d DEF Acquire, provider
    <2>2. CASE Free(On(c))
      BY ZenonT(60), <1>3, <2>2, <1>a, <1>c DEF Acquire, Armed, Call, provider
    <2>3. QED
      BY <2>1, <2>2
  <1>4. ASSUME NEW c \in Caller, ArmFence(c) PROVE ProviderFence'
    <2>1. CASE ~Armable(On(c), call[c].gen)
      BY <1>4, <2>1, <1>d DEF ArmFence, Armed, At, registry
    <2>2. CASE Armable(On(c), call[c].gen)
      <3>1. On(c) \in Target /\ call[c].gen \in Nat /\ fence[On(c)] < call[c].gen
        BY <1>4, <2>2, <1>a, <1>b DEF ArmFence, Armable, At
      <3>2. /\ fence' = [fence EXCEPT ![On(c)] = call[c].gen]
            /\ UNCHANGED <<row, handed>>
            /\ call' = [call EXCEPT ![c].at = "armed"]
        BY <1>4, <2>2 DEF ArmFence, GoTo, registry
      <3>3. /\ call'[c].gen = call[c].gen /\ call'[c].op = call[c].op
            /\ \A d \in Caller : d # c => call'[d] = call[d]
        BY <3>2, <1>a DEF Call
      <3>4. QED
        BY <3>1, <3>2, <3>3, <1>e
    <2>3. QED
      BY <2>1, <2>2
  <1>5. ASSUME NEW c \in Caller, CheckBoundary(c) PROVE ProviderFence'
    BY <1>5, <1>d DEF CheckBoundary, Armed, At, registry, provider
  <1>6. ASSUME NEW c \in Caller, Mutate(c) PROVE ProviderFence'
    <2>1. CASE UNCHANGED row
      BY <1>6, <2>1, <1>d DEF Mutate, Armed, At, registry
    <2>2. CASE ~UNCHANGED row
      <3> DEFINE t == On(c)
      <3>1. /\ Claims(c) /\ t \in Target
            /\ row' = [row EXCEPT ![t] = [op |-> call[c].op, gen |-> fence[t]]]
            /\ UNCHANGED <<fence, handed>>
            /\ call' = [call EXCEPT ![c].at = "mutated"]
        BY <1>6, <2>2, <1>b DEF Mutate, Writable, Claims, Armed, At, GoTo, registry
      <3>2. ASSUME NEW d \in Caller, Armed(d)'
            PROVE  d # c /\ Armed(d) /\ call'[d] = call[d]
        BY <3>1, <3>2, <1>a DEF Armed, Call
      <3>3. ASSUME NEW d \in Caller, Claims(d)'
            PROVE  Claims(d) /\ On(d)' = On(d) /\ On(d) # t /\ On(d) \in Target
        <4>1. d # c /\ Armed(d) /\ call'[d] = call[d] /\ On(d)' = On(d)
          BY <3>2, <3>3 DEF Claims, On
        <4>2. Claims(d)
          BY <3>1, <3>3, <4>1 DEF Claims
        <4>3. QED
          BY <3>1, <4>1, <4>2, <1>b DEF ProviderFence, Armed, At
      <3>4. \A u \in Target : row'[u].gen = IF u = t THEN fence[t] ELSE row[u].gen
        BY <3>1, <1>a
      <3>5. \A d \in Caller : Armed(d)' => call'[d].gen <= fence'[On(d)']
        BY <3>1, <3>2 DEF ProviderFence, On
      <3>6. \A d, f \in Caller : Claims(d)' /\ Claims(f)' /\ On(d)' = On(f)' => d = f
        BY <3>3 DEF ProviderFence
      <3>7. \A d \in Caller : Claims(d)' => row'[On(d)'].gen < fence'[On(d)']
        BY <3>1, <3>3, <3>4 DEF ProviderFence
      <3>8. \A u \in Target : row'[u].gen <= fence'[u] /\ handed'[u] <= fence'[u]
        BY <3>1, <3>4, <1>a DEF ProviderFence
      <3>9. QED
        BY <3>5, <3>6, <3>7, <3>8 DEF ProviderFence
    <2>3. QED
      BY <2>1, <2>2
  <1>7. ASSUME NEW c \in Caller, Consume(c) PROVE ProviderFence'
    BY <1>7, <1>d DEF Consume, Armed, At, provider
  <1>8. ASSUME NEW c \in Caller, Release(c) PROVE ProviderFence'
    BY <1>8, <1>d DEF Release, provider
  <1>9. ASSUME NEW c \in Caller, Commit(c) PROVE ProviderFence'
    BY <1>9, <1>d DEF Commit, registry, provider
  <1>10. ASSUME NEW c \in Caller, Crash(c) PROVE ProviderFence'
    BY <1>10, <1>d DEF Crash, registry, provider
  <1>11. ASSUME NEW c \in Caller, NEW o \in OpKey, NEW r \in Run, ReplaceRead(c, o, r)
         PROVE  ProviderFence'
    BY <1>11, <1>a, <1>c DEF ReplaceRead, Armed, registry, provider
  <1>12. ASSUME NEW c \in Caller, Invalidate(c) PROVE ProviderFence'
    <2>1. CASE ~Invalidated(c)
      BY <1>12, <2>1, <1>d DEF Invalidate, registry
    <2>2. CASE Invalidated(c)
      <3> DEFINE g == call[c].gen + 1
      <3>1. On(c) \in Target /\ g \in Nat /\ fence[On(c)] < g
        BY <1>12, <2>2, <1>a, <1>b DEF Invalidate, Invalidated, At
      <3>2. /\ fence' = [fence EXCEPT ![On(c)] = g]
            /\ UNCHANGED <<row, handed>>
            /\ call' = [call EXCEPT ![c] = [call[c] EXCEPT !.at = "invalidated", !.gen = g]]
        BY <1>12, <2>2 DEF Invalidate, Successor, registry
      <3> HIDE DEF g
      <3>3. /\ call'[c].gen = g /\ call'[c].op = call[c].op
            /\ \A d \in Caller : d # c => call'[d] = call[d]
        BY <3>2, <1>a DEF Call
      <3>4. QED
        BY <3>1, <3>2, <3>3, <1>e
    <2>3. QED
      BY <2>1, <2>2
  <1>13. ASSUME NEW c \in Caller, ReplaceLease(c) PROVE ProviderFence'
    <2>1. CASE End(c) /\ UNCHANGED registry
      BY <1>13, <2>1, <1>d DEF ReplaceLease, registry, provider
    <2>2. CASE ~(End(c) /\ UNCHANGED registry)
      <3>1. /\ Armed(c) /\ On(c) \in Target
            /\ handed' = [handed EXCEPT ![On(c)] = call[c].gen]
            /\ call' = [call EXCEPT ![c].at = "checked"]
            /\ UNCHANGED <<fence, row>>
        BY <1>13, <2>2, <1>b DEF ReplaceLease, Armed, At, GoTo, provider
      <3>2. \A d \in Caller : /\ Armed(d)' <=> Armed(d)
                              /\ call'[d].gen = call[d].gen /\ call'[d].op = call[d].op
        BY <3>1, <1>a DEF Armed, Call
      <3>3. call[c].gen <= fence[On(c)]
        BY <3>1 DEF ProviderFence
      <3>4. \A u \in Target : handed'[u] <= fence[u]
        BY <3>1, <3>3, <1>a DEF ProviderFence
      <3>5. QED
        BY <3>1, <3>2, <3>4 DEF ProviderFence, Claims, On
    <2>3. QED
      BY <2>1, <2>2
  <1>14. ASSUME NEW t \in Target, Expire(t) PROVE ProviderFence'
    BY <1>14, <1>c DEF Expire, Armed, provider
  <1>15. ASSUME Reassign \/ Cancel \/ UNCHANGED vars PROVE ProviderFence'
    BY <1>15, <1>c DEF Reassign, Cancel, Armed, vars, registry, provider
  <1>16. QED
    BY <1>1, <1>2, <1>3, <1>4, <1>5, <1>6, <1>7, <1>8, <1>9, <1>10, <1>11, <1>12, <1>13, <1>14,
       <1>15 DEF Next, Dispatch, Replace

(* The answers: a call that has an answer, and a row that was committed, are   *)
(* of an operation that was written.                                           *)
LEMMA AnswerStep ==
  ASSUME Shape, RowsWritten, ConfirmedWasWritten, [Next]_vars
  PROVE  RowsWritten' /\ ConfirmedWasWritten'
  <1> DEFINE Goal == RowsWritten' /\ ConfirmedWasWritten'
             Answered(c) == call[c].at \in {"mutated", "returned"}
  <1>a. /\ call \in [Caller -> Call] /\ writes \in [OpKey -> Nat]
        /\ row \in [Target -> [op : OpKey \cup {None}, gen : Nat]]
        /\ recorded \subseteq Broker \X OpKey
    BY DEF Shape, TypeOK
  <1>b. \A c \in Caller : ~At(c, "idle") => On(c) \in Target /\ call[c].op \in OpKey
    BY ConstantsAssumption DEF Shape, CallsNamed, On
  \* Steps that write nothing and bring no new answer.
  <1>c. ASSUME UNCHANGED <<row, writes, recorded>>,
               \A c \in Caller : Answered(c)' => Answered(c) /\ call'[c].op = call[c].op
        PROVE  Goal
    BY <1>c DEF RowsWritten, ConfirmedWasWritten
  <1>d. ASSUME NEW c \in Caller, UNCHANGED <<row, writes, recorded>>,
               \/ End(c)
               \/ ~Answered(c) /\ \E s \in Steps \ {"mutated", "returned"} : GoTo(c, s)
               \/ Answered(c) /\ \E s \in Steps : GoTo(c, s)
        PROVE  Goal
    <2>1. CASE End(c)
      BY <2>1, <1>a, <1>c, <1>d DEF End, NoCall
    <2>2. ASSUME NEW s \in Steps, Answered(c) \/ s \notin {"mutated", "returned"}, GoTo(c, s)
          PROVE  Goal
      BY <2>2, <1>a, <1>c, <1>d DEF GoTo, Call
    <2>3. QED
      BY <1>d, <2>1, <2>2
  <1> USE DEF Steps
  <1>1. ASSUME NEW c \in Caller, NEW o \in OpKey, NEW r \in Run, Admit(c, o, r) PROVE Goal
    BY <1>1, <1>a, <1>c DEF Admit, registry, provider
  <1>2. ASSUME NEW c \in Caller, ReserveBudget(c) PROVE Goal
    BY <1>2, <1>d DEF ReserveBudget, At, registry, provider
  <1>3. ASSUME NEW c \in Caller, Acquire(c) PROVE Goal
    <2>1. CASE ~Free(On(c))
      BY <1>3, <2>1, <1>d DEF Acquire, provider
    <2>2. CASE Free(On(c))
      BY <1>3, <2>2, <1>a, <1>c DEF Acquire, Call, provider
    <2>3. QED
      BY <2>1, <2>2
  <1>4. ASSUME NEW c \in Caller, ArmFence(c) PROVE Goal
    BY <1>4, <1>d DEF ArmFence, At, registry
  <1>5. ASSUME NEW c \in Caller, CheckBoundary(c) PROVE Goal
    BY <1>5, <1>d DEF CheckBoundary, At, registry, provider
  <1>6. ASSUME NEW c \in Caller, Mutate(c) PROVE Goal
    <2>0. At(c, "checked") /\ On(c) \in Target /\ call[c].op \in OpKey /\ call[c].op # None
      BY <1>6, <1>b, ConstantsAssumption DEF Mutate, At
    <2> DEFINE o == call[c].op
    <2>1. CASE GoTo(c, "raising")
      <3>1. \A s \in Steps : GoTo(c, s) => call'[c].at = s
        BY <1>a DEF GoTo, Call
      <3>2. ~GoTo(c, "mutated")
        BY <2>1, <3>1
      <3>3. UNCHANGED <<row, writes, recorded>>
        BY <1>6, <3>2 DEF Mutate
      <3>4. QED
        BY <2>0, <2>1, <3>3, <1>d DEF At
    <2>2. ASSUME GoTo(c, "mutated"), writes'[o] > 0, writes' \in [OpKey -> Nat],
                 \A p \in OpKey : writes[p] > 0 => writes'[p] > 0
          PROVE  ConfirmedWasWritten'
      <3>1. \A d \in Caller : Answered(d)' => d = c \/ Answered(d)
        BY <2>2, <1>a DEF GoTo
      <3>2. \A d \in Caller : call'[d].op = call[d].op
        BY <2>2, <1>a DEF GoTo, Call
      <3>3. recorded' = recorded
        BY <1>6 DEF Mutate
      <3>4. QED
        BY <2>2, <3>1, <3>2, <3>3 DEF ConfirmedWasWritten
    <2>3. CASE Duplicate(c) /\ GoTo(c, "mutated") /\ UNCHANGED <<row, writes>>
      <3>1. writes[o] > 0
        BY <2>0, <2>3 DEF Duplicate, RowsWritten
      <3>2. QED
        BY <2>2, <2>3, <3>1, <1>a DEF RowsWritten
    <2>4. CASE /\ row' = [row EXCEPT ![On(c)] = [op |-> o, gen |-> call[c].gen]]
               /\ writes' = [writes EXCEPT ![o] = writes[o] + 1]
               /\ GoTo(c, "mutated")
      <3>1. /\ writes'[o] > 0 /\ writes' \in [OpKey -> Nat]
            /\ \A p \in OpKey : writes[p] > 0 => writes'[p] > 0
        BY <2>0, <2>4, <1>a
      <3>2. \A t \in Target : row'[t].op = o \/ row'[t].op = row[t].op
        BY <2>0, <2>4, <1>a
      <3>3. RowsWritten'
        BY <3>1, <3>2, <2>0, <1>a DEF RowsWritten
      <3>4. QED
        BY <2>2, <2>4, <3>1, <3>3
    <2>5. QED
      BY <1>6, <2>1, <2>3, <2>4 DEF Mutate
  <1>7. ASSUME NEW c \in Caller, Consume(c) PROVE Goal
    BY <1>7, <1>d DEF Consume, At, provider
  <1>8. ASSUME NEW c \in Caller, Release(c) PROVE Goal
    BY <1>8, <1>d DEF Release, provider
  <1>9. ASSUME NEW c \in Caller, Commit(c) PROVE Goal
    <2>1. call' = [call EXCEPT ![c] = NoCall] /\ UNCHANGED <<row, writes>> /\ At(c, "returned")
      BY <1>9 DEF Commit, End, provider
    <2>2. \A b \in Broker, o \in OpKey : <<b, o>> \in recorded' =>
              <<b, o>> \in recorded \/ o = call[c].op
      BY <1>9 DEF Commit, Recorder
    <2>3. \A d \in Caller : Answered(d)' => Answered(d) /\ call'[d] = call[d]
      BY <2>1, <1>a DEF NoCall
    <2>4. QED
      BY <2>1, <2>2, <2>3 DEF RowsWritten, ConfirmedWasWritten, At
  <1>10. ASSUME NEW c \in Caller, Crash(c) PROVE Goal
    BY <1>10, <1>d DEF Crash, registry, provider
  <1>11. ASSUME NEW c \in Caller, NEW o \in OpKey, NEW r \in Run, ReplaceRead(c, o, r) PROVE Goal
    BY <1>11, <1>a, <1>c DEF ReplaceRead, registry, provider
  <1>12. ASSUME NEW c \in Caller, Invalidate(c) PROVE Goal
    <2>1. CASE ~Invalidated(c)
      BY <1>12, <2>1, <1>d DEF Invalidate, registry
    <2>2. CASE Invalidated(c)
      BY <1>12, <2>2, <1>a, <1>c DEF Invalidate, Call, registry
    <2>3. QED
      BY <2>1, <2>2
  <1>13. ASSUME NEW c \in Caller, ReplaceLease(c) PROVE Goal
    BY <1>13, <1>d DEF ReplaceLease, At, registry, provider
  <1>14. ASSUME NEW t \in Target, Expire(t) PROVE Goal
    BY <1>14, <1>c DEF Expire, provider
  <1>15. ASSUME Reassign \/ Cancel \/ UNCHANGED vars PROVE Goal
    BY <1>15, <1>c DEF Reassign, Cancel, vars, registry, provider
  <1>16. QED
    BY <1>1, <1>2, <1>3, <1>4, <1>5, <1>6, <1>7, <1>8, <1>9, <1>10, <1>11, <1>12, <1>13, <1>14,
       <1>15 DEF Next, Dispatch, Replace

(* The invariant is inductive.                                                 *)
LEMMA DispatchingInvariant == Spec => []Dispatching
  <1>1. Dispatching /\ [Next]_vars => Dispatching'
    BY ShapeStep, RegistryStep, ProviderStep, AnswerStep DEF Dispatching
  <1>2. QED
    BY InitDispatching, <1>1, PTL DEF Spec

(* Every state of managed.py's tables and calls is well formed.                *)
THEOREM TypeCorrect == Spec => []TypeOK
  <1>1. Dispatching => TypeOK
    BY DEF Dispatching, Shape
  <1>2. QED
    BY <1>1, DispatchingInvariant, PTL

(* SQLiteLeaseRegistry: the lease that is held is the newest of its target.     *)
THEOREM LeasesAreNewest == Spec => []LeaseIsNewest
  <1>1. Dispatching => LeaseIsNewest
    BY DEF Dispatching
  <1>2. QED
    BY <1>1, DispatchingInvariant, PTL

(* replace_active_run leaves the fence at most one generation ahead.            *)
THEOREM FenceStaysClose == Spec => []FenceAhead
  <1>1. Dispatching => FenceAhead
    BY DEF Dispatching
  <1>2. QED
    BY <1>1, DispatchingInvariant, PTL

(* Two calls never both carry the generation the provider accepts.              *)
THEOREM OneWriter == Spec => []OneWriterPerFence
  <1>1. Dispatching => OneWriterPerFence
    BY DEF Dispatching, ProviderFence, OneWriterPerFence, Claims, Armed
  <1>2. QED
    BY <1>1, DispatchingInvariant, PTL

(* A broker's row and an answer stand for a write of that very operation.       *)
THEOREM AnswersAreWrites == Spec => []ConfirmedWasWritten
  <1>1. Dispatching => ConfirmedWasWritten
    BY DEF Dispatching
  <1>2. QED
    BY <1>1, DispatchingInvariant, PTL

(* A step that writes a target writes it under the fence, above what was there  *)
(* and not below what was handed over.                                          *)
LEMMA WriteStep ==
  ASSUME Dispatching, [Next]_vars, NEW t \in Target, row'[t] # row[t]
  PROVE  row'[t].gen > row[t].gen /\ row'[t].gen >= handed[t]
  <1>1. PICK c \in Caller : Mutate(c)
    BY DEF Next, Dispatch, Replace, Admit, ReserveBudget, Acquire, ArmFence, CheckBoundary,
       Consume, Release, Commit, Crash, ReplaceRead, Invalidate, ReplaceLease, Expire, Reassign,
       Cancel, vars, provider
  <1>2. /\ At(c, "checked") /\ Writable(c)
        /\ row' = [row EXCEPT ![On(c)] = [op |-> call[c].op, gen |-> call[c].gen]]
    BY <1>1 DEF Mutate
  <1>3. row \in [Target -> [op : OpKey \cup {None}, gen : Nat]]
    BY DEF Dispatching, Shape, TypeOK
  <1>4. t = On(c) /\ row'[t].gen = call[c].gen
    BY <1>2, <1>3
  <1>5. Claims(c) /\ call[c].gen = fence[t]
    BY <1>2, <1>4 DEF Claims, Armed, At, Writable
  <1>6. row[t].gen < fence[t] /\ handed[t] <= fence[t]
    BY <1>4, <1>5 DEF Dispatching, ProviderFence
  <1>7. fence[t] \in Nat /\ handed[t] \in Nat /\ row[t].gen \in Nat
    BY <1>3 DEF Dispatching, Shape, TypeOK
  <1>8. QED
    BY <1>4, <1>5, <1>6, <1>7

(* Writes of a target follow the order of its leases.                           *)
THEOREM WritesFollowLeases == Spec => WritesAdvance
  <1>1. Dispatching /\ [Next]_vars =>
            [\A t \in Target : row'[t] # row[t] => row'[t].gen > row[t].gen]_vars
    BY WriteStep
  <1>2. QED
    BY <1>1, DispatchingInvariant, PTL DEF Spec, WritesAdvance

(* A replaced run writes nothing after the hand-over.                           *)
THEOREM HandOverIsFinal == Spec => ReplacedNeverWrites
  <1>1. Dispatching /\ [Next]_vars =>
            [\A t \in Target : row'[t] # row[t] => row'[t].gen >= handed[t]]_vars
    BY WriteStep
  <1>2. QED
    BY <1>1, DispatchingInvariant, PTL DEF Spec, ReplacedNeverWrites

(* The units that are reserved, of which there are finitely many.              *)
ReservedUnits == UNION {Units(o) : o \in reservations}
Budgeted == reservations \subseteq OpKey /\ IsFiniteSet(ReservedUnits) /\ BudgetRespected

(* One more reservation adds its amount to the sum.                            *)
LEMMA ReservedGrows ==
  ASSUME NEW o \in OpKey, o \notin reservations, IsFiniteSet(ReservedUnits),
         reservations' = reservations \cup {o}
  PROVE  IsFiniteSet(ReservedUnits)' /\ Reserved' = Reserved + Amount[o]
  <1>1. PICK amount \in Nat : amount = Amount[o]
    BY ConstantsAssumption
  <1>2. IsFiniteSet(1 .. amount) /\ Cardinality(1 .. amount) = amount
    BY FS_Interval
  <1>3. PICK sum, own : sum = ReservedUnits /\ own = {o} \X (1 .. amount)
    OBVIOUS
  <1>4. IsFiniteSet(own) /\ Cardinality(own) = amount
    <2>1. IsFiniteSet({o}) /\ Cardinality({o}) = 1
      BY FS_Singleton
    <2>2. PICK single, units : single = {o} /\ units = 1 .. amount
      OBVIOUS
    <2>3. /\ IsFiniteSet(single \X units)
          /\ Cardinality(single \X units) = Cardinality(single) * Cardinality(units)
      BY <1>2, <2>1, <2>2, FS_Product
    <2>4. QED
      BY <1>2, <1>3, <2>1, <2>2, <2>3
  <1>5. sum \cap own = {}
    BY <1>3 DEF ReservedUnits, Units
  <1>6. ReservedUnits' = sum \cup own
    BY <1>1, <1>3 DEF ReservedUnits, Units
  <1>7. IsFiniteSet(sum) /\ Cardinality(sum) \in Nat
    BY <1>3, FS_CardinalityType
  <1>8. /\ IsFiniteSet(sum \cup own)
        /\ Cardinality(sum \cup own) = Cardinality(sum) + Cardinality(own) - Cardinality(sum \cap own)
    BY <1>4, <1>7, FS_Union
  <1>9. Cardinality(sum \cap own) = 0
    BY <1>5, FS_EmptySet
  <1>10. Cardinality(sum \cup own) = Cardinality(sum) + amount
    BY <1>4, <1>7, <1>8, <1>9
  <1>11. Reserved = Cardinality(sum) /\ Reserved' = Cardinality(ReservedUnits')
    BY <1>3 DEF Reserved, ReservedUnits
  <1>12. QED
    BY <1>1, <1>6, <1>8, <1>10, <1>11

(* The reservations of all brokers and callers stay within the budget of the   *)
(* parent, for any amounts, retries and failures (SQLiteBudgetLedger.reserve). *)
THEOREM BudgetHolds == Spec => []BudgetRespected
  <1>1. Init => Budgeted
    <2> SUFFICES ASSUME Init PROVE Budgeted
      OBVIOUS
    <2>1. reservations = {}
      BY DEF Init
    <2>2. ReservedUnits = {}
      BY <2>1 DEF ReservedUnits
    <2>3. Reserved = Cardinality(ReservedUnits)
      BY DEF Reserved, ReservedUnits
    <2>4. QED
      BY <2>1, <2>2, <2>3, FS_EmptySet, ConstantsAssumption DEF Budgeted, BudgetRespected
  <1>2. Shape /\ Budgeted /\ [Next]_vars => Budgeted'
    <2> SUFFICES ASSUME Shape, Budgeted, [Next]_vars PROVE Budgeted'
      OBVIOUS
    <2>1. CASE UNCHANGED reservations
      BY <2>1 DEF Budgeted, ReservedUnits, Units, BudgetRespected, Reserved
    <2>2. ASSUME NEW c \in Caller, ReserveBudget(c), reservations' # reservations
          PROVE  Budgeted'
      <3>1. PICK o : o = call[c].op
        OBVIOUS
      <3>2. o \in OpKey
        BY <2>2, <3>1 DEF ReserveBudget, At, Shape, CallsNamed
      <3>3. /\ o \notin reservations /\ reservations' = reservations \cup {o}
            /\ Reserved + Amount[o] <= Budget
        BY <2>2, <3>1 DEF ReserveBudget, Affordable
      <3>4. IsFiniteSet(ReservedUnits)' /\ Reserved' = Reserved + Amount[o]
        BY <3>2, <3>3, ReservedGrows DEF Budgeted
      <3>5. QED
        BY <3>2, <3>3, <3>4 DEF Budgeted, BudgetRespected
    <2>3. QED
      BY <2>1, <2>2 DEF Next, Dispatch, Replace, Admit, Acquire, ArmFence, CheckBoundary, Mutate,
         Consume, Release, Commit, Crash, ReplaceRead, Invalidate, ReplaceLease, Expire,
         Reassign, Cancel, vars
  <1>3. Dispatching => Shape
    BY DEF Dispatching
  <1>4. Spec => []Budgeted
    BY <1>1, <1>2, <1>3, DispatchingInvariant, PTL DEF Spec
  <1>5. Budgeted => BudgetRespected
    BY DEF Budgeted
  <1>6. QED
    BY <1>4, <1>5, PTL
=============================================================================
