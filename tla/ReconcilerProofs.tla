--------------------------- MODULE ReconcilerProofs ---------------------------
(***************************************************************************)
(* Proofs about Reconciler, for every finite set of workers, every set of  *)
(* events in any order, and every number of versions and failures.         *)
(***************************************************************************)
EXTENDS Reconciler, FiniteSetTheorems, TLAPS

Statuses == {"ready", "blocked", "review", "done"}
Call == [at : Stages, state : State, status : Statuses, event : Event \cup {None},
         version : 0..MaxVersion]

(* The calls that are about to send for a version, or to write the receipt.  *)
Stands(w, at, v) == call[w].at = at /\ call[w].version = v
Standing(at, v) == {w \in Worker : Stands(w, at, v)}
Sending(v) == Cardinality(Standing("send", v))
Receiving(v) == Cardinality(Standing("receipt", v))

(* A call that acknowledges or closes has accepted a version.                *)
Accepting ==
    \A w \in Worker :
        /\ call[w].version <= control.version
        /\ call[w].version # 0 => call[w].state.accepted
        /\ call[w].at \in {"intend", "look", "send", "receipt", "review", "complete"} =>
              call[w].version # 0

(* The types, of the calls and counters too.                                 *)
Shape ==
    /\ state \in State /\ status \in Statuses /\ receipts \subseteq Version
    /\ control \in [version : Version, effective : Nat]
    /\ call \in [Worker -> Call]
    /\ sends \in [Version -> Nat] /\ unknown \in [Version -> Nat] /\ lost \in [Version -> Nat]
    /\ Accepting

(* A field of a card is what the newest of its observed events says that     *)
(* mention it, and as fresh as that event.                                   *)
Telling(st, f) == {e \in st.observed : f \in DOMAIN Says[e]}
Newest(st) ==
    \A f \in Field :
        IF Telling(st, f) = {} THEN st.fields[f] = None /\ st.fresh[f] = 0
        ELSE \E e \in Telling(st, f) :
                /\ \A other \in Telling(st, f) : Order[other] <= Order[e]
                /\ st.fields[f] = Says[e][f] /\ st.fresh[f] = Order[e]
AllNewest == Newest(state) /\ \A w \in Worker : Newest(call[w].state)

(* What was sent is accounted for: without a receipt by the unknown, the     *)
(* lost and those who have just sent; with one, by those who had looked      *)
(* before it was there.                                                      *)
Tally ==
    \A v \in Version :
        IF v \in receipts
        THEN sends[v] + Sending(v) <= Cardinality(Worker) + unknown[v] + lost[v]
        ELSE sends[v] = unknown[v] + lost[v] + Receiving(v)

(* The inductive invariant.                                                  *)
Reconciling == Shape /\ AllNewest /\ Tally

(* The greater of two numbers is one of them.                                *)
LEMMA MaxTyped == \A a, b \in Nat : Max({a, b}) \in Nat
  <1> SUFFICES ASSUME NEW a \in Nat, NEW b \in Nat PROVE Max({a, b}) \in Nat
    OBVIOUS
  <1>1. \E x \in {a, b} : \A y \in {a, b} : x >= y
    OBVIOUS
  <1>2. Max({a, b}) \in {a, b}
    BY <1>1 DEF Max
  <1>3. QED
    BY <1>2

(* What a call builds from a state and an event is a state.                  *)
LEMMA MergedTyped ==
  ASSUME NEW prior \in State, NEW e \in Event
  PROVE  /\ Merged(prior, e) \in State
         /\ Merged(prior, e).observed = prior.observed \cup {e}
         /\ \A f \in Field :
               LET taken == f \in DOMAIN Says[e] /\ Order[e] >= prior.fresh[f] IN
               /\ Merged(prior, e).fields[f] = IF taken THEN Says[e][f] ELSE prior.fields[f]
               /\ Merged(prior, e).fresh[f] = IF taken THEN Order[e] ELSE prior.fresh[f]
  <1> DEFINE taken == {f \in DOMAIN Says[e] : Order[e] >= prior.fresh[f]}
             fields == [f \in Field |-> IF f \in taken THEN Says[e][f] ELSE prior.fields[f]]
             fresh == [f \in Field |-> IF f \in taken THEN Order[e] ELSE prior.fresh[f]]
             latest == Max({prior.latest, Order[e]})
             observed == prior.observed \cup {e}
  <1>1. Merged(prior, e) = [prior EXCEPT !.observed = observed, !.fields = fields,
                                         !.fresh = fresh, !.latest = latest]
    BY DEF Merged, Newer
  <1>2. Order[e] \in Nat /\ prior.latest \in Nat
    BY ConstantsAssumption DEF State
  <1>3. latest \in Nat
    BY <1>2, MaxTyped
  <1>4. fields \in [Field -> BOOLEAN \cup {None}]
    <2>1. \A f \in taken : Says[e][f] \in BOOLEAN
      BY ConstantsAssumption
    <2>2. \A f \in Field : prior.fields[f] \in BOOLEAN \cup {None}
      BY DEF State
    <2>3. QED
      BY <2>1, <2>2
  <1>5. fresh \in [Field -> Nat]
    BY <1>2 DEF State
  <1>6. observed \in SUBSET Event
    BY DEF State
  <1>7. /\ \A f \in Field : fields[f] = IF f \in DOMAIN Says[e] /\ Order[e] >= prior.fresh[f]
                                        THEN Says[e][f] ELSE prior.fields[f]
        /\ \A f \in Field : fresh[f] = IF f \in DOMAIN Says[e] /\ Order[e] >= prior.fresh[f]
                                       THEN Order[e] ELSE prior.fresh[f]
    OBVIOUS
  <1> HIDE DEF fields, fresh, latest, observed
  <1>8. /\ Merged(prior, e) \in State
        /\ Merged(prior, e).observed = observed /\ Merged(prior, e).fields = fields
        /\ Merged(prior, e).fresh = fresh
    BY <1>1, <1>3, <1>4, <1>5, <1>6 DEF State
  <1>9. QED
    BY <1>7, <1>8 DEF observed

(* The merge keeps every field that of its newest event.                     *)
LEMMA MergedNewest ==
  ASSUME NEW prior \in State, NEW e \in Event, Newest(prior)
  PROVE  Newest(Merged(prior, e))
  <1> DEFINE new == Merged(prior, e)
  <1>1. /\ new.observed = prior.observed \cup {e}
        /\ \A f \in Field :
               LET taken == f \in DOMAIN Says[e] /\ Order[e] >= prior.fresh[f] IN
               /\ new.fields[f] = IF taken THEN Says[e][f] ELSE prior.fields[f]
               /\ new.fresh[f] = IF taken THEN Order[e] ELSE prior.fresh[f]
    BY MergedTyped
  <1> HIDE DEF new
  <1>2. prior.observed \subseteq Event /\ \A d \in Event : Order[d] \in Nat \ {0}
    BY ConstantsAssumption DEF State
  <1>3. SUFFICES ASSUME NEW f \in Field
                 PROVE  IF Telling(new, f) = {} THEN new.fields[f] = None /\ new.fresh[f] = 0
                        ELSE \E d \in Telling(new, f) :
                                /\ \A other \in Telling(new, f) : Order[other] <= Order[d]
                                /\ new.fields[f] = Says[d][f] /\ new.fresh[f] = Order[d]
    BY DEF Newest, new
  <1>4. CASE f \notin DOMAIN Says[e]
    <2>1. Telling(new, f) = Telling(prior, f)
      BY <1>1, <1>4 DEF Telling
    <2>2. new.fields[f] = prior.fields[f] /\ new.fresh[f] = prior.fresh[f]
      BY <1>1, <1>4
    <2>3. QED
      BY <2>1, <2>2 DEF Newest
  <1>5. CASE f \in DOMAIN Says[e]
    <2>1. Telling(new, f) = Telling(prior, f) \cup {e}
      BY <1>1, <1>5 DEF Telling
    <2>2. Telling(prior, f) \subseteq Event
      BY <1>2 DEF Telling
    <2>3. CASE Order[e] >= prior.fresh[f]
      <3>1. new.fields[f] = Says[e][f] /\ new.fresh[f] = Order[e]
        BY <1>1, <1>5, <2>3
      <3>2. \A other \in Telling(prior, f) : Order[other] <= Order[e]
        <4>1. CASE Telling(prior, f) = {}
          BY <4>1
        <4>2. CASE Telling(prior, f) # {}
          <5>1. PICK d \in Telling(prior, f) :
                    /\ \A other \in Telling(prior, f) : Order[other] <= Order[d]
                    /\ prior.fresh[f] = Order[d]
            BY <4>2 DEF Newest
          <5>2. Order[d] <= Order[e]
            BY <2>3, <5>1, <1>2, <2>2
          <5>3. QED
            BY <1>2, <2>2, <5>1, <5>2
        <4>3. QED
          BY <4>1, <4>2
      <3>3. e \in Telling(new, f) /\ \A other \in Telling(new, f) : Order[other] <= Order[e]
        BY <1>2, <2>1, <3>2
      <3>4. QED
        BY <3>1, <3>3
    <2>4. CASE ~(Order[e] >= prior.fresh[f])
      <3>1. new.fields[f] = prior.fields[f] /\ new.fresh[f] = prior.fresh[f]
        BY <1>1, <2>4
      <3>2. Telling(prior, f) # {}
        BY <1>2, <2>4 DEF Newest
      <3>3. PICK d \in Telling(prior, f) :
                /\ \A other \in Telling(prior, f) : Order[other] <= Order[d]
                /\ prior.fields[f] = Says[d][f] /\ prior.fresh[f] = Order[d]
        BY <3>2 DEF Newest
      <3>4. Order[e] <= Order[d]
        BY <1>2, <2>2, <2>4, <3>3
      <3>5. \A other \in Telling(new, f) : Order[other] <= Order[d]
        BY <2>1, <3>3, <3>4
      <3>6. QED
        BY <2>1, <3>1, <3>3, <3>5
    <2>5. QED
      BY <2>3, <2>4
  <1>6. QED
    BY <1>4, <1>5

-----------------------------------------------------------------------------
(* Two states that say the same of the task.                                 *)
Tells(st, old) ==
    st.observed = old.observed /\ st.fields = old.fields /\ st.fresh = old.fresh

(* What is newest does not depend on the acknowledgments.                    *)
LEMMA TellsNewest == ASSUME NEW st, NEW old, Tells(st, old), Newest(old) PROVE Newest(st)
  BY DEF Tells, Newest, Telling

(* Nothing is told at first, or of a call that is not in progress.           *)
LEMMA NoCallTyped ==
  /\ NoState \in State /\ NoCall \in Call /\ Newest(NoState)
  /\ NoCall.at = "idle" /\ NoCall.version = 0 /\ NoCall.state = NoState
  <1>1. NoState \in State
    BY DEF NoState, State
  <1>2. NoCall \in Call
    <2>1. 0 \in 0..MaxVersion
      BY ConstantsAssumption
    <2>2. QED
      BY <1>1, <2>1 DEF NoCall, Call, Stages, Statuses
  <1>3. Newest(NoState)
    BY DEF Newest, Telling, NoState
  <1>4. QED
    BY <1>1, <1>2, <1>3 DEF NoCall

(* A call goes on with a state that tells the same of the task.              *)
Moves(w, at, v) ==
    \E y \in Call :
        /\ call' = [call EXCEPT ![w] = y]
        /\ y.at = at /\ y.version = v
        /\ Tells(y.state, call[w].state)
        /\ call[w].state.accepted => y.state.accepted

(* A call that only goes on.                                                 *)
LEMMA GoesMoves ==
  ASSUME Shape, NEW w \in Worker, NEW at \in Stages, Goes(w, at)
  PROVE  Moves(w, at, call[w].version)
  <1> DEFINE y == [call[w] EXCEPT !.at = at]
  <1>1. call[w] \in Call
    BY DEF Shape
  <1>2. /\ y \in Call /\ y.at = at /\ y.version = call[w].version /\ y.state = call[w].state
    BY <1>1 DEF Call
  <1>3. call' = [call EXCEPT ![w] = y]
    BY DEF Goes
  <1> HIDE DEF y
  <1>4. QED
    BY <1>2, <1>3 DEF Moves, Tells

(* A call that notes what became of an acknowledgment.                       *)
LEMMA AcknowledgedMoves ==
  ASSUME Shape, NEW w \in Worker, NEW at \in Stages,
         NEW ack \in {"none", "pending", "unknown", "emitted"}, Acknowledged(w, at, ack)
  PROVE  Moves(w, at, call[w].version)
  <1> DEFINE x == call[w]
             acks == [x.state.acks EXCEPT ![x.version] = ack]
             st == [x.state EXCEPT !.acks = acks]
             y == [x EXCEPT !.at = at, !.state = st]
  <1>1. x \in Call /\ x.state \in State
    BY DEF Shape, Call
  <1>2. acks \in [Version -> {"none", "pending", "unknown", "emitted"}]
    BY <1>1 DEF State
  <1>3. call' = [call EXCEPT ![w] = y]
    BY DEF Acknowledged
  <1> HIDE DEF acks
  <1>4. st \in State /\ Tells(st, x.state) /\ st.accepted = x.state.accepted
    BY <1>1, <1>2 DEF State, Tells
  <1> HIDE DEF st
  <1>5. y \in Call /\ y.at = at /\ y.version = x.version /\ y.state = st
    BY <1>1, <1>4 DEF Call
  <1> HIDE DEF y
  <1>6. QED
    BY <1>3, <1>4, <1>5 DEF Moves

(* A call that accepts a version.                                            *)
LEMMA AcceptMoves ==
  ASSUME Shape, NEW w \in Worker, Accept(w)
  PROVE  \E at \in {"save", "intend", "look"} :
            Moves(w, at, control.version) /\ call'[w].state.accepted
  <1> DEFINE x == call[w]
             at == CASE x.state.acks[control.version] = "emitted" -> "save"
                     [] x.state.acks[control.version] = "none" -> "intend"
                     [] OTHER -> "look"
             st == [x.state EXCEPT !.accepted = TRUE]
             y == [x EXCEPT !.state = st, !.version = control.version, !.at = at]
  <1>1. x \in Call /\ x.state \in State /\ control.version \in 0..MaxVersion
    BY ConstantsAssumption DEF Shape, Call, Version
  <1>2. call' = [call EXCEPT ![w] = y]
    BY DEF Accept
  <1>3. at \in {"save", "intend", "look"} /\ at \in Stages
    BY DEF Stages
  <1> HIDE DEF at
  <1>4. st \in State /\ Tells(st, x.state) /\ st.accepted
    BY <1>1 DEF State, Tells
  <1> HIDE DEF st
  <1>5. y \in Call /\ y.at = at /\ y.version = control.version /\ y.state = st
    BY <1>1, <1>3, <1>4 DEF Call
  <1> HIDE DEF y
  <1>6. call'[w] = y
    BY <1>2 DEF Shape
  <1>7. QED
    BY <1>2, <1>3, <1>4, <1>5, <1>6 DEF Moves

(* What a call that goes on leaves of the calls: the others as they were.    *)
LEMMA MoveKeeps ==
  ASSUME Shape, AllNewest, NEW w \in Worker, NEW at, NEW v, Moves(w, at, v),
         v <= control.version, control' = control,
         v # 0 => call'[w].state.accepted,
         at \in {"intend", "look", "send", "receipt", "review", "complete"} => v # 0
  PROVE  /\ call' \in [Worker -> Call] /\ Accepting'
         /\ \A d \in Worker : Newest(call'[d].state)
         /\ call'[w].at = at /\ call'[w].version = v
         /\ \A d \in Worker \ {w} : call'[d] = call[d]
  <1>1. PICK y \in Call : /\ call' = [call EXCEPT ![w] = y]
                          /\ y.at = at /\ y.version = v
                          /\ Tells(y.state, call[w].state)
    BY DEF Moves
  <1>2. call \in [Worker -> Call]
    BY DEF Shape
  <1>3. call' \in [Worker -> Call] /\ call'[w] = y /\ \A d \in Worker \ {w} : call'[d] = call[d]
    BY <1>1, <1>2
  <1>4. Accepting'
    BY <1>1, <1>3 DEF Shape, Accepting
  <1>5. \A d \in Worker : Newest(call'[d].state)
    BY <1>1, <1>3, TellsNewest DEF AllNewest
  <1>6. QED
    BY <1>1, <1>3, <1>4, <1>5

(* And one that ends.                                                        *)
LEMMA EndKeeps ==
  ASSUME Shape, AllNewest, NEW w \in Worker, Ends(w), control' = control
  PROVE  /\ call' \in [Worker -> Call] /\ Accepting'
         /\ \A d \in Worker : Newest(call'[d].state)
         /\ call'[w] = NoCall /\ \A d \in Worker \ {w} : call'[d] = call[d]
  <1>1. call' = [call EXCEPT ![w] = NoCall] /\ call \in [Worker -> Call]
    BY DEF Ends, Shape
  <1>2. call' \in [Worker -> Call] /\ call'[w] = NoCall
        /\ \A d \in Worker \ {w} : call'[d] = call[d]
    BY <1>1, NoCallTyped
  <1>3. control.version \in Nat
    BY DEF Shape, Version
  <1>4. Accepting'
    BY <1>2, <1>3, NoCallTyped DEF Shape, Accepting
  <1>5. \A d \in Worker : Newest(call'[d].state)
    BY <1>2, NoCallTyped DEF AllNewest
  <1>6. QED
    BY <1>2, <1>4, <1>5

-----------------------------------------------------------------------------
(* How many calls stand somewhere when one of them moves.                    *)
LEMMA StandingMoves ==
  ASSUME NEW w \in Worker, \A d \in Worker \ {w} : call'[d] = call[d],
         NEW at, NEW v
  PROVE  LET n == Cardinality(Standing(at, v))
             next == Cardinality(Standing(at, v)')
         IN  /\ n \in Nat /\ next \in Nat
             /\ Stands(w, at, v) /\ Stands(w, at, v)' => next = n
             /\ ~Stands(w, at, v) /\ ~Stands(w, at, v)' => next = n
             /\ Stands(w, at, v) /\ ~Stands(w, at, v)' => n = next + 1
             /\ ~Stands(w, at, v) /\ Stands(w, at, v)' => next = n + 1
  <1> DEFINE S == Standing(at, v)
             T == Standing(at, v)'
  <1>1. S \subseteq Worker /\ T \subseteq Worker /\ IsFiniteSet(Worker)
    BY ConstantsAssumption DEF Standing
  <1>2. /\ w \in S <=> Stands(w, at, v)
        /\ w \in T <=> Stands(w, at, v)'
        /\ S \ {w} = T \ {w}
    BY DEF Standing, Stands
  <1> HIDE DEF S, T
  <1>3. IsFiniteSet(S) /\ IsFiniteSet(T)
    BY <1>1, FS_Subset
  <1>4. Cardinality(S) \in Nat /\ Cardinality(T) \in Nat
    BY <1>3, FS_CardinalityType
  <1>5. /\ Cardinality(S \ {w}) = IF w \in S THEN Cardinality(S) - 1 ELSE Cardinality(S)
        /\ Cardinality(T \ {w}) = IF w \in T THEN Cardinality(T) - 1 ELSE Cardinality(T)
    BY <1>3, FS_RemoveElement
  <1>6. QED
    BY <1>2, <1>4, <1>5 DEF S, T

(* A call stands in one place: those that send and those that write receipts *)
(* are no more than there are.                                               *)
LEMMA StandingTogether ==
  ASSUME NEW v
  PROVE  /\ Sending(v) \in Nat /\ Receiving(v) \in Nat /\ Cardinality(Worker) \in Nat
         /\ Sending(v) + Receiving(v) <= Cardinality(Worker)
  <1> DEFINE S == Standing("send", v)
             R == Standing("receipt", v)
  <1>1. S \in SUBSET Worker /\ R \in SUBSET Worker /\ IsFiniteSet(Worker) /\ S \cap R = {}
    BY ConstantsAssumption DEF Standing, Stands
  <1> HIDE DEF S, R
  <1>2. IsFiniteSet(S) /\ IsFiniteSet(R)
    BY <1>1, FS_Subset
  <1>3. Cardinality(S) \in Nat /\ Cardinality(R) \in Nat /\ Cardinality(Worker) \in Nat
    BY <1>1, <1>2, FS_CardinalityType
  <1>4. Cardinality(S \cup R) = Cardinality(S) + Cardinality(R) - Cardinality(S \cap R)
    BY <1>2, FS_Union
  <1>5. Cardinality(S \cap R) = 0
    BY <1>1, FS_EmptySet
  <1>6. Cardinality(S \cup R) <= Cardinality(Worker)
    <2>1. S \cup R \in SUBSET Worker
      BY <1>1
    <2>2. QED
      BY <1>1, <2>1, FS_Subset
  <1>7. QED
    BY <1>3, <1>4, <1>5, <1>6 DEF S, R, Sending, Receiving

(* A call that neither sends nor comes from sending, and goes to send only   *)
(* where it has found no receipt.                                            *)
LEMMA QuietTally ==
  ASSUME Shape, Tally, NEW w \in Worker, \A d \in Worker \ {w} : call'[d] = call[d],
         call[w].at # "receipt", call'[w].at # "receipt",
         call'[w].at = "send" => call'[w].version \notin receipts,
         UNCHANGED <<receipts, sends, unknown, lost>>
  PROVE  Tally'
  <1> SUFFICES ASSUME NEW v \in Version
               PROVE  IF v \in receipts
                      THEN sends[v] + Sending(v)' <= Cardinality(Worker) + unknown[v] + lost[v]
                      ELSE sends[v] = unknown[v] + lost[v] + Receiving(v)'
    BY DEF Tally
  <1>1. Receiving(v)' = Receiving(v)
    BY StandingMoves DEF Receiving, Stands
  <1>2. CASE v \notin receipts
    BY <1>1, <1>2 DEF Tally
  <1>3. CASE v \in receipts
    <2>1. ~Stands(w, "send", v)'
      BY <1>3 DEF Stands
    <2>2. Sending(v)' <= Sending(v) /\ Sending(v) \in Nat /\ Sending(v)' \in Nat
      BY <2>1, StandingMoves DEF Sending
    <2>3. sends[v] \in Nat /\ unknown[v] \in Nat /\ lost[v] \in Nat
      BY DEF Shape
    <2>4. Cardinality(Worker) \in Nat
      BY StandingTogether
    <2>5. sends[v] + Sending(v) <= Cardinality(Worker) + unknown[v] + lost[v]
      BY <1>3 DEF Tally
    <2>6. QED
      BY <1>3, <2>2, <2>3, <2>4, <2>5
  <1>4. QED
    BY <1>2, <1>3

(* A call sends: it goes to write the receipt, or what became of it is       *)
(* counted.                                                                  *)
LEMMA SendTally ==
  ASSUME Shape, Tally, NEW w \in Worker, \A d \in Worker \ {w} : call'[d] = call[d],
         call[w].at = "send", NEW v \in Version, call[w].version = v,
         receipts' = receipts, sends' = Counted(sends, v),
         \/ Stands(w, "receipt", v)' /\ UNCHANGED <<unknown, lost>>
         \/ call'[w].at \notin {"send", "receipt"}
            /\ unknown' = Counted(unknown, v) /\ lost' = lost
         \/ call'[w].at \notin {"send", "receipt"}
            /\ lost' = Counted(lost, v) /\ unknown' = unknown
  PROVE  Tally'
  <1>1. ASSUME NEW u \in Version, u # v
        PROVE  Sending(u)' = Sending(u) /\ Receiving(u)' = Receiving(u)
               /\ sends'[u] = sends[u] /\ unknown'[u] = unknown[u] /\ lost'[u] = lost[u]
    BY <1>1, StandingMoves DEF Stands, Sending, Receiving, Counted, Shape
  <1>2. /\ Sending(v) = Sending(v)' + 1
        /\ Stands(w, "receipt", v)' => Receiving(v)' = Receiving(v) + 1
        /\ call'[w].at \notin {"send", "receipt"} => Receiving(v)' = Receiving(v)
        /\ Sending(v)' \in Nat /\ Receiving(v)' \in Nat /\ Receiving(v) \in Nat
    BY StandingMoves DEF Stands, Sending, Receiving
  <1>3. /\ sends[v] \in Nat /\ unknown[v] \in Nat /\ lost[v] \in Nat
        /\ sends'[v] = sends[v] + 1
        /\ unknown'[v] = unknown[v] \/ unknown'[v] = unknown[v] + 1
        /\ lost'[v] = lost[v] \/ lost'[v] = lost[v] + 1
    BY DEF Shape, Counted
  <1>4. Cardinality(Worker) \in Nat
    BY StandingTogether
  <1>5. CASE v \in receipts
    <2>1. sends'[v] + Sending(v)' <= Cardinality(Worker) + unknown'[v] + lost'[v]
      BY <1>2, <1>3, <1>4, <1>5 DEF Tally
    <2>2. QED
      BY <1>1, <1>5, <2>1 DEF Tally
  <1>6. CASE v \notin receipts
    <2>1. sends[v] = unknown[v] + lost[v] + Receiving(v)
      BY <1>6 DEF Tally
    <2>2. unknown' = Counted(unknown, v) => unknown'[v] = unknown[v] + 1
      BY DEF Shape, Counted
    <2>3. lost' = Counted(lost, v) => lost'[v] = lost[v] + 1
      BY DEF Shape, Counted
    <2>4. sends'[v] = unknown'[v] + lost'[v] + Receiving(v)'
      BY <1>2, <1>3, <2>1, <2>2, <2>3
    <2>5. QED
      BY <1>1, <1>6, <2>4 DEF Tally
  <1>7. QED
    BY <1>5, <1>6

(* A receipt is written, or the call that would write it fails.              *)
LEMMA ReceiptTally ==
  ASSUME Shape, Tally, NEW w \in Worker, \A d \in Worker \ {w} : call'[d] = call[d],
         call[w].at = "receipt", NEW v \in Version, call[w].version = v,
         call'[w].at \notin {"send", "receipt"}, UNCHANGED <<sends, unknown>>,
         \/ receipts' = receipts \cup {v} /\ lost' = lost
         \/ receipts' = receipts /\ lost' = Counted(lost, v)
  PROVE  Tally'
  <1>1. ASSUME NEW u \in Version, u # v
        PROVE  Sending(u)' = Sending(u) /\ Receiving(u)' = Receiving(u) /\ lost'[u] = lost[u]
               /\ (u \in receipts' <=> u \in receipts)
    BY <1>1, StandingMoves DEF Stands, Sending, Receiving, Counted, Shape
  <1>2. /\ Sending(v)' = Sending(v) /\ Receiving(v) = Receiving(v)' + 1
        /\ Receiving(v)' \in Nat
    BY StandingMoves DEF Stands, Sending, Receiving
  <1>3. /\ sends[v] \in Nat /\ unknown[v] \in Nat /\ lost[v] \in Nat
        /\ lost' = Counted(lost, v) => lost'[v] = lost[v] + 1
    BY DEF Shape, Counted
  <1>4. /\ Cardinality(Worker) \in Nat /\ Sending(v) \in Nat
        /\ Sending(v) + Receiving(v) <= Cardinality(Worker)
    BY StandingTogether
  <1>5. IF v \in receipts'
        THEN sends'[v] + Sending(v)' <= Cardinality(Worker) + unknown'[v] + lost'[v]
        ELSE sends'[v] = unknown'[v] + lost'[v] + Receiving(v)'
    <2>1. CASE v \in receipts
      <3>1. sends[v] + Sending(v) <= Cardinality(Worker) + unknown[v] + lost[v]
        BY <2>1 DEF Tally
      <3>2. v \in receipts'
        BY <2>1
      <3>3. QED
        BY <1>2, <1>3, <1>4, <3>1, <3>2
    <2>2. CASE v \notin receipts
      <3>1. sends[v] = unknown[v] + lost[v] + Receiving(v)
        BY <2>2 DEF Tally
      <3>2. CASE receipts' = receipts \cup {v} /\ lost' = lost
        BY <1>2, <1>3, <1>4, <3>1, <3>2
      <3>3. CASE receipts' = receipts /\ lost' = Counted(lost, v)
        BY <1>2, <1>3, <2>2, <3>1, <3>3
      <3>4. QED
        BY <3>2, <3>3
    <2>3. QED
      BY <2>1, <2>2
  <1>6. QED
    BY <1>1, <1>5 DEF Tally

-----------------------------------------------------------------------------
(* The calls before and after the step of one of them.                       *)
Kept(w) ==
    /\ call' \in [Worker -> Call] /\ Accepting'
    /\ \A d \in Worker : Newest(call'[d].state)
    /\ \A d \in Worker \ {w} : call'[d] = call[d]

(* The invariant holds when the service starts.                              *)
LEMMA InitReconciling == Init => Reconciling
  <1> SUFFICES ASSUME Init PROVE Reconciling
    OBVIOUS
  <1>1. \A w \in Worker : call[w] = NoCall
    BY DEF Init
  <1>2. 1 \in Version
    BY ConstantsAssumption DEF Version
  <1>3. Accepting
    BY <1>1, NoCallTyped DEF Init, Accepting
  <1>4. Shape
    BY <1>2, <1>3, NoCallTyped DEF Init, Shape, Statuses
  <1>5. AllNewest
    BY <1>1, NoCallTyped DEF Init, AllNewest
  <1>6. Tally
    <2>1. ASSUME NEW v \in Version PROVE Receiving(v) = 0
      <3>1. Standing("receipt", v) = {}
        BY <1>1, NoCallTyped DEF Standing, Stands
      <3>2. QED
        BY <3>1, FS_EmptySet DEF Receiving
    <2>2. QED
      BY <2>1 DEF Init, Tally
  <1>7. QED
    BY <1>4, <1>5, <1>6 DEF Reconciling

(* A call reads the card and builds its state.                               *)
LEMMA ReadKeeps ==
  ASSUME Reconciling, NEW w \in Worker, NEW e \in Event, Read(w, e)
  PROVE  Reconciling'
  <1> USE DEF Reconciling
  <1> DEFINE y == [at |-> "read", state |-> Merged(state, e), status |-> status,
                   event |-> e, version |-> 0]
  <1>1. Merged(state, e) \in State /\ Newest(Merged(state, e))
    BY MergedTyped, MergedNewest DEF Shape, AllNewest
  <1>2. y \in Call /\ y.at = "read" /\ y.version = 0 /\ y.state = Merged(state, e)
    BY <1>1, ConstantsAssumption DEF Call, Shape, Stages
  <1>3. call' = [call EXCEPT ![w] = y]
    BY DEF Read
  <1> HIDE DEF y
  <1>4. call' \in [Worker -> Call] /\ call'[w] = y /\ \A d \in Worker \ {w} : call'[d] = call[d]
    BY <1>2, <1>3 DEF Shape
  <1>5. UNCHANGED <<state, status, receipts, control, sends, unknown, lost>> /\ call[w].at = "idle"
    BY DEF Read, board, counts
  <1>6. Accepting'
    BY <1>2, <1>4, <1>5 DEF Shape, Accepting, Version
  <1>7. Shape'
    BY <1>4, <1>5, <1>6 DEF Shape
  <1>8. AllNewest'
    BY <1>1, <1>2, <1>4, <1>5 DEF AllNewest
  <1>9. Tally'
    BY <1>2, <1>4, <1>5, QuietTally
  <1>10. QED
    BY <1>7, <1>8, <1>9

(* A call that goes on without accepting a version.                          *)
LEMMA GoesOnKeeps ==
  ASSUME Reconciling, NEW w \in Worker, NEW at, Moves(w, at, call[w].version),
         control' = control,
         at \in {"intend", "look", "send", "receipt", "review", "complete"} =>
             call[w].version # 0
  PROVE  Kept(w) /\ call'[w].at = at /\ call'[w].version = call[w].version
  <1> USE DEF Reconciling
  <1>1. call \in [Worker -> Call] /\ Accepting
    BY DEF Shape
  <1>2. call[w].version <= control.version
        /\ (call[w].version # 0 => call[w].state.accepted)
    BY <1>1 DEF Accepting
  <1>3. call[w].version # 0 => call'[w].state.accepted
    <2>1. PICK y \in Call : /\ call' = [call EXCEPT ![w] = y]
                            /\ call[w].state.accepted => y.state.accepted
      BY DEF Moves
    <2>2. call'[w] = y
      BY <1>1, <2>1
    <2>3. QED
      BY <1>2, <2>1, <2>2
  <1>4. QED
    BY <1>2, <1>3, MoveKeeps DEF Kept

(* What the step of a call has to show besides.                              *)
LEMMA KeptReconciling ==
  ASSUME Reconciling, NEW w \in Worker, Kept(w), control' = control,
         state' \in State, Newest(state'), status' \in Statuses,
         receipts' \subseteq Version, sends' \in [Version -> Nat],
         unknown' \in [Version -> Nat], lost' \in [Version -> Nat], Tally'
  PROVE  Reconciling'
  <1>1. Shape'
    BY DEF Reconciling, Shape, Kept
  <1>2. AllNewest'
    BY DEF AllNewest, Kept
  <1>3. QED
    BY <1>1, <1>2 DEF Reconciling

(* A call accepts the version in force.                                      *)
LEMMA AcceptKeeps ==
  ASSUME Reconciling, NEW w \in Worker, Accept(w) PROVE Reconciling'
  <1> USE DEF Reconciling
  <1>1. PICK at \in {"save", "intend", "look"} :
            Moves(w, at, control.version) /\ call'[w].state.accepted
    BY AcceptMoves
  <1>2. UNCHANGED <<state, status, receipts, control, sends, unknown, lost>> /\ call[w].at = "read"
    BY DEF Accept, board, counts
  <1>3. control.version \in Version /\ control.version # 0 /\ control.version <= control.version
    BY DEF Shape, Version
  <1>4. Kept(w) /\ call'[w].at = at
    BY <1>1, <1>2, <1>3, MoveKeeps DEF Kept
  <1>5. Tally'
    BY <1>1, <1>2, <1>4, QuietTally DEF Kept
  <1>6. QED
    BY <1>2, <1>4, <1>5, KeptReconciling DEF Shape, AllNewest

(* A call declines to accept.                                                *)
LEMMA RejectKeeps ==
  ASSUME Reconciling, NEW w \in Worker, Reject(w) PROVE Reconciling'
  <1> USE DEF Reconciling
  <1>1. UNCHANGED <<state, status, receipts, control, sends, unknown, lost>>
        /\ call[w].at = "read" /\ Goes(w, "save")
    BY DEF Reject, board, counts
  <1>2. Moves(w, "save", call[w].version)
    BY <1>1, GoesMoves DEF Stages
  <1>3. Kept(w) /\ call'[w].at = "save"
    BY <1>1, <1>2, GoesOnKeeps
  <1>4. Tally'
    BY <1>1, <1>3, QuietTally DEF Kept
  <1>5. QED
    BY <1>1, <1>3, <1>4, KeptReconciling DEF Shape, AllNewest

(* The intent is written to the card before anything is sent.                *)
LEMMA IntendKeeps ==
  ASSUME Reconciling, NEW w \in Worker, Intend(w) PROVE Reconciling'
  <1> USE DEF Reconciling
  <1>1. UNCHANGED <<status, receipts, control, sends, unknown, lost>>
        /\ call[w].at = "intend" /\ Acknowledged(w, "look", "pending")
        /\ state' = call'[w].state
    BY DEF Intend, counts
  <1>2. Moves(w, "look", call[w].version)
    BY <1>1, AcknowledgedMoves DEF Stages
  <1>3. call[w].version # 0
    BY <1>1 DEF Shape, Accepting
  <1>4. Kept(w) /\ call'[w].at = "look"
    BY <1>1, <1>2, <1>3, GoesOnKeeps
  <1>5. Tally'
    BY <1>1, <1>4, QuietTally DEF Kept
  <1>6. state' \in State /\ Newest(state')
    BY <1>1, <1>4 DEF Kept, Call
  <1>7. QED
    BY <1>1, <1>4, <1>5, <1>6, KeptReconciling DEF Shape

(* A call looks for a receipt and sends only where it finds none.            *)
LEMMA LookKeeps ==
  ASSUME Reconciling, NEW w \in Worker, Look(w) PROVE Reconciling'
  <1> USE DEF Reconciling
  <1>1. UNCHANGED <<state, status, receipts, control, sends, unknown, lost>>
        /\ call[w].at = "look"
    BY DEF Look, board, counts
  <1>2. \/ Moves(w, "save", call[w].version)
        \/ Moves(w, "send", call[w].version) /\ call[w].version \notin receipts
    BY GoesMoves, AcknowledgedMoves DEF Look, Receipted, Stages
  <1>3. call[w].version # 0
    BY <1>1 DEF Shape, Accepting
  <1>4. /\ Kept(w) /\ call'[w].version = call[w].version
        /\ \/ call'[w].at = "save"
           \/ call'[w].at = "send" /\ call[w].version \notin receipts
    BY <1>1, <1>2, <1>3, GoesOnKeeps
  <1>5. Tally'
    BY <1>1, <1>4, QuietTally DEF Kept
  <1>6. QED
    BY <1>1, <1>4, <1>5, KeptReconciling DEF Shape, AllNewest

(* The acknowledgment is dispatched: its receipt or its unknown outcome is   *)
(* what the call goes on with.                                               *)
LEMMA SendKeeps ==
  ASSUME Reconciling, NEW w \in Worker, Send(w) PROVE Reconciling'
  <1> USE DEF Reconciling
  <1>1. call[w].at = "send" /\ call[w].version \in Version /\ call[w].version # 0
    BY ConstantsAssumption DEF Send, Shape, Accepting, Call, Version
  <1>2. PICK v \in Version : call[w].version = v
    BY <1>1
  <1>3. /\ UNCHANGED <<state, status, receipts, control, lost>> /\ sends' = Counted(sends, v)
        /\ \/ Goes(w, "receipt") /\ unknown' = unknown
           \/ Acknowledged(w, "save", "unknown") /\ unknown' = Counted(unknown, v)
    BY <1>2 DEF Send, board
  <1>4. \/ Moves(w, "receipt", call[w].version) /\ unknown' = unknown
        \/ Moves(w, "save", call[w].version) /\ unknown' = Counted(unknown, v)
    BY <1>3, GoesMoves, AcknowledgedMoves DEF Stages
  <1>5. /\ Kept(w) /\ call'[w].version = v
        /\ \/ call'[w].at = "receipt" /\ unknown' = unknown
           \/ call'[w].at = "save" /\ unknown' = Counted(unknown, v)
    BY <1>1, <1>2, <1>3, <1>4, GoesOnKeeps
  <1>6. \/ Stands(w, "receipt", v)' /\ UNCHANGED <<unknown, lost>>
        \/ call'[w].at \notin {"send", "receipt"}
           /\ unknown' = Counted(unknown, v) /\ lost' = lost
    BY <1>3, <1>5 DEF Stands
  <1>7. Tally'
    BY <1>1, <1>2, <1>3, <1>5, <1>6, SendTally DEF Kept
  <1>8. sends' \in [Version -> Nat] /\ unknown' \in [Version -> Nat]
    BY <1>3, <1>5 DEF Shape, Counted
  <1>9. QED
    BY <1>3, <1>5, <1>7, <1>8, KeptReconciling DEF Shape, AllNewest

(* A receipt comment ends the acknowledgment of its version.                 *)
LEMMA ReceiptKeeps ==
  ASSUME Reconciling, NEW w \in Worker, Receipt(w) PROVE Reconciling'
  <1> USE DEF Reconciling
  <1> DEFINE v == call[w].version
  <1>1. /\ UNCHANGED <<state, status, control, sends, unknown, lost>>
        /\ call[w].at = "receipt" /\ receipts' = receipts \cup {v}
        /\ Acknowledged(w, "save", "emitted")
    BY DEF Receipt, counts
  <1>2. v \in Version /\ v # 0
    BY <1>1, ConstantsAssumption DEF Shape, Accepting, Call, Version
  <1>3. Moves(w, "save", v)
    BY <1>1, AcknowledgedMoves DEF Stages
  <1> HIDE DEF v
  <1>4. Kept(w) /\ call'[w].at = "save"
    BY <1>1, <1>2, <1>3, GoesOnKeeps DEF v
  <1>5. Tally'
    BY <1>1, <1>2, <1>4, ReceiptTally DEF Kept, v
  <1>6. receipts' \subseteq Version
    BY <1>1, <1>2 DEF Shape
  <1>7. QED
    BY <1>1, <1>4, <1>5, <1>6, KeptReconciling DEF Shape, AllNewest

(* The state a call has built becomes that of the card.                      *)
LEMMA SaveKeeps ==
  ASSUME Reconciling, NEW w \in Worker, Save(w) PROVE Reconciling'
  <1> USE DEF Reconciling
  <1>1. UNCHANGED <<status, receipts, control, sends, unknown, lost>>
        /\ call[w].at = "save" /\ state' = call[w].state
        /\ \/ Goes(w, "review") /\ call[w].version # 0
           \/ Goes(w, "move")
           \/ Ends(w)
    BY DEF Save, Closing, counts
  <1>2. \/ Moves(w, "review", call[w].version) /\ call[w].version # 0
        \/ Moves(w, "move", call[w].version)
        \/ Ends(w)
    BY <1>1, GoesMoves DEF Stages
  <1>3. Kept(w) /\ call'[w].at \in {"review", "move", "idle"}
    BY <1>1, <1>2, GoesOnKeeps, EndKeeps, NoCallTyped DEF Kept
  <1>4. Tally'
    BY <1>1, <1>3, QuietTally DEF Kept
  <1>5. state' \in State /\ Newest(state')
    BY <1>1 DEF Shape, Call, AllNewest
  <1>6. QED
    BY <1>1, <1>3, <1>4, <1>5, KeptReconciling DEF Shape

(* The card goes to review.                                                  *)
LEMMA ReviewKeeps ==
  ASSUME Reconciling, NEW w \in Worker, Review(w) PROVE Reconciling'
  <1> USE DEF Reconciling
  <1>1. UNCHANGED <<state, receipts, control, sends, unknown, lost>>
        /\ call[w].at = "review" /\ Goes(w, "complete") /\ status' \in Statuses
    BY DEF Review, counts, Statuses
  <1>2. Moves(w, "complete", call[w].version) /\ call[w].version # 0
    BY <1>1, GoesMoves DEF Stages, Shape, Accepting
  <1>3. Kept(w) /\ call'[w].at = "complete"
    BY <1>1, <1>2, GoesOnKeeps
  <1>4. Tally'
    BY <1>1, <1>3, QuietTally DEF Kept
  <1>5. QED
    BY <1>1, <1>3, <1>4, KeptReconciling DEF Shape, AllNewest

(* The last command of a call ends it.                                       *)
LEMMA LastKeeps ==
  ASSUME Reconciling, NEW w \in Worker, Complete(w) \/ Move(w) PROVE Reconciling'
  <1> USE DEF Reconciling
  <1>1. UNCHANGED <<state, receipts, control, sends, unknown, lost>>
        /\ call[w].at \in {"complete", "move"} /\ Ends(w) /\ status' \in Statuses
    BY DEF Complete, Move, counts, Statuses, Shape
  <1>2. Kept(w) /\ call'[w] = NoCall
    BY <1>1, EndKeeps DEF Kept
  <1>3. Tally'
    BY <1>1, <1>2, NoCallTyped, QuietTally DEF Kept
  <1>4. QED
    BY <1>1, <1>2, <1>3, KeptReconciling DEF Shape, AllNewest

(* A call dies or is answered with an exception: what it has sent without a  *)
(* receipt is lost.                                                          *)
LEMMA FailKeeps ==
  ASSUME Reconciling, NEW w \in Worker, Fail(w) PROVE Reconciling'
  <1> USE DEF Reconciling
  <1> DEFINE v == call[w].version
  <1>1. UNCHANGED <<state, status, receipts, control, unknown>> /\ Ends(w)
    BY DEF Fail, board, counts
  <1>2. Kept(w) /\ call'[w] = NoCall /\ call'[w].at \notin {"send", "receipt"}
    BY <1>1, EndKeeps, NoCallTyped DEF Kept
  <1>3. \/ call[w].at # "receipt" /\ UNCHANGED <<sends, lost>>
        \/ call[w].at = "send" /\ sends' = Counted(sends, v) /\ lost' = Counted(lost, v)
        \/ call[w].at = "receipt" /\ lost' = Counted(lost, v) /\ sends' = sends
    BY DEF Fail, counts
  <1>4. call[w].at \in {"send", "receipt"} => v \in Version
    BY ConstantsAssumption DEF Shape, Accepting, Call, Version
  <1>5. sends' \in [Version -> Nat] /\ lost' \in [Version -> Nat]
    BY <1>3, <1>4 DEF Shape, Counted
  <1> HIDE DEF v
  <1>6. Tally'
    <2>1. CASE call[w].at # "receipt" /\ UNCHANGED <<sends, lost>>
      BY <1>1, <1>2, <2>1, QuietTally DEF Kept
    <2>2. CASE call[w].at = "send" /\ sends' = Counted(sends, v) /\ lost' = Counted(lost, v)
      BY <1>1, <1>2, <1>4, <2>2, SendTally DEF Kept, v
    <2>3. CASE call[w].at = "receipt" /\ lost' = Counted(lost, v) /\ sends' = sends
      BY <1>1, <1>2, <1>4, <2>3, ReceiptTally DEF Kept, v
    <2>4. QED
      BY <1>3, <2>1, <2>2, <2>3
  <1>7. QED
    BY <1>1, <1>2, <1>5, <1>6, KeptReconciling DEF Shape, AllNewest

(* The owner issues another version; no call knows of it yet.                *)
LEMMA ReviseKeeps == ASSUME Reconciling, Revise PROVE Reconciling'
  <1> USE DEF Reconciling
  <1>1. UNCHANGED <<state, status, receipts, call, sends, unknown, lost>>
    BY DEF Revise, board, counts
  <1>2. control' \in [version : Version, effective : Nat]
        /\ control'.version = control.version + 1
    BY ConstantsAssumption DEF Revise, Shape, Version
  <1>3. Accepting'
    BY <1>1, <1>2 DEF Shape, Accepting, Call, Version
  <1>4. Shape'
    BY <1>1, <1>2, <1>3 DEF Shape
  <1>5. AllNewest'
    BY <1>1 DEF AllNewest
  <1>6. Tally'
    BY <1>1 DEF Tally, Sending, Receiving, Standing, Stands
  <1>7. QED
    BY <1>4, <1>5, <1>6

(* Every step of the service keeps the invariant.                            *)
LEMMA NextReconciling == Reconciling /\ [Next]_vars => Reconciling'
  <1> SUFFICES ASSUME Reconciling, [Next]_vars PROVE Reconciling'
    OBVIOUS
  <1>1. ASSUME NEW w \in Worker, NEW e \in Event, Read(w, e) PROVE Reconciling'
    BY <1>1, ReadKeeps
  <1>2. ASSUME NEW w \in Worker, Step(w) PROVE Reconciling'
    <2>1. CASE Acknowledge(w)
      BY <2>1, IntendKeeps, LookKeeps, SendKeeps, ReceiptKeeps DEF Acknowledge
    <2>2. CASE Accept(w) \/ Reject(w) \/ Save(w)
      BY <2>2, AcceptKeeps, RejectKeeps, SaveKeeps
    <2>3. CASE Review(w) \/ Complete(w) \/ Move(w)
      BY <2>3, ReviewKeeps, LastKeeps
    <2>4. QED
      BY <1>2, <2>1, <2>2, <2>3 DEF Step
  <1>3. ASSUME NEW w \in Worker, Fail(w) PROVE Reconciling'
    BY <1>3, FailKeeps
  <1>4. CASE Revise
    BY <1>4, ReviseKeeps
  <1>5. CASE UNCHANGED vars
    <2>1. UNCHANGED <<state, status, receipts, control, call, sends, unknown, lost>>
      BY <1>5 DEF vars
    <2>2. QED
      BY <2>1 DEF Reconciling, Shape, Accepting, AllNewest, Tally, Sending, Receiving,
                  Standing, Stands
  <1>6. QED
    BY <1>1, <1>2, <1>3, <1>4, <1>5 DEF Next

(* The calls, the state comments and the counters stay consistent with what  *)
(* was observed and sent (reconcile, _deliver_acknowledgment).               *)
THEOREM ReconcilingInvariant == Spec => []Reconciling
  BY InitReconciling, NextReconciling, PTL DEF Spec

(* Under the invariant the types are right.                                  *)
LEMMA ReconcilingTypes == Reconciling => TypeOK
  <1> SUFFICES ASSUME Reconciling PROVE TypeOK
    OBVIOUS
  <1> USE DEF Reconciling
  <1>1. ASSUME NEW w \in Worker
        PROVE  /\ call[w].at \in Stages /\ call[w].state \in State
               /\ call[w].version \in 0..control.version
               /\ call[w].at \in {"intend", "look", "send", "receipt", "review", "complete"} =>
                     call[w].version # 0 /\ call[w].state.accepted
    <2>1. call[w] \in Call /\ call[w].version \in 0..MaxVersion
      BY DEF Shape, Call
    <2>2. QED
      BY <2>1, ConstantsAssumption DEF Shape, Accepting, Call, Version
  <1>2. QED
    BY <1>1 DEF Shape, TypeOK, Statuses

(* The comments, calls and counters keep their types, and a call that        *)
(* acknowledges or closes has accepted a version that was issued.            *)
THEOREM TypeCorrect == Spec => []TypeOK
  BY ReconcilingInvariant, ReconcilingTypes, PTL

(* However events arrive and calls overwrite each other, a field is what the *)
(* newest observed event that mentions it says (field_freshness).            *)
THEOREM NewestPrevails == Spec => []FieldsAreNewest
  <1>1. Reconciling => FieldsAreNewest
    BY DEF Reconciling, AllNewest, Newest, Telling, FieldsAreNewest
  <1>2. QED
    BY <1>1, ReconcilingInvariant, PTL

(* An acknowledgment is sent once by each concurrent call at most, and again *)
(* only after an unknown outcome or a failure before the receipt comment     *)
(* (_deliver_acknowledgment).                                                *)
THEOREM AcknowledgmentsAccounted == Spec => []SendsAccounted
  <1>1. ASSUME Reconciling, NEW v \in Version
        PROVE  sends[v] <= Cardinality(Worker) + unknown[v] + lost[v]
    <2>1. sends[v] \in Nat /\ unknown[v] \in Nat /\ lost[v] \in Nat
      BY <1>1 DEF Reconciling, Shape
    <2>2. \/ sends[v] + Sending(v) <= Cardinality(Worker) + unknown[v] + lost[v]
          \/ sends[v] = unknown[v] + lost[v] + Receiving(v)
      BY <1>1 DEF Reconciling, Tally
    <2>3. QED
      BY <2>1, <2>2, StandingTogether
  <1>2. Reconciling => SendsAccounted
    BY <1>1, ReconcilingTypes DEF SendsAccounted
  <1>3. QED
    BY <1>2, ReconcilingInvariant, PTL
===============================================================================
