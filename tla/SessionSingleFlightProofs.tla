--------------------- MODULE SessionSingleFlightProofs ---------------------
(***************************************************************************)
(* Proofs about SessionSingleFlight, for every set of slots and calls:     *)
(* who may be connecting, and then who shares a flight, what a heal is     *)
(* answered with, the order in which fresh sign-ins land, and that the     *)
(* slots keep the promise SessionSlots states.                             *)
(***************************************************************************)
EXTENDS SessionSingleFlight, FiniteSetTheorems, SequenceTheorems, TLAPS

\* Removing an element from a sequence leaves a sequence of the same elements.
LEMMA WithoutIsSeq ==
  ASSUME NEW S, NEW q \in Seq(S), NEW c
  PROVE  Without(q, c) \in Seq(S)
<1>1. ASSUME NEW i \in 1..Len(q) PROVE RemoveAt(q, i) \in Seq(S)
  <2>1. SubSeq(q, 1, i-1) \in Seq(S)
    BY SubSeqProperties
  <2>2. SubSeq(q, i+1, Len(q)) \in Seq(S)
    BY SubSeqProperties
  <2> QED BY <2>1, <2>2, ConcatProperties DEF RemoveAt
<1>2. CASE \E i \in 1..Len(q) : q[i] = c
  <2> DEFINE k == CHOOSE i \in 1..Len(q) : q[i] = c
  <2>1. k \in 1..Len(q)
    BY <1>2
  <2> HIDE DEF k
  <2>2. RemoveAt(q, k) \in Seq(S)
    BY <2>1, <1>1
  <2> QED BY <1>2, <2>2 DEF Without, k
<1>3. CASE ~\E i \in 1..Len(q) : q[i] = c
  BY <1>3 DEF Without
<1> QED BY <1>2, <1>3
-----------------------------------------------------------------------------
(* The shape of a state: types, and which call may own which flight *)

\* TypeOK, with counters of waiters that might go below zero: that they never
\* do follows from WaitersCounted.
SlotTypes ==
  /\ flights \in [Slots -> Calls \cup {NoOne}]
  /\ replacements \in [Slots -> Seq(Calls)]
  /\ session \in [Slots -> Calls \cup {NoOne}]
  /\ alive \subseteq Calls

ModeTypes ==
  /\ aborts \in [Slots -> 0..MaxAborts]
  /\ shutDown \in BOOLEAN
  /\ stopped \in BOOLEAN

FlightTypes ==
  /\ task \in [Calls -> Phases]
  /\ waiters \in [Calls -> Int]
  /\ abandoned \subseteq Calls
  /\ began \in [Calls -> 0..MaxAborts]

AskTypes ==
  /\ kind \in [Calls -> {"none", "ensure", "renew", "replace"}]
  /\ slot \in [Calls -> Slots \cup {NoOne}]
  /\ stale \in [Calls -> Calls \cup {NoOne}]

WaitTypes ==
  /\ seen \in [Calls -> 0..MaxAborts]
  /\ pc \in [Calls -> {"idle"} \cup Waiting \cup Over]
  /\ on \in [Calls -> SUBSET Calls]
  /\ answer \in [Calls -> Calls \cup {NoOne}]

Types == SlotTypes /\ ModeTypes /\ FlightTypes /\ AskTypes /\ WaitTypes

\* A call that has not asked has no slot; one that has not decided has no flight.
CallsInPlace ==
  \A c \in Calls :
    /\ pc[c] # "idle" => slot[c] \in Slots
    /\ pc[c] \in {"idle", "waitTurn", "queued", "windDown"} => task[c] = "none"
    /\ pc[c] = "joined" => \E f \in Calls : on[c] = {f}

\* A registered flight was started for the slot it is registered for.
FlightsInPlace ==
  /\ \A s \in Slots :
       flights[s] # NoOne => task[flights[s]] # "none" /\ slot[flights[s]] = s
  /\ \A s \in Slots : session[s] # NoOne => task[session[s]] # "none"
  /\ \A f \in Calls : task[f] # "none" => pc[f] # "idle"

Shape == Types /\ CallsInPlace /\ FlightsInPlace /\ OneConnectPerSlot

USE SlotsAssumption, NoOneAssumption, CallsAssumption, MaxAbortsAssumption

LEMMA ShapeInit == Init => Shape
<1> SUFFICES ASSUME Init PROVE Shape
  OBVIOUS
<1>1. Types
  <2>1. <<>> \in Seq(Calls) /\ 0 \in 0..MaxAborts
    BY EmptySeq
  <2>2. SlotTypes
    BY <2>1 DEF Init, SlotTypes
  <2>3. ModeTypes
    BY <2>1 DEF Init, ModeTypes
  <2>4. FlightTypes
    BY <2>1 DEF Init, FlightTypes, Phases
  <2>5. AskTypes
    BY DEF Init, AskTypes
  <2>6. WaitTypes
    BY <2>1 DEF Init, WaitTypes
  <2> QED BY <2>2, <2>3, <2>4, <2>5, <2>6 DEF Types
<1>2. CallsInPlace /\ FlightsInPlace /\ OneConnectPerSlot
  BY DEF Init, CallsInPlace, FlightsInPlace, OneConnectPerSlot, Running
<1> QED BY <1>1, <1>2 DEF Shape

\* What the queue of a slot offers a call that reads or leaves it.
LEMMA QueueTypes ==
  ASSUME Types, NEW s \in Slots, NEW c \in Calls
  PROVE  /\ replacements[s] # <<>> => Last(replacements[s]) \in Calls
         /\ ToSet(replacements[s]) \subseteq Calls
         /\ Append(replacements[s], c) \in Seq(Calls)
         /\ Without(replacements[s], c) \in Seq(Calls)
         /\ <<c>> \in Seq(Calls)
         /\ Without(<<c>>, c) \in Seq(Calls)
<1>1. replacements[s] \in Seq(Calls)
  BY DEF Types, SlotTypes
<1>2. replacements[s] # <<>> => Last(replacements[s]) \in Calls
  BY <1>1, EmptySeq, ElementOfSeq, LenProperties DEF Last
<1>3. ToSet(replacements[s]) \subseteq Calls
  BY <1>1, ElementOfSeq, LenProperties DEF ToSet
<1>4. <<c>> \in Seq(Calls)
  OBVIOUS
<1> QED BY <1>1, <1>2, <1>3, <1>4, WithoutIsSeq, AppendProperties
\* A step that starts no flight, forgets only finished ones and records only a
\* session that a flight built keeps the flights in their places.
LEMMA FlightsKept ==
  ASSUME Shape, Types',
         \A f \in Calls : task[f] # "none" =>
            /\ slot'[f] = slot[f]
            /\ pc'[f] # "idle"
            /\ task'[f] # "none",
         \A f \in Calls : task[f] = "none" => task'[f] = "none",
         \A f \in Calls : task'[f] \in Running => task[f] \in Running,
         \A s \in Slots : \/ flights'[s] = flights[s]
                         \/ (flights'[s] = NoOne /\ Current(s) = NoOne),
         \A s \in Slots : \/ session'[s] \in {session[s], NoOne}
                         \/ (session'[s] \in Calls /\ task[session'[s]] # "none")
  PROVE  FlightsInPlace' /\ OneConnectPerSlot'
<1>1. ASSUME NEW s \in Slots, flights'[s] # NoOne
      PROVE  task'[flights'[s]] # "none" /\ slot'[flights'[s]] = s
  <2>1. flights'[s] = flights[s] /\ flights[s] \in Calls
    BY <1>1 DEF Shape, Types, SlotTypes
  <2> QED BY <2>1, <1>1 DEF Shape, FlightsInPlace
<1>2. ASSUME NEW s \in Slots, session'[s] # NoOne PROVE task'[session'[s]] # "none"
  <2>1. session[s] # NoOne => session[s] \in Calls /\ task[session[s]] # "none"
    BY DEF Shape, FlightsInPlace, Types, SlotTypes
  <2> QED BY <1>2, <2>1
<1>3. ASSUME NEW f \in Calls, task'[f] \in Running PROVE flights'[slot'[f]] = f
  <2>1. task[f] \in Running /\ task[f] # "none" /\ slot'[f] = slot[f]
    BY <1>3 DEF Running
  <2>2. slot[f] \in Slots /\ flights[slot[f]] = f
    BY <2>1 DEF Shape, FlightsInPlace, CallsInPlace, OneConnectPerSlot
  <2>3. Current(slot[f]) # NoOne
    BY <2>1, <2>2 DEF Current, Done, Running, Finished
  <2> QED BY <2>1, <2>2, <2>3
<1>4. OneConnectPerSlot'
  BY <1>3 DEF OneConnectPerSlot
<1> QED BY <1>1, <1>2, <1>4 DEF FlightsInPlace, Shape

\* A step that starts the flight of c for s, where none was running.
LEMMA FlightStarted ==
  ASSUME Shape, Types', NEW c \in Calls, NEW s \in Slots,
         Current(s) = NoOne, task[c] = "none",
         flights' = [flights EXCEPT ![s] = c],
         task' = [task EXCEPT ![c] = "created"],
         pc' = [pc EXCEPT ![c] = "joined"],
         slot'[c] = s, \A d \in Calls \ {c} : slot'[d] = slot[d],
         UNCHANGED session
  PROVE  FlightsInPlace' /\ OneConnectPerSlot'
<1>1. task'[c] = "created" /\ flights'[s] = c /\ pc'[c] = "joined"
  BY DEF Shape, Types, FlightTypes, SlotTypes, WaitTypes
<1>2. \A d \in Calls \ {c} : task'[d] = task[d] /\ pc'[d] = pc[d]
  BY DEF Shape, Types, FlightTypes, WaitTypes
<1>3. \A r \in Slots \ {s} : flights'[r] = flights[r]
  BY DEF Shape, Types, SlotTypes
<1>4. \A r \in Slots : flights[r] # c /\ session[r] # c
  BY DEF Shape, FlightsInPlace
<1>5. ASSUME NEW r \in Slots, flights'[r] # NoOne
      PROVE  task'[flights'[r]] # "none" /\ slot'[flights'[r]] = r
  <2>1. CASE r = s
    BY <2>1, <1>1
  <2>2. CASE r # s
    <3>1. flights'[r] = flights[r] /\ flights[r] \in Calls \ {c}
      BY <2>2, <1>3, <1>4, <1>5 DEF Shape, Types, SlotTypes
    <3> QED BY <3>1, <1>2, <1>5 DEF Shape, FlightsInPlace
  <2> QED BY <2>1, <2>2
<1>6. \A r \in Slots : session'[r] # NoOne => task'[session'[r]] # "none"
  BY <1>2, <1>4 DEF Shape, FlightsInPlace, Types, SlotTypes
<1>7. \A f \in Calls : task'[f] # "none" => pc'[f] # "idle"
  BY <1>1, <1>2 DEF Shape, FlightsInPlace
<1>8. ASSUME NEW f \in Calls, task'[f] \in Running PROVE flights'[slot'[f]] = f
  <2>1. CASE f = c
    BY <2>1, <1>1
  <2>2. CASE f # c
    <3>1. task[f] \in Running /\ flights[slot[f]] = f /\ slot[f] \in Slots /\ slot'[f] = slot[f]
      BY <2>2, <1>2, <1>8 DEF Shape, OneConnectPerSlot, FlightsInPlace, CallsInPlace, Running
    <3>2. slot[f] # s
      BY <3>1 DEF Current, Done, Running, Finished, Shape
    <3> QED BY <3>1, <3>2, <1>3
  <2> QED BY <2>1, <2>2
<1> QED BY <1>5, <1>6, <1>7, <1>8 DEF FlightsInPlace, OneConnectPerSlot
\* A call starts its flight for s and joins it.
LEMMA StartShape ==
  ASSUME Shape, NEW c \in Calls, NEW s \in Slots,
         Current(s) = NoOne, task[c] = "none", StartAndJoin(c, s),
         AskTypes', slot'[c] = s, \A d \in Calls \ {c} : slot'[d] = slot[d],
         seen' = [seen EXCEPT ![c] = aborts[s]] \/ UNCHANGED seen,
         replacements' \in [Slots -> Seq(Calls)],
         UNCHANGED <<modeVars, slotVars, bodyVars, answer>>
  PROVE  Shape'
<1> USE DEF modeVars, slotVars, bodyVars, StartAndJoin, Join, Park
<1>1. SlotTypes' /\ ModeTypes'
  BY DEF Shape, Types, SlotTypes, ModeTypes
<1>2. FlightTypes'
  BY DEF Shape, Types, FlightTypes, Phases, Running
<1>3. WaitTypes'
  BY DEF Shape, Types, WaitTypes, ModeTypes, Waiting
<1>4. CallsInPlace'
  BY DEF Shape, CallsInPlace, Types, WaitTypes, FlightTypes
<1>5. Types'
  BY <1>1, <1>2, <1>3 DEF Types
<1>6. FlightsInPlace' /\ OneConnectPerSlot'
  BY <1>5, FlightStarted
<1> QED BY <1>4, <1>5, <1>6 DEF Shape

\* A step of one call that is over or waits, without starting a flight.
LEMMA CallMoved ==
  ASSUME Shape, Types', NEW c \in Calls, NEW where \in Waiting \cup Over,
         pc' = [pc EXCEPT ![c] = where],
         slot'[c] \in Slots, \A d \in Calls \ {c} : slot'[d] = slot[d] /\ on'[d] = on[d],
         where = "joined" => \E f \in Calls : on'[c] = {f},
         pc[c] \in {"idle", "waitTurn", "queued", "windDown"} \/
           (where \in Over /\ slot'[c] = slot[c]),
         \A s \in Slots : \/ flights'[s] = flights[s]
                         \/ (flights'[s] = NoOne /\ Current(s) = NoOne),
         \A s \in Slots : session'[s] \in {session[s], NoOne},
         UNCHANGED task
  PROVE  Shape'
<1>1. pc'[c] = where /\ \A d \in Calls \ {c} : pc'[d] = pc[d]
  BY DEF Shape, Types, WaitTypes
<1>2. CallsInPlace'
  BY <1>1 DEF Shape, CallsInPlace, Waiting, Over
<1>3. \A f \in Calls : task[f] # "none" => slot'[f] = slot[f] /\ pc'[f] # "idle"
  BY <1>1 DEF Shape, CallsInPlace, FlightsInPlace, Waiting, Over
<1>4. FlightsInPlace' /\ OneConnectPerSlot'
  BY <1>3, FlightsKept
<1> QED BY <1>2, <1>4 DEF Shape

\* ensure and renew, whatever they decide.
LEMMA DecideShape ==
  ASSUME Shape, NEW c \in Calls, NEW s \in Slots, NEW k, NEW x,
         pc[c] \in {"idle", "waitTurn", "windDown"},
         Decide(c, k, s, x),
         AskTypes', slot'[c] = s, \A d \in Calls \ {c} : slot'[d] = slot[d],
         UNCHANGED <<modeVars, slotVars, bodyVars>>
  PROVE  Shape'
<1> USE DEF modeVars, slotVars, bodyVars
<1>0. task[c] = "none" /\ Current(s) \in Calls \cup {NoOne}
  BY DEF Shape, CallsInPlace, Types, SlotTypes, Current
<1>a. ModeTypes'
  BY DEF Shape, Types, ModeTypes
<1>1. CASE Park(c, "waitTurn", {Last(replacements[s])}) /\ ReplacementAhead(s)
           /\ UNCHANGED <<flights, task, waiters, seen, answer, replacements>>
  <2>1. Last(replacements[s]) \in Calls
    BY <1>1, QueueTypes DEF Shape, ReplacementAhead
  <2>2. SlotTypes' /\ FlightTypes'
    BY <1>1 DEF Shape, Types, SlotTypes, FlightTypes
  <2>3. WaitTypes'
    BY <1>1, <2>1 DEF Shape, Types, WaitTypes, Park, Waiting
  <2>4. \A d \in Calls \ {c} : on'[d] = on[d]
    BY <1>1 DEF Park, Shape, Types, WaitTypes
  <2>5. Types'
    BY <1>a, <2>2, <2>3 DEF Types
  <2> QED BY <1>1, <2>4, <2>5, CallMoved DEF Park, Waiting
<1>2. CASE /\ Current(s) = NoOne
           /\ \/ Park(c, "returned", {}) /\ Reusable(k, s, x)
                 /\ answer' = [answer EXCEPT ![c] = Live(s)]
              \/ Park(c, "aborted", {}) /\ UNCHANGED answer
           /\ flights' = [flights EXCEPT ![s] = NoOne]
           /\ UNCHANGED <<task, waiters, seen, replacements>>
  <2>1. Reusable(k, s, x) => Live(s) \in Calls
    BY DEF Reusable, Live, Shape, Types, SlotTypes
  <2>2. SlotTypes' /\ FlightTypes'
    BY <1>2 DEF Shape, Types, SlotTypes, FlightTypes
  <2>3. WaitTypes'
    BY <1>2, <2>1 DEF Shape, Types, WaitTypes, Park, Over
  <2>4. PICK where \in {"returned", "aborted"} : Park(c, where, {})
    BY <1>2
  <2>5. \A d \in Calls \ {c} : on'[d] = on[d]
    BY <2>4 DEF Park, Shape, Types, WaitTypes
  <2>6. \A r \in Slots : \/ flights'[r] = flights[r]
                        \/ (flights'[r] = NoOne /\ Current(r) = NoOne)
    BY <1>2 DEF Shape, Types, SlotTypes
  <2>7. Types'
    BY <1>a, <2>2, <2>3 DEF Types
  <2> QED BY <1>0, <1>2, <2>4, <2>5, <2>6, <2>7, CallMoved DEF Park, Over
<1>3. CASE /\ Current(s) = NoOne
           /\ StartAndJoin(c, s)
           /\ seen' = [seen EXCEPT ![c] = aborts[s]]
           /\ UNCHANGED <<answer, replacements>>
  <2>1. replacements' \in [Slots -> Seq(Calls)]
    BY <1>3 DEF Shape, Types, SlotTypes
  <2> QED BY <1>0, <1>3, <2>1, StartShape
<1>4. CASE /\ Current(s) # NoOne
           /\ \/ Park(c, "windDown", {flights[s]}) /\ UNCHANGED waiters
              \/ Join(c, flights[s])
           /\ UNCHANGED <<flights, task, seen, answer, replacements>>
  <2>1. flights[s] \in Calls
    BY <1>4 DEF Current, Shape, Types, SlotTypes
  <2>2. SlotTypes'
    BY <1>4 DEF Shape, Types, SlotTypes
  <2>3. FlightTypes'
    BY <1>4, <2>1 DEF Shape, Types, FlightTypes, Join
  <2>4. PICK where \in {"windDown", "joined"} : Park(c, where, {flights[s]})
    BY <1>4 DEF Join
  <2>5. WaitTypes'
    BY <1>4, <2>1, <2>4 DEF Shape, Types, WaitTypes, Park, Waiting
  <2>6. on'[c] = {flights[s]} /\ \A d \in Calls \ {c} : on'[d] = on[d]
    BY <2>4 DEF Park, Shape, Types, WaitTypes
  <2>7. Types'
    BY <1>a, <2>2, <2>3, <2>5 DEF Types
  <2> QED BY <1>0, <1>4, <2>1, <2>4, <2>6, <2>7, CallMoved DEF Park, Waiting
<1> QED BY <1>1, <1>2, <1>3, <1>4 DEF Decide
\* replace, whether it waits, gives up or starts.
LEMMA ReplaceShape ==
  ASSUME Shape, NEW c \in Calls, NEW s \in Slots, NEW aborts_seen, NEW q \in Seq(Calls),
         pc[c] \in {"idle", "queued", "windDown"},
         WaitOutOrStart(c, s, aborts_seen, q),
         AskTypes', slot'[c] = s, \A d \in Calls \ {c} : slot'[d] = slot[d],
         seen' = [seen EXCEPT ![c] = aborts[s]] \/ UNCHANGED seen,
         UNCHANGED <<modeVars, slotVars, bodyVars, answer>>
  PROVE  Shape'
<1> USE DEF modeVars, slotVars, bodyVars
<1>0. task[c] = "none" /\ Current(s) \in Calls \cup {NoOne}
  BY DEF Shape, CallsInPlace, Types, SlotTypes, Current
<1>a. ModeTypes' /\ replacements' \in [Slots -> Seq(Calls)]
  BY WithoutIsSeq DEF Shape, Types, ModeTypes, SlotTypes, WaitOutOrStart
<1>b. seen' \in [Calls -> 0..MaxAborts]
  BY DEF Shape, Types, WaitTypes, ModeTypes
<1>1. CASE /\ Current(s) # NoOne
           /\ Park(c, "windDown", {flights[s]})
           /\ UNCHANGED <<flights, task, waiters>>
  <2>1. flights[s] \in Calls
    BY <1>1 DEF Current, Shape, Types, SlotTypes
  <2>2. SlotTypes' /\ FlightTypes'
    BY <1>a, <1>1 DEF Shape, Types, SlotTypes, FlightTypes
  <2>3. WaitTypes'
    BY <1>b, <1>1, <2>1 DEF Shape, Types, WaitTypes, Park, Waiting
  <2>4. \A d \in Calls \ {c} : on'[d] = on[d]
    BY <1>1 DEF Park, Shape, Types, WaitTypes
  <2>5. Types'
    BY <1>a, <2>2, <2>3 DEF Types
  <2> QED BY <1>1, <2>4, <2>5, CallMoved DEF Park, Waiting
<1>2. CASE /\ Current(s) = NoOne
           /\ Park(c, "aborted", {})
           /\ flights' = [flights EXCEPT ![s] = NoOne]
           /\ UNCHANGED <<task, waiters>>
  <2>1. SlotTypes' /\ FlightTypes'
    BY <1>a, <1>2 DEF Shape, Types, SlotTypes, FlightTypes
  <2>2. WaitTypes'
    BY <1>b, <1>2 DEF Shape, Types, WaitTypes, Park, Over
  <2>3. \A d \in Calls \ {c} : on'[d] = on[d]
    BY <1>2 DEF Park, Shape, Types, WaitTypes
  <2>4. \A r \in Slots : \/ flights'[r] = flights[r]
                        \/ (flights'[r] = NoOne /\ Current(r) = NoOne)
    BY <1>2 DEF Shape, Types, SlotTypes
  <2>5. Types'
    BY <1>a, <2>1, <2>2 DEF Types
  <2> QED BY <1>2, <2>3, <2>4, <2>5, CallMoved DEF Park, Over
<1>3. CASE Current(s) = NoOne /\ StartAndJoin(c, s)
  BY <1>0, <1>a, <1>3, StartShape
<1> QED BY <1>1, <1>2, <1>3 DEF WaitOutOrStart

\* A step that moves one flight and no call.
LEMMA FlightMoved ==
  ASSUME Shape, Types', NEW f \in Calls, NEW phase \in Phases \ {"none"},
         task[f] \in Running, Move(f, phase),
         \A s \in Slots : session'[s] \in {session[s], NoOne, f},
         UNCHANGED <<callVars, flights>>
  PROVE  Shape'
<1>1. task'[f] = phase /\ \A g \in Calls \ {f} : task'[g] = task[g]
  BY DEF Move, Shape, Types, FlightTypes
<1>2. task[f] # "none"
  BY DEF Running
<1>3. CallsInPlace'
  BY <1>1, <1>2 DEF callVars, askVars, Shape, CallsInPlace
<1>4. FlightsInPlace' /\ OneConnectPerSlot'
  BY <1>1, <1>2, FlightsKept DEF callVars, askVars, Shape, FlightsInPlace
<1> QED BY <1>3, <1>4 DEF Shape
\* A step of the environment that moves no call and no flight.
LEMMA OthersMoved ==
  ASSUME Shape, Types',
         \A s \in Slots : \/ flights'[s] = flights[s]
                         \/ (flights'[s] = NoOne /\ Current(s) = NoOne),
         \A s \in Slots : session'[s] \in {session[s], NoOne},
         UNCHANGED <<callVars, task>>
  PROVE  Shape'
<1>1. CallsInPlace'
  BY DEF callVars, askVars, Shape, CallsInPlace
<1>2. FlightsInPlace' /\ OneConnectPerSlot'
  BY FlightsKept DEF callVars, askVars, Shape, FlightsInPlace
<1> QED BY <1>1, <1>2 DEF Shape

LEMMA TearDownShape ==
  ASSUME Shape, NEW A \in SUBSET Slots, NEW D \in SUBSET Slots, TearDown(A, D),
         shutDown' \in BOOLEAN, stopped' \in BOOLEAN
  PROVE  Shape'
<1> USE DEF TearDown, DropSessions
<1>1. \A s \in Slots : Current(s) \in Calls \cup {NoOne}
  BY DEF Shape, Types, SlotTypes, Current
<1>2. SlotTypes'
  BY <1>1 DEF Shape, Types, SlotTypes
<1>3. ModeTypes'
  BY DEF Shape, Types, ModeTypes
<1>4. FlightTypes'
  BY <1>1 DEF Shape, Types, FlightTypes
<1>5. AskTypes' /\ WaitTypes'
  BY DEF Shape, Types, AskTypes, WaitTypes, callVars, askVars
<1>6. Types'
  BY <1>2, <1>3, <1>4, <1>5 DEF Types
<1>7. \A s \in Slots : \/ flights'[s] = flights[s]
                      \/ (flights'[s] = NoOne /\ Current(s) = NoOne)
  BY DEF Current
<1>8. \A s \in Slots : session'[s] \in {session[s], NoOne}
  OBVIOUS
<1> QED BY <1>6, <1>7, <1>8, OthersMoved

LEMMA InvokeShape ==
  ASSUME Shape, NEW c \in Calls, Invoke(c)
  PROVE  Shape'
<1>1. PICK s \in Slots : \/ Ensure(c, s)
                        \/ \E x \in Calls \cup {NoOne} : Renew(c, s, x)
                        \/ Replace(c, s)
  BY DEF Invoke
<1>2. ASSUME NEW k \in {"ensure", "renew", "replace"}, NEW x \in Calls \cup {NoOne},
             Ask(c, k, s, x)
      PROVE  /\ pc[c] = "idle" /\ AskTypes' /\ slot'[c] = s
             /\ \A d \in Calls \ {c} : slot'[d] = slot[d]
  BY <1>2 DEF Ask, Shape, Types, AskTypes
<1>3. CASE Ensure(c, s)
  <2>1. Ask(c, "ensure", s, NoOne) /\ Decide(c, "ensure", s, NoOne)
        /\ UNCHANGED <<modeVars, slotVars, bodyVars>>
    BY <1>3 DEF Ensure
  <2> QED BY <2>1, <1>2, DecideShape
<1>4. ASSUME NEW x \in Calls \cup {NoOne}, Renew(c, s, x)
      PROVE  Shape'
  <2>1. Ask(c, "renew", s, x) /\ Decide(c, "renew", s, x)
        /\ UNCHANGED <<modeVars, slotVars, bodyVars>>
    BY <1>4 DEF Renew
  <2> QED BY <2>1, <1>2, DecideShape
<1>5. CASE Replace(c, s)
  <2>1. Ask(c, "replace", s, NoOne) /\ seen' = [seen EXCEPT ![c] = aborts[s]]
        /\ UNCHANGED <<modeVars, slotVars, bodyVars, answer>>
    BY <1>5 DEF Replace
  <2>2. pc[c] = "idle" /\ AskTypes' /\ slot'[c] = s
        /\ \A d \in Calls \ {c} : slot'[d] = slot[d]
    BY <2>1, <1>2
  <2>3. CASE /\ Park(c, "queued", Earlier(s))
             /\ replacements' = [replacements EXCEPT ![s] = Append(@, c)]
             /\ UNCHANGED <<flights, task, waiters>>
    <3> USE DEF modeVars, slotVars, bodyVars
    <3>1. Earlier(s) \subseteq Calls /\ Append(replacements[s], c) \in Seq(Calls)
      BY QueueTypes DEF Earlier, Shape
    <3>2. SlotTypes'
      BY <2>1, <2>3, <3>1 DEF Shape, Types, SlotTypes
    <3>3. ModeTypes' /\ FlightTypes'
      BY <2>1, <2>3 DEF Shape, Types, ModeTypes, FlightTypes
    <3>4. WaitTypes'
      BY <2>1, <2>3, <3>1 DEF Shape, Types, WaitTypes, ModeTypes, Park, Waiting
    <3>5. \A d \in Calls \ {c} : on'[d] = on[d]
      BY <2>3 DEF Park, Shape, Types, WaitTypes
    <3>6. Types'
      BY <2>2, <3>2, <3>3, <3>4 DEF Types
    <3> QED BY <2>1, <2>2, <2>3, <3>5, <3>6, CallMoved DEF Park, Waiting
  <2>4. CASE WaitOutOrStart(c, s, aborts[s], <<c>>)
    <3>1. <<c>> \in Seq(Calls)
      OBVIOUS
    <3> QED BY <2>1, <2>2, <2>4, <3>1, ReplaceShape
  <2> QED BY <1>5, <2>3, <2>4 DEF Replace
<1> QED BY <1>1, <1>3, <1>4, <1>5

LEMMA CallStepShape ==
  ASSUME Shape, NEW c \in Calls, CallStep(c) \/ Cancel(c)
  PROVE  Shape'
<1>0. pc[c] # "idle" => slot[c] \in Slots
  BY DEF Shape, CallsInPlace
<1>1. CASE Again(c)
  <2>1. /\ pc[c] \in {"waitTurn", "windDown"}
        /\ Decide(c, kind[c], slot[c], stale[c])
        /\ UNCHANGED <<modeVars, slotVars, askVars, bodyVars>>
    BY <1>1 DEF Again
  <2>2. AskTypes' /\ slot' = slot
    BY <2>1 DEF askVars, Shape, Types, AskTypes
  <2> QED BY <1>0, <2>1, <2>2, DecideShape
<1>2. CASE GoOn(c)
  <2>1. /\ pc[c] \in {"queued", "windDown"}
        /\ WaitOutOrStart(c, slot[c], seen[c], replacements[slot[c]])
        /\ UNCHANGED <<modeVars, slotVars, askVars, bodyVars, seen, answer>>
    BY <1>2 DEF GoOn
  <2>2. AskTypes' /\ slot' = slot
    BY <2>1 DEF askVars, Shape, Types, AskTypes
  <2>3. replacements[slot[c]] \in Seq(Calls)
    BY <1>0, <2>1 DEF Shape, Types, SlotTypes
  <2> QED BY <1>0, <2>1, <2>2, <2>3, ReplaceShape
<1>3. ASSUME LeaveQueue(c), pc[c] # "idle"
      PROVE  replacements' \in [Slots -> Seq(Calls)]
  <2>1. slot[c] \in Slots /\ replacements \in [Slots -> Seq(Calls)]
    BY <1>0, <1>3 DEF Shape, Types, SlotTypes
  <2>2. Without(replacements[slot[c]], c) \in Seq(Calls)
    BY <2>1, WithoutIsSeq
  <2>3. \/ replacements' = [replacements EXCEPT ![slot[c]] = Without(replacements[slot[c]], c)]
        \/ replacements' = replacements
    BY <1>3 DEF LeaveQueue
  <2> QED BY <2>1, <2>2, <2>3
<1>4. CASE Return(c)
  <2>1. PICK f \in Calls : on[c] = {f}
    BY <1>4 DEF Return, Shape, CallsInPlace
  <2>2. PICK how \in Over :
           /\ Park(c, how, {})
           /\ answer' = [answer EXCEPT ![c] = f] \/ UNCHANGED answer
           /\ Leave(f)
           /\ RecordReopenFailure(c, how)
    BY <1>4, <2>1 DEF Return, Over
  <2>3. UNCHANGED <<modeVars, alive, askVars, bodyVars, flights, task, seen>>
    BY <1>4 DEF Return
  <2> USE DEF modeVars, askVars, bodyVars
  <2>4. session' \in [Slots -> Calls \cup {NoOne}]
        /\ \A s \in Slots : session'[s] \in {session[s], NoOne}
    BY <2>2 DEF RecordReopenFailure, Shape, Types, SlotTypes
  <2>5. SlotTypes'
    <3>1. LeaveQueue(c) /\ pc[c] # "idle"
      BY <1>4 DEF Return
    <3> QED BY <1>3, <2>3, <2>4, <3>1 DEF Shape, Types, SlotTypes
  <2>6. ModeTypes' /\ AskTypes'
    BY <2>3 DEF Shape, Types, ModeTypes, AskTypes
  <2>7. FlightTypes'
    BY <2>2, <2>3 DEF Leave, Shape, Types, FlightTypes
  <2>8. WaitTypes'
    BY <2>2, <2>3 DEF Park, Shape, Types, WaitTypes
  <2>9. \A d \in Calls \ {c} : on'[d] = on[d]
    BY <2>2 DEF Park, Shape, Types, WaitTypes
  <2>10. pc[c] # "idle" /\ "joined" \notin Over
    BY <1>4 DEF Return, Over
  <2>11. Types'
    BY <2>5, <2>6, <2>7, <2>8 DEF Types
  <2> QED BY <1>0, <2>2, <2>3, <2>4, <2>9, <2>10, <2>11, CallMoved DEF Park
<1>5. CASE Cancel(c)
  <2>1. /\ pc[c] \in Waiting
        /\ Park(c, "cancelled", {})
        /\ UNCHANGED <<modeVars, slotVars, askVars, began, flights, task, seen, answer>>
        /\ LeaveQueue(c)
    BY <1>5 DEF Cancel
  <2> USE DEF modeVars, slotVars, askVars
  <2>2. waiters' \in [Calls -> Int] /\ abandoned' \subseteq Calls
    <3>1. CASE pc[c] = "joined"
      BY <1>5, <3>1 DEF Cancel, Leave, Shape, CallsInPlace, Types, FlightTypes
    <3>2. CASE pc[c] # "joined"
      BY <1>5, <3>2 DEF Cancel, Shape, Types, FlightTypes
    <3> QED BY <3>1, <3>2
  <2>3. SlotTypes'
    BY <1>3, <2>1 DEF Waiting, Shape, Types, SlotTypes
  <2>4. ModeTypes' /\ AskTypes'
    BY <2>1 DEF Shape, Types, ModeTypes, AskTypes
  <2>5. FlightTypes'
    BY <2>1, <2>2 DEF Shape, Types, FlightTypes
  <2>6. WaitTypes'
    BY <2>1 DEF Park, Shape, Types, WaitTypes, Over
  <2>7. \A d \in Calls \ {c} : on'[d] = on[d]
    BY <2>1 DEF Park, Shape, Types, WaitTypes
  <2>8. Types'
    BY <2>3, <2>4, <2>5, <2>6 DEF Types
  <2> QED BY <1>0, <2>1, <2>7, <2>8, CallMoved DEF Park, Waiting, Over
<1> QED BY <1>1, <1>2, <1>4, <1>5 DEF CallStep
LEMMA FlightStepShape ==
  ASSUME Shape, NEW f \in Calls, FlightStep(f)
  PROVE  Shape'
<1> USE DEF modeVars, slotVars, bodyVars, DropSessions
<1>1. PICK phase \in Phases \ {"none"} : Move(f, phase) /\ task[f] \in Running
  <2>1. CASE NeverBegins(f)
    BY <2>1 DEF NeverBegins, Running, Phases, Finished
  <2>2. CASE Begin(f)
    BY <2>2 DEF Begin, Running, Phases, Finished
  <2>3. CASE CloseAndOpen(f)
    BY <2>3 DEF CloseAndOpen, Running, Phases, Finished
  <2>4. CASE Land(f)
    BY <2>4 DEF Land, Running, Phases, Finished
  <2>5. CASE Persisted(f) \/ Fail(f) \/ Unwind(f)
    BY <2>5 DEF Persisted, Fail, Unwind, Running, Phases, Finished
  <2> QED BY <2>1, <2>2, <2>3, <2>4, <2>5 DEF FlightStep
<1>2. UNCHANGED <<modeVars, callVars, abandoned, flights, replacements, waiters>>
  BY DEF FlightStep, NeverBegins, Begin, CloseAndOpen, Land, Persisted, Fail, Unwind
<1>3. slot[f] \in Slots
  BY <1>1 DEF Shape, CallsInPlace, FlightsInPlace, Running
<1>4. began' \in [Calls -> 0..MaxAborts]
  <2>1. began' = began \/ began' = [began EXCEPT ![f] = aborts[slot[f]]]
    BY DEF FlightStep, NeverBegins, Begin, CloseAndOpen, Land, Persisted, Fail, Unwind
  <2> QED BY <1>3, <2>1 DEF Shape, Types, ModeTypes, FlightTypes
<1>5. \/ UNCHANGED slotVars
      \/ DropSessions({slot[f]})
      \/ session' = [session EXCEPT ![slot[f]] = f] /\ alive' = alive \cup {f}
  BY DEF FlightStep, NeverBegins, Begin, CloseAndOpen, Land, Persisted, Fail, Unwind
<1>6. /\ session' \in [Slots -> Calls \cup {NoOne}]
      /\ alive' \subseteq Calls
      /\ \A s \in Slots : session'[s] \in {session[s], NoOne, f}
  BY <1>3, <1>5 DEF Shape, Types, SlotTypes
<1>7. SlotTypes' /\ ModeTypes'
  BY <1>2, <1>6 DEF Shape, Types, SlotTypes, ModeTypes
<1>8. FlightTypes'
  BY <1>1, <1>2, <1>4 DEF Move, Shape, Types, FlightTypes
<1>9. AskTypes' /\ WaitTypes'
  BY <1>2 DEF callVars, askVars, Shape, Types, AskTypes, WaitTypes
<1>10. Types'
  BY <1>7, <1>8, <1>9 DEF Types
<1> QED BY <1>1, <1>2, <1>6, <1>10, FlightMoved

\* The done-callbacks and what happens to sessions.
LEMMA OthersShape ==
  ASSUME Shape,
         \/ \E f \in Calls : Forget(f)
         \/ \E s \in Slots : Dies(s) \/ Evict(s)
         \/ Start
         \/ UNCHANGED vars
  PROVE  Shape'
<1> USE DEF modeVars, slotVars, bodyVars, DropSessions
<1>1. /\ UNCHANGED <<callVars, task, waiters, bodyVars, aborts, shutDown, replacements>>
      /\ stopped' \in {stopped, FALSE}
  BY DEF Forget, Dies, Evict, Start, vars, callVars, askVars
<1>2. ASSUME NEW f \in Calls, Forget(f), NEW s \in Slots
      PROVE  \/ flights'[s] = flights[s]
             \/ (flights'[s] = NoOne /\ Current(s) = NoOne)
  BY <1>2 DEF Forget, Current, Shape, Types, SlotTypes
<1>3. \A s \in Slots : \/ flights'[s] = flights[s]
                      \/ (flights'[s] = NoOne /\ Current(s) = NoOne)
  BY <1>2 DEF Dies, Evict, Start, vars
<1>4. flights' \in [Slots -> Calls \cup {NoOne}]
  BY DEF Forget, Dies, Evict, Start, vars, Shape, Types, SlotTypes
<1>5. /\ session' \in [Slots -> Calls \cup {NoOne}]
      /\ alive' \subseteq Calls
      /\ \A s \in Slots : session'[s] \in {session[s], NoOne}
  BY DEF Forget, Dies, Evict, Start, vars, Shape, Types, SlotTypes
<1>6. SlotTypes' /\ ModeTypes' /\ FlightTypes'
  BY <1>1, <1>4, <1>5 DEF Shape, Types, SlotTypes, ModeTypes, FlightTypes
<1>7. AskTypes' /\ WaitTypes'
  BY <1>1 DEF callVars, askVars, Shape, Types, AskTypes, WaitTypes
<1>8. Types'
  BY <1>6, <1>7 DEF Types
<1> QED BY <1>1, <1>3, <1>5, <1>8, OthersMoved

LEMMA ShapeNext == Shape /\ [Next]_vars => Shape'
<1> SUFFICES ASSUME Shape, [Next]_vars PROVE Shape'
  OBVIOUS
<1>1. ASSUME NEW c \in Calls, Invoke(c) \/ CallStep(c) \/ FlightStep(c) \/ Forget(c)
      PROVE  Shape'
  BY <1>1, InvokeShape, CallStepShape, FlightStepShape, OthersShape
<1>2. CASE \E c \in Calls : Cancel(c)
  BY <1>2, CallStepShape
<1>3. ASSUME NEW s \in Slots, Dies(s) \/ Evict(s) \/ Disconnect(s) \/ LeaveOrg(s)
      PROVE  Shape'
  <2>1. CASE Dies(s) \/ Evict(s)
    BY <2>1, OthersShape
  <2>2. CASE Disconnect(s) \/ LeaveOrg(s)
    <3>1. PICK A \in SUBSET Slots : TearDown(A, {s})
      BY <2>2 DEF Disconnect, LeaveOrg, Busy
    <3>2. shutDown' \in BOOLEAN /\ stopped' \in BOOLEAN
      BY <2>2 DEF Disconnect, LeaveOrg, Shape, Types, ModeTypes
    <3> QED BY <3>1, <3>2, TearDownShape
  <2> QED BY <1>3, <2>1, <2>2
<1>4. CASE Stop
  <2>1. Stop => TearDown(SharedSlots \cup Busy(UserSlots), Slots)
    BY DEF Stop
  <2>2. SharedSlots \cup Busy(UserSlots) \subseteq Slots
    BY DEF Busy, Slots
  <2>3. shutDown' \in BOOLEAN /\ stopped' \in BOOLEAN
    BY <1>4 DEF Stop, Shape, Types, ModeTypes
  <2> QED BY <1>4, <2>1, <2>2, <2>3, TearDownShape
<1>5. CASE StopAll
  <2>1. TearDown(Busy(Slots), Slots) /\ shutDown' \in BOOLEAN /\ stopped' \in BOOLEAN
    BY <1>5 DEF StopAll
  <2>2. Busy(Slots) \subseteq Slots
    BY DEF Busy
  <2> QED BY <2>1, <2>2, TearDownShape
<1>6. CASE Start \/ UNCHANGED vars
  BY <1>6, OthersShape
<1> QED BY <1>1, <1>2, <1>3, <1>4, <1>5, <1>6 DEF Next, Environment

\* States keep their shape.
THEOREM ShapeHolds == Spec => []Shape
BY ShapeInit, ShapeNext, PTL DEF Spec

\* Two connects never run at once for one slot, whatever the numbers of slots
\* and of calls and however often the slots are torn down.
THEOREM ConnectsNeverOverlap == Spec => []OneConnectPerSlot
<1>1. Shape => OneConnectPerSlot
  BY DEF Shape
<1> QED BY <1>1, ShapeHolds, PTL
-----------------------------------------------------------------------------
(* Teardowns: what keeps a torn-down or stopped slot without a session *)

\* A flight that has not begun and was not cancelled is as new as its slot's
\* last teardown; a body that runs works with the count its call saw, which a
\* stop or a shutdown has left behind.
FlightsTornDown ==
  \A f \in Calls :
    /\ task[f] = "created" /\ f \notin abandoned
         => seen[f] = aborts[slot[f]] /\ ~shutDown
    /\ task[f] \in {"preparing", "opening"}
         => /\ began[f] = seen[f]
            /\ began[f] <= aborts[slot[f]]
            /\ stopped \/ shutDown => began[f] < aborts[slot[f]]

TornDown == FlightsTornDown /\ SessionNewerThanTeardown /\ StoppedHasNoSession

LEMMA TornDownInit == Init => TornDown
BY DEF Init, TornDown, FlightsTornDown, SessionNewerThanTeardown, StoppedHasNoSession

\* What a step of a call does to flights: none, or it starts its own.
LEMMA CallEffect ==
  ASSUME Shape, NEW c \in Calls, Invoke(c) \/ CallStep(c) \/ Cancel(c)
  PROVE  /\ UNCHANGED <<modeVars, began>>
         /\ abandoned \subseteq abandoned'
         /\ \A s \in Slots : session'[s] \in {session[s], NoOne}
         /\ \A f \in Calls : task[f] # "none" =>
              task'[f] = task[f] /\ slot'[f] = slot[f] /\ seen'[f] = seen[f]
         /\ \A f \in Calls : task[f] = "none" /\ task'[f] # "none" =>
              /\ task'[f] = "created"
              /\ ~shutDown
              /\ seen'[f] = aborts[slot'[f]]
<1> USE DEF modeVars, slotVars, bodyVars, askVars
<1>1. ASSUME NEW s \in Slots, slot'[c] = s, \A d \in Calls \ {c} : slot'[d] = slot[d],
             task[c] = "none",
             UNCHANGED <<modeVars, slotVars, bodyVars>>,
             \/ /\ UNCHANGED task
                /\ seen' \in [Calls -> 0..MaxAborts]
                /\ \A d \in Calls \ {c} : seen'[d] = seen[d]
             \/ /\ task' = [task EXCEPT ![c] = "created"]
                /\ ~shutDown
                /\ seen' \in [Calls -> 0..MaxAborts]
                /\ seen'[c] = aborts[s]
                /\ \A d \in Calls \ {c} : seen'[d] = seen[d]
      PROVE  /\ UNCHANGED <<modeVars, began>>
             /\ abandoned \subseteq abandoned'
             /\ \A r \in Slots : session'[r] \in {session[r], NoOne}
             /\ \A f \in Calls : task[f] # "none" =>
                  task'[f] = task[f] /\ slot'[f] = slot[f] /\ seen'[f] = seen[f]
             /\ \A f \in Calls : task[f] = "none" /\ task'[f] # "none" =>
                  /\ task'[f] = "created"
                  /\ ~shutDown
                  /\ seen'[f] = aborts[slot'[f]]
  BY <1>1 DEF Shape, Types, FlightTypes
<1>2. ASSUME NEW s \in Slots, NEW k, NEW x, Decide(c, k, s, x)
      PROVE  \/ UNCHANGED <<task, seen>>
             \/ /\ task' = [task EXCEPT ![c] = "created"]
                /\ ~shutDown
                /\ seen' = [seen EXCEPT ![c] = aborts[s]]
  BY <1>2 DEF Decide, StartAndJoin
<1>3. ASSUME NEW s \in Slots, NEW n, NEW q, WaitOutOrStart(c, s, n, q)
      PROVE  \/ UNCHANGED task
             \/ /\ task' = [task EXCEPT ![c] = "created"]
                /\ ~shutDown
                /\ n = aborts[s]
  BY <1>3 DEF WaitOutOrStart, StartAndJoin
<1>4. pc[c] \in {"idle", "waitTurn", "queued", "windDown"} => task[c] = "none"
  BY DEF Shape, CallsInPlace
<1>5. seen \in [Calls -> 0..MaxAborts] /\ aborts \in [Slots -> 0..MaxAborts]
      /\ slot \in [Calls -> Slots \cup {NoOne}]
  BY DEF Shape, Types, WaitTypes, ModeTypes, AskTypes
<1>6. CASE Invoke(c)
  <2>1. PICK s \in Slots : \/ Ensure(c, s)
                          \/ \E x \in Calls : Renew(c, s, x)
                          \/ Replace(c, s)
    BY <1>6 DEF Invoke
  <2>2. pc[c] = "idle" /\ slot' = [slot EXCEPT ![c] = s]
    BY <2>1 DEF Ensure, Renew, Replace, Ask
  <2>3. slot'[c] = s /\ \A d \in Calls \ {c} : slot'[d] = slot[d]
    BY <2>2, <1>5
  <2>4. UNCHANGED <<modeVars, slotVars, bodyVars>>
    BY <2>1 DEF Ensure, Renew, Replace
  <2>5. CASE Replace(c, s)
    <3>1. seen' = [seen EXCEPT ![c] = aborts[s]]
      BY <2>5 DEF Replace
    <3>2. \/ UNCHANGED task
          \/ task' = [task EXCEPT ![c] = "created"] /\ ~shutDown
      BY <2>5, <1>3 DEF Replace
    <3> QED BY <1>1, <1>4, <1>5, <2>2, <2>3, <2>4, <3>1, <3>2
  <2>6. CASE ~Replace(c, s)
    <3>1. PICK k, x : Decide(c, k, s, x)
      BY <2>1, <2>6 DEF Ensure, Renew
    <3>2. \/ UNCHANGED <<task, seen>>
          \/ /\ task' = [task EXCEPT ![c] = "created"]
             /\ ~shutDown
             /\ seen' = [seen EXCEPT ![c] = aborts[s]]
      BY <1>2, <3>1
    <3> QED BY <1>1, <1>4, <1>5, <2>2, <2>3, <2>4, <3>2
  <2> QED BY <2>5, <2>6
<1>7. CASE Again(c)
  <2>1. /\ pc[c] \in {"waitTurn", "windDown"} /\ slot[c] \in Slots
        /\ UNCHANGED <<modeVars, slotVars, askVars, bodyVars>>
        /\ Decide(c, kind[c], slot[c], stale[c])
    BY <1>7 DEF Again, Shape, CallsInPlace
  <2>2. \/ UNCHANGED <<task, seen>>
        \/ /\ task' = [task EXCEPT ![c] = "created"]
           /\ ~shutDown
           /\ seen' = [seen EXCEPT ![c] = aborts[slot[c]]]
    BY <1>2, <2>1
  <2> QED BY <1>1, <1>4, <1>5, <2>1, <2>2
<1>8. CASE GoOn(c)
  <2>1. /\ pc[c] \in {"queued", "windDown"} /\ slot[c] \in Slots
        /\ UNCHANGED <<modeVars, slotVars, askVars, bodyVars, seen>>
        /\ WaitOutOrStart(c, slot[c], seen[c], replacements[slot[c]])
    BY <1>8 DEF GoOn, Shape, CallsInPlace
  <2>2. \/ UNCHANGED task
        \/ task' = [task EXCEPT ![c] = "created"] /\ ~shutDown
           /\ seen[c] = aborts[slot[c]]
    BY <1>3, <2>1
  <2> QED BY <1>1, <1>4, <1>5, <2>1, <2>2
<1>9. CASE Return(c) \/ Cancel(c)
  <2>1. UNCHANGED <<modeVars, began, task, askVars, seen>> /\ abandoned \subseteq abandoned'
    BY <1>9 DEF Return, Cancel
  <2>2. \A s \in Slots : session'[s] \in {session[s], NoOne}
    <3>1. session' = session \/ session' = [session EXCEPT ![slot[c]] = NoOne]
      BY <1>9 DEF Return, Cancel, RecordReopenFailure
    <3> QED BY <3>1 DEF Shape, Types, SlotTypes
  <2> QED BY <2>1, <2>2
<1> QED BY <1>6, <1>7, <1>8, <1>9 DEF CallStep

LEMMA CallTornDown ==
  ASSUME Shape, TornDown, NEW c \in Calls, Invoke(c) \/ CallStep(c) \/ Cancel(c)
  PROVE  TornDown'
<1>1. UNCHANGED <<aborts, shutDown, stopped, began>> /\ abandoned \subseteq abandoned'
  BY CallEffect DEF modeVars
<1>2. ASSUME NEW f \in Calls
      PROVE  /\ task'[f] = "created" /\ f \notin abandoned'
                  => seen'[f] = aborts'[slot'[f]] /\ ~shutDown'
             /\ task'[f] \in {"preparing", "opening"}
                  => /\ began'[f] = seen'[f]
                     /\ began'[f] <= aborts'[slot'[f]]
                     /\ stopped' \/ shutDown' => began'[f] < aborts'[slot'[f]]
  <2>1. CASE task[f] # "none"
    <3>1. task'[f] = task[f] /\ slot'[f] = slot[f] /\ seen'[f] = seen[f]
      BY <2>1, CallEffect
    <3> QED BY <1>1, <3>1 DEF TornDown, FlightsTornDown
  <2>2. CASE task[f] = "none"
    <3>1. task'[f] # "none" =>
             task'[f] = "created" /\ ~shutDown /\ seen'[f] = aborts[slot'[f]]
      BY <2>2, CallEffect
    <3> QED BY <1>1, <3>1
  <2> QED BY <2>1, <2>2
<1>3. FlightsTornDown'
  BY <1>2 DEF FlightsTornDown
<1>4. ASSUME NEW s \in Slots, session'[s] # NoOne
      PROVE  seen'[session'[s]] = aborts'[s] /\ ~(stopped' \/ shutDown')
  <2>1. session'[s] = session[s] /\ session[s] \in Calls /\ task[session[s]] # "none"
    BY <1>4, CallEffect DEF Shape, Types, SlotTypes, FlightsInPlace
  <2>2. seen'[session[s]] = seen[session[s]]
    BY <2>1, CallEffect
  <2> QED BY <1>1, <1>4, <2>1, <2>2 DEF TornDown, SessionNewerThanTeardown, StoppedHasNoSession
<1> QED BY <1>3, <1>4 DEF TornDown, SessionNewerThanTeardown, StoppedHasNoSession
LEMMA FlightTornDown ==
  ASSUME Shape, TornDown, NEW f \in Calls, FlightStep(f)
  PROVE  TornDown'
<1> USE DEF modeVars, slotVars, bodyVars, callVars, askVars
<1>1. UNCHANGED <<aborts, shutDown, stopped, slot, seen, abandoned>>
  BY DEF FlightStep, NeverBegins, Begin, CloseAndOpen, Land, Persisted, Fail, Unwind
<1>2. task[f] \in Running /\ slot[f] \in Slots
  <2>1. task[f] \in Running
    BY DEF FlightStep, NeverBegins, Begin, CloseAndOpen, Land, Persisted, Fail, Unwind, Running
  <2> QED BY <2>1 DEF Running, Shape, FlightsInPlace, CallsInPlace
<1>3. \A g \in Calls \ {f} : task'[g] = task[g] /\ began'[g] = began[g]
  <2>1. \E phase : Move(f, phase)
    BY DEF FlightStep, NeverBegins, Begin, CloseAndOpen, Land, Persisted, Fail, Unwind
  <2>2. began' = began \/ began' = [began EXCEPT ![f] = aborts[slot[f]]]
    BY DEF FlightStep, NeverBegins, Begin, CloseAndOpen, Land, Persisted, Fail, Unwind
  <2> QED BY <2>1, <2>2 DEF Move, Shape, Types, FlightTypes
<1>4. aborts[slot[f]] \in Nat
  BY <1>2 DEF Shape, Types, ModeTypes
<1>5. /\ task'[f] # "created"
      /\ task'[f] \in {"preparing", "opening"}
           => /\ began'[f] = seen[f]
              /\ began'[f] <= aborts[slot[f]]
              /\ stopped \/ shutDown => began'[f] < aborts[slot[f]]
  <2>1. CASE Begin(f)
    <3>1. seen[f] = aborts[slot[f]] /\ ~shutDown
      BY <2>1 DEF Begin, TornDown, FlightsTornDown
    <3>2. CASE ~RefusedAsStopped /\ began' = [began EXCEPT ![f] = aborts[slot[f]]]
      <4>1. began'[f] = seen[f] /\ ~stopped
        BY <3>1, <3>2 DEF RefusedAsStopped, Shape, Types, FlightTypes
      <4>2. task'[f] \in {"preparing", "opening"}
        BY <2>1, <3>2 DEF Begin, Move, Shape, Types, FlightTypes
      <4> QED BY <1>4, <3>1, <4>1, <4>2
    <3>3. CASE Move(f, "aborted")
      BY <3>3 DEF Move, Shape, Types, FlightTypes
    <3> QED BY <2>1, <3>2, <3>3 DEF Begin
  <2>2. CASE CloseAndOpen(f)
    <3>1. task[f] = "preparing" /\ task'[f] = "opening" /\ began' = began
      BY <2>2 DEF CloseAndOpen, Move, Shape, Types, FlightTypes
    <3> QED BY <3>1 DEF TornDown, FlightsTornDown
  <2>3. CASE NeverBegins(f) \/ Land(f) \/ Persisted(f) \/ Fail(f) \/ Unwind(f)
    BY <2>3 DEF NeverBegins, Land, Persisted, Fail, Unwind, Move, Shape, Types, FlightTypes
  <2> QED BY <2>1, <2>2, <2>3 DEF FlightStep
<1>6. FlightsTornDown'
  BY <1>1, <1>3, <1>5 DEF TornDown, FlightsTornDown
<1>7. ASSUME NEW s \in Slots, session'[s] # NoOne
      PROVE  seen[session'[s]] = aborts[s] /\ ~(stopped \/ shutDown)
  <2>1. CASE session'[s] = session[s]
    BY <1>7, <2>1 DEF TornDown, SessionNewerThanTeardown, StoppedHasNoSession
  <2>2. CASE session'[s] # session[s]
    <3>1. /\ task[f] = "opening" /\ ~AbortedSince(f)
          /\ session' = [session EXCEPT ![slot[f]] = f]
      BY <1>7, <2>2
         DEF FlightStep, NeverBegins, Begin, CloseAndOpen, Land, Persisted, Fail, Unwind, DropSessions
    <3>2. s = slot[f] /\ session'[s] = f
      BY <2>2, <3>1 DEF Shape, Types, SlotTypes
    <3>3. began[f] = aborts[slot[f]] /\ began[f] = seen[f]
      BY <3>1 DEF AbortedSince, TornDown, FlightsTornDown
    <3>4. stopped \/ shutDown => began[f] < aborts[slot[f]]
      BY <3>1 DEF TornDown, FlightsTornDown
    <3>5. ~(began[f] < aborts[slot[f]])
      BY <1>4, <3>3
    <3> QED BY <3>2, <3>3, <3>4, <3>5
  <2> QED BY <2>1, <2>2
<1> QED BY <1>1, <1>6, <1>7 DEF TornDown, SessionNewerThanTeardown, StoppedHasNoSession

\* A teardown of A that drops the sessions of D leaves none of A behind.  When
\* it stops or shuts the manager down, A is every slot where a flight runs.
LEMMA TearDownTornDown ==
  ASSUME Shape, TornDown, NEW A \in SUBSET Slots, NEW D \in SUBSET Slots,
         A \subseteq D, TearDown(A, D),
         \/ /\ UNCHANGED shutDown
            /\ UNCHANGED stopped
         \/ /\ D = Slots
            /\ \A s \in Slots : flights[s] # NoOne => s \in A
            /\ shutDown' \in BOOLEAN /\ stopped' \in BOOLEAN
  PROVE  TornDown'
<1> USE DEF callVars, askVars
<1>1. UNCHANGED <<slot, seen, task, began>>
  BY DEF TearDown
<1>2. \A s \in Slots : /\ s \in A => aborts'[s] = aborts[s] + 1
                       /\ s \notin A => aborts'[s] = aborts[s]
                       /\ aborts[s] \in Nat
  BY DEF TearDown, Shape, Types, ModeTypes
<1>3. ASSUME NEW f \in Calls, task[f] \in Running
      PROVE  /\ slot[f] \in Slots
             /\ flights[slot[f]] = f
             /\ Current(slot[f]) = f
             /\ slot[f] \in A => f \in abandoned'
             /\ f \in abandoned => f \in abandoned'
  <2>1. flights[slot[f]] = f /\ slot[f] \in Slots
    BY <1>3 DEF Running, Shape, OneConnectPerSlot, FlightsInPlace, CallsInPlace
  <2>2. Current(slot[f]) = f
    BY <1>3, <2>1 DEF Current, Done, Running, Finished
  <2> QED BY <2>1, <2>2 DEF TearDown
<1>4. ASSUME NEW f \in Calls
      PROVE  /\ task'[f] = "created" /\ f \notin abandoned'
                  => seen'[f] = aborts'[slot'[f]] /\ ~shutDown'
             /\ task'[f] \in {"preparing", "opening"}
                  => /\ began'[f] = seen'[f]
                     /\ began'[f] <= aborts'[slot'[f]]
                     /\ stopped' \/ shutDown' => began'[f] < aborts'[slot'[f]]
  <2>1. CASE task[f] = "created"
    <3>1. CASE slot[f] \in A
      BY <1>1, <1>3, <2>1, <3>1 DEF Running
    <3>2. CASE slot[f] \notin A
      <4>1. UNCHANGED shutDown
        BY <1>3, <2>1, <3>2 DEF Running
      <4> QED BY <1>1, <1>2, <1>3, <2>1, <3>2, <4>1 DEF Running, TornDown, FlightsTornDown
    <3> QED BY <3>1, <3>2
  <2>2. CASE task[f] \in {"preparing", "opening"}
    <3>1. /\ began[f] = seen[f]
          /\ began[f] <= aborts[slot[f]]
          /\ stopped \/ shutDown => began[f] < aborts[slot[f]]
      BY <2>2 DEF TornDown, FlightsTornDown
    <3>2. began[f] \in Nat
      BY DEF Shape, Types, FlightTypes
    <3>3. slot[f] \in Slots /\ flights[slot[f]] # NoOne
      BY <1>3, <2>2 DEF Running
    <3>4. CASE slot[f] \in A
      <4>1. aborts'[slot[f]] = aborts[slot[f]] + 1 /\ aborts[slot[f]] \in Nat
        BY <1>2, <3>3, <3>4
      <4>2. began[f] < aborts'[slot[f]] /\ began[f] <= aborts'[slot[f]]
        BY <3>1, <3>2, <4>1
      <4> QED BY <1>1, <2>2, <3>1, <4>2
    <3>5. CASE slot[f] \notin A
      <4>1. aborts'[slot[f]] = aborts[slot[f]] /\ UNCHANGED <<shutDown, stopped>>
        BY <1>2, <3>3, <3>5
      <4> QED BY <1>1, <2>2, <3>1, <4>1
    <3> QED BY <3>4, <3>5
  <2>3. CASE task[f] \notin {"created", "preparing", "opening"}
    BY <1>1, <2>3
  <2> QED BY <2>1, <2>2, <2>3
<1>5. FlightsTornDown'
  BY <1>4 DEF FlightsTornDown
<1>6. ASSUME NEW s \in Slots, session'[s] # NoOne
      PROVE  seen'[session'[s]] = aborts'[s] /\ ~(stopped' \/ shutDown')
  <2>1. s \notin D /\ session'[s] = session[s]
    BY <1>6 DEF TearDown, DropSessions
  <2> QED BY <1>1, <1>2, <1>6, <2>1 DEF TornDown, SessionNewerThanTeardown, StoppedHasNoSession
<1> QED BY <1>5, <1>6 DEF TornDown, SessionNewerThanTeardown, StoppedHasNoSession

LEMMA OthersTornDown ==
  ASSUME Shape, TornDown,
         \/ \E f \in Calls : Forget(f)
         \/ \E s \in Slots : Dies(s) \/ Evict(s)
         \/ Start
         \/ UNCHANGED vars
  PROVE  TornDown'
<1> USE DEF modeVars, slotVars, bodyVars, callVars, askVars
<1>1. UNCHANGED <<slot, seen, task, began, abandoned, aborts, shutDown>>
  BY DEF Forget, Dies, Evict, Start, vars
<1>2. stopped' => stopped
  BY DEF Forget, Dies, Evict, Start, vars
<1>3. \A s \in Slots : session'[s] \in {session[s], NoOne}
  BY DEF Forget, Dies, Evict, DropSessions, Start, vars
<1>4. FlightsTornDown'
  BY <1>1, <1>2 DEF TornDown, FlightsTornDown
<1> QED BY <1>1, <1>2, <1>3, <1>4 DEF TornDown, FlightsTornDown, SessionNewerThanTeardown, StoppedHasNoSession

LEMMA TornDownNext == Shape /\ TornDown /\ [Next]_vars => TornDown'
<1> SUFFICES ASSUME Shape, TornDown, [Next]_vars PROVE TornDown'
  OBVIOUS
<1>1. ASSUME NEW c \in Calls, Invoke(c) \/ CallStep(c) \/ FlightStep(c) \/ Forget(c)
      PROVE  TornDown'
  BY <1>1, CallTornDown, FlightTornDown, OthersTornDown
<1>2. CASE \E c \in Calls : Cancel(c)
  BY <1>2, CallTornDown
<1>3. ASSUME NEW s \in Slots, Dies(s) \/ Evict(s) \/ Disconnect(s) \/ LeaveOrg(s)
      PROVE  TornDown'
  <2>1. CASE Dies(s) \/ Evict(s)
    BY <2>1, OthersTornDown
  <2>2. CASE Disconnect(s) \/ LeaveOrg(s)
    <3>1. PICK A \in SUBSET {s} : TearDown(A, {s}) /\ UNCHANGED <<shutDown, stopped>>
      BY <2>2 DEF Disconnect, LeaveOrg, Busy
    <3>2. A \in SUBSET Slots /\ {s} \in SUBSET Slots /\ A \subseteq {s}
      OBVIOUS
    <3> QED BY <3>1, <3>2, TearDownTornDown
  <2> QED BY <1>3, <2>1, <2>2
<1>4. CASE Stop
  <2> DEFINE A == SharedSlots \cup Busy(UserSlots)
  <2>1. TearDown(A, Slots) /\ shutDown' \in BOOLEAN /\ stopped' \in BOOLEAN
    BY <1>4 DEF Stop, Shape, Types, ModeTypes
  <2>2. A \in SUBSET Slots /\ \A s \in Slots : flights[s] # NoOne => s \in A
    BY DEF Busy, Slots
  <2> HIDE DEF A
  <2> QED BY <2>1, <2>2, TearDownTornDown
<1>5. CASE StopAll
  <2> DEFINE A == Busy(Slots)
  <2>1. TearDown(A, Slots) /\ shutDown' \in BOOLEAN /\ stopped' \in BOOLEAN
    BY <1>5 DEF StopAll
  <2>2. A \in SUBSET Slots /\ \A s \in Slots : flights[s] # NoOne => s \in A
    BY DEF Busy
  <2> HIDE DEF A
  <2> QED BY <2>1, <2>2, TearDownTornDown
<1>6. CASE Start \/ UNCHANGED vars
  BY <1>6, OthersTornDown
<1> QED BY <1>1, <1>2, <1>3, <1>4, <1>5, <1>6 DEF Next, Environment

\* A recorded session is never older than the last teardown of its slot, even
\* when the cancel of the connect that built it was swallowed.
THEOREM NoSessionOutlivesATeardown == Spec => []SessionNewerThanTeardown
<1>1. TornDown => SessionNewerThanTeardown
  BY DEF TornDown
<1> QED BY <1>1, ShapeHolds, TornDownInit, TornDownNext, PTL DEF Spec

\* Neither a stopped upstream nor a manager that was shut down has a session.
THEOREM StoppedStaysStopped == Spec => []StoppedHasNoSession
<1>1. TornDown => StoppedHasNoSession
  BY DEF TornDown
<1> QED BY <1>1, ShapeHolds, TornDownInit, TornDownNext, PTL DEF Spec
-----------------------------------------------------------------------------
(* The counters of waiters *)

Joined(f) == {c \in Calls : pc[c] = "joined" /\ f \in on[c]}

\* What a step of a call does to the waiters: it waits for no flight, joins one
\* or leaves the one it had joined.
LEMMA CallWaits ==
  ASSUME Shape, NEW c \in Calls, Invoke(c) \/ CallStep(c) \/ Cancel(c)
  PROVE  \/ /\ pc[c] # "joined"
            /\ \E where, what : where # "joined" /\ Park(c, where, what)
            /\ UNCHANGED waiters
         \/ /\ pc[c] # "joined"
            /\ \E f \in Calls : Join(c, f)
         \/ /\ pc[c] = "joined"
            /\ \E f \in Calls : \E where :
                 on[c] = {f} /\ where # "joined" /\ Park(c, where, {}) /\ Leave(f)
<1>1. ASSUME NEW s \in Slots, NEW k, NEW x, Decide(c, k, s, x)
      PROVE  \/ (\E where, what : where # "joined" /\ Park(c, where, what)) /\ UNCHANGED waiters
             \/ \E f \in Calls : Join(c, f)
  <2>1. Current(s) # NoOne => flights[s] \in Calls
    BY DEF Current, Shape, Types, SlotTypes
  <2> QED BY <1>1, <2>1 DEF Decide, StartAndJoin
<1>2. ASSUME NEW s \in Slots, NEW n, NEW q, WaitOutOrStart(c, s, n, q)
      PROVE  \/ (\E where, what : where # "joined" /\ Park(c, where, what)) /\ UNCHANGED waiters
             \/ \E f \in Calls : Join(c, f)
  BY <1>2 DEF WaitOutOrStart, StartAndJoin
<1>3. CASE Invoke(c)
  <2>1. PICK s \in Slots : \/ Ensure(c, s)
                          \/ \E x \in Calls : Renew(c, s, x)
                          \/ Replace(c, s)
    BY <1>3 DEF Invoke
  <2>2. pc[c] = "idle"
    BY <2>1 DEF Ensure, Renew, Replace, Ask
  <2>3. CASE Replace(c, s)
    <3>1. \/ WaitOutOrStart(c, s, aborts[s], <<c>>)
          \/ Park(c, "queued", Earlier(s)) /\ UNCHANGED waiters
      BY <2>3 DEF Replace
    <3> QED BY <1>2, <2>2, <3>1
  <2>4. CASE ~Replace(c, s)
    <3>1. PICK k, x : Decide(c, k, s, x)
      BY <2>1, <2>4 DEF Ensure, Renew
    <3> QED BY <1>1, <2>2, <3>1
  <2> QED BY <2>3, <2>4
<1>4. CASE Again(c) \/ GoOn(c)
  <2>1. pc[c] \in {"waitTurn", "queued", "windDown"} /\ slot[c] \in Slots
    BY <1>4 DEF Again, GoOn, Shape, CallsInPlace
  <2>2. \/ Decide(c, kind[c], slot[c], stale[c])
        \/ WaitOutOrStart(c, slot[c], seen[c], replacements[slot[c]])
    BY <1>4 DEF Again, GoOn
  <2> QED BY <1>1, <1>2, <2>1, <2>2
<1>5. ASSUME pc[c] = "joined", Return(c) \/ Cancel(c)
      PROVE  \E f \in Calls : \E where :
               on[c] = {f} /\ where # "joined" /\ Park(c, where, {}) /\ Leave(f)
  <2>1. PICK f \in Calls : on[c] = {f}
    BY <1>5 DEF Shape, CallsInPlace
  <2>2. \E where : where # "joined" /\ Park(c, where, {}) /\ Leave(f)
    <3>1. CASE Return(c)
      <4>1. PICK how \in {"returned", "failed", "aborted"} : Park(c, how, {}) /\ Leave(f)
        BY <2>1, <3>1 DEF Return
      <4> QED BY <4>1
    <3>2. CASE Cancel(c)
      BY <1>5, <2>1, <3>2 DEF Cancel
    <3> QED BY <1>5, <3>1, <3>2
  <2> QED BY <2>1, <2>2
<1>6. CASE Return(c)
  BY <1>5, <1>6 DEF Return
<1>7. CASE Cancel(c)
  <2>1. CASE pc[c] # "joined"
    BY <1>7, <2>1 DEF Cancel
  <2> QED BY <1>5, <1>7, <2>1
<1> QED BY <1>3, <1>4, <1>6, <1>7 DEF CallStep

LEMMA CallWaitersCounted ==
  ASSUME Shape, WaitersCounted, NEW c \in Calls, Invoke(c) \/ CallStep(c) \/ Cancel(c)
  PROVE  WaitersCounted'
<1>1. /\ pc \in [Calls -> {"idle"} \cup Waiting \cup Over]
      /\ on \in [Calls -> SUBSET Calls]
      /\ waiters \in [Calls -> Int]
  BY DEF Shape, Types, WaitTypes, FlightTypes
<1>2. \A f \in Calls : waiters[f] = Cardinality(Joined(f)) /\ IsFiniteSet(Joined(f))
  <2>1. \A f \in Calls : Joined(f) \subseteq Calls
    BY DEF Joined
  <2> QED BY <2>1, FS_Subset DEF WaitersCounted, Joined
<1>3. SUFFICES ASSUME NEW g \in Calls PROVE waiters'[g] = Cardinality(Joined(g)')
  BY DEF WaitersCounted, Joined
<1>4. CASE /\ pc[c] # "joined"
           /\ \E where, what : where # "joined" /\ Park(c, where, what)
           /\ UNCHANGED waiters
  <2>1. Joined(g)' = Joined(g)
    BY <1>1, <1>4 DEF Joined, Park
  <2> QED BY <1>2, <1>4, <2>1
<1>5. ASSUME pc[c] # "joined", NEW f \in Calls, Join(c, f)
      PROVE  waiters'[g] = Cardinality(Joined(g)')
  <2>1. CASE g = f
    <3>1. Joined(g)' = Joined(g) \cup {c} /\ c \notin Joined(g)
      BY <1>1, <1>5, <2>1 DEF Joined, Join, Park
    <3>2. waiters'[g] = waiters[g] + 1
      BY <1>1, <1>5, <2>1 DEF Join
    <3> QED BY <1>2, <3>1, <3>2, FS_AddElement
  <2>2. CASE g # f
    <3>1. Joined(g)' = Joined(g)
      BY <1>1, <1>5, <2>2 DEF Joined, Join, Park
    <3>2. waiters'[g] = waiters[g]
      BY <1>1, <1>5, <2>2 DEF Join
    <3> QED BY <1>2, <3>1, <3>2
  <2> QED BY <2>1, <2>2
<1>6. ASSUME pc[c] = "joined", NEW f \in Calls, NEW where, on[c] = {f},
             where # "joined", Park(c, where, {}), Leave(f)
      PROVE  waiters'[g] = Cardinality(Joined(g)')
  <2>1. CASE g = f
    <3>1. Joined(g)' = Joined(g) \ {c} /\ c \in Joined(g)
      BY <1>1, <1>6, <2>1 DEF Joined, Park
    <3>2. waiters'[g] = waiters[g] - 1
      BY <1>1, <1>6, <2>1 DEF Leave
    <3> QED BY <1>2, <3>1, <3>2, FS_RemoveElement, ZenonT(60)
  <2>2. CASE g # f
    <3>1. Joined(g)' = Joined(g)
      BY <1>1, <1>6, <2>2 DEF Joined, Park
    <3>2. waiters'[g] = waiters[g]
      BY <1>1, <1>6, <2>2 DEF Leave
    <3> QED BY <1>2, <3>1, <3>2
  <2> QED BY <2>1, <2>2
<1> QED BY <1>4, <1>5, <1>6, CallWaits

LEMMA WaitersInit == Init => WaitersCounted
<1> SUFFICES ASSUME Init, NEW f \in Calls
             PROVE  waiters[f] = Cardinality({c \in Calls : pc[c] = "joined" /\ f \in on[c]})
  BY DEF WaitersCounted
<1>1. {c \in Calls : pc[c] = "joined" /\ f \in on[c]} = {}
  BY DEF Init
<1> QED BY <1>1, FS_EmptySet DEF Init

LEMMA WaitersNext == Shape /\ WaitersCounted /\ [Next]_vars => WaitersCounted'
<1> SUFFICES ASSUME Shape, WaitersCounted, [Next]_vars PROVE WaitersCounted'
  OBVIOUS
<1>1. ASSUME NEW c \in Calls, Invoke(c) \/ CallStep(c) \/ Cancel(c)
      PROVE  WaitersCounted'
  BY <1>1, CallWaitersCounted
<1>2. ASSUME UNCHANGED <<pc, on, waiters>> PROVE WaitersCounted'
  BY <1>2 DEF WaitersCounted
<1>3. ASSUME NEW f \in Calls, FlightStep(f) \/ Forget(f)
      PROVE  UNCHANGED <<pc, on, waiters>>
  BY <1>3 DEF FlightStep, NeverBegins, Begin, CloseAndOpen, Land, Persisted, Fail, Unwind,
              Forget, callVars
<1>4. ASSUME NEW s \in Slots, Dies(s) \/ Evict(s) \/ Disconnect(s) \/ LeaveOrg(s)
      PROVE  UNCHANGED <<pc, on, waiters>>
  BY <1>4 DEF Dies, Evict, Disconnect, LeaveOrg, TearDown, callVars
<1>5. Stop \/ Start \/ StopAll \/ UNCHANGED vars => UNCHANGED <<pc, on, waiters>>
  BY DEF Stop, Start, StopAll, TearDown, callVars, vars
<1> QED BY <1>1, <1>2, <1>3, <1>4, <1>5 DEF Next, Environment

\* The waiters counter of every flight is the number of calls waiting on it.
THEOREM WaitersAreCounted == Spec => []WaitersCounted
BY ShapeHolds, WaitersInit, WaitersNext, PTL DEF Spec

\* The types, where a counter of waiters is never negative because it counts.
THEOREM TypeCorrect == Spec => []TypeOK
<1>1. Shape /\ WaitersCounted => TypeOK
  <2> SUFFICES ASSUME Shape, WaitersCounted PROVE TypeOK
    OBVIOUS
  <2>1. ASSUME NEW f \in Calls PROVE waiters[f] \in Nat
    <3>1. IsFiniteSet({c \in Calls : pc[c] = "joined" /\ f \in on[c]})
      BY FS_Subset
    <3> QED BY <3>1, FS_CardinalityType DEF WaitersCounted
  <2>2. waiters \in [Calls -> Nat]
    BY <2>1 DEF Shape, Types, FlightTypes
  <2> QED BY <2>2 DEF TypeOK, Shape, Types, SlotTypes, ModeTypes, FlightTypes, AskTypes, WaitTypes
<1> QED BY <1>1, ShapeHolds, WaitersAreCounted, PTL

-----------------------------------------------------------------------------
(* What a step of a call comes to, whichever of the three ways it asks.    *)
(* The queue of replacements is left to QueueMoves.                        *)

Undecided == {"idle", "waitTurn", "queued", "windDown"}

\* It is the call that moves, on the slot s.
Moves(c, s) ==
  /\ slot'[c] = s /\ pc'[c] # "idle"
  /\ pc[c] # "idle" => slot[c] = s /\ kind'[c] = kind[c] /\ stale'[c] = stale[c]
  /\ pc[c] = "idle" /\ kind'[c] = "renew" => stale'[c] \in Held(s)
  /\ \A d \in Calls \ {c} :
       /\ kind'[d] = kind[d] /\ slot'[d] = slot[d] /\ stale'[d] = stale[d]
       /\ seen'[d] = seen[d] /\ pc'[d] = pc[d] /\ on'[d] = on[d] /\ answer'[d] = answer[d]
  /\ UNCHANGED <<modeVars, alive, began>>

\* It goes on waiting for its turn.
Waits(c, s) ==
  /\ pc[c] \in Undecided /\ pc'[c] \in Undecided \ {"idle"}
  /\ UNCHANGED <<flights, task, waiters, session, abandoned>>

\* It takes the session that is there.
Reuses(c, s) ==
  /\ pc[c] \in Undecided /\ pc'[c] = "returned" /\ answer'[c] = Live(s)
  /\ Current(s) = NoOne /\ Reusable(kind'[c], s, stale'[c])
  /\ flights' = [flights EXCEPT ![s] = NoOne]
  /\ UNCHANGED <<task, waiters, session, abandoned>>

\* It gives up before any flight of its own.
GivesUp(c, s) ==
  /\ pc[c] \in Undecided /\ pc'[c] = "aborted" /\ Current(s) = NoOne
  /\ flights' = [flights EXCEPT ![s] = NoOne]
  /\ UNCHANGED <<task, waiters, session, abandoned>>

\* It starts a flight: to replace what is there, or for want of a session.
Starts(c, s) ==
  /\ pc[c] \in Undecided /\ pc'[c] = "joined" /\ on'[c] = {c}
  /\ Current(s) = NoOne /\ task[c] = "none" /\ ~shutDown /\ seen'[c] = aborts[s]
  /\ kind'[c] # "replace" => ~Reusable(kind'[c], s, stale'[c])
  /\ flights' = [flights EXCEPT ![s] = c]
  /\ task' = [task EXCEPT ![c] = "created"]
  /\ waiters' = [waiters EXCEPT ![c] = @ + 1]
  /\ UNCHANGED <<session, abandoned>>

\* It joins the flight under way, which is wanted and not a replacement.
Joins(c, s) ==
  /\ pc[c] \in Undecided /\ pc'[c] = "joined" /\ on'[c] = {flights[s]} /\ kind'[c] # "replace"
  /\ Current(s) # NoOne /\ flights[s] \notin abandoned /\ ~ReplacementAhead(s)
  /\ waiters' = [waiters EXCEPT ![flights[s]] = @ + 1]
  /\ UNCHANGED <<flights, task, session, abandoned>>

\* At most one session goes.
DropsOne == session' = session \/ \E s \in Slots : session' = [session EXCEPT ![s] = NoOne]

\* It has the answer of the flight f it had joined, or waits no more for it.
Leaves(c, f) ==
  /\ pc[c] = "joined" /\ on[c] = {f} /\ Leave(f) /\ seen'[c] = seen[c]
  /\ \/ pc'[c] = "returned" /\ task[f] = "ok" /\ answer'[c] = f /\ UNCHANGED abandoned
     \/ pc'[c] \in Over \ {"returned"} /\ Done(f) /\ UNCHANGED abandoned
     \/ /\ pc'[c] = "cancelled"
        /\ abandoned' = IF LastAbandons(f) THEN abandoned \cup {f} ELSE abandoned
  /\ DropsOne
  /\ UNCHANGED <<flights, task>>

\* It is cancelled before it joined a flight.
DropsOut(c) ==
  /\ pc[c] \in Waiting \ {"joined"} /\ pc'[c] = "cancelled"
  /\ UNCHANGED <<flights, task, waiters, session, abandoned>>

\* What becomes of the queue: a replacement goes on in it, finds it empty, joins
\* its end, or leaves it.
QueueMoves(c, s) ==
  /\ \A r \in Slots \ {s} : replacements'[r] = replacements[r]
  /\ \/ kind'[c] # "replace" /\ replacements'[s] = replacements[s]
     \/ /\ pc[c] \in {"queued", "windDown"} /\ pc'[c] \in {"windDown", "joined"}
        /\ Woken(c) /\ replacements'[s] = replacements[s]
     \/ /\ pc[c] = "idle" /\ pc'[c] \in {"windDown", "joined", "aborted"}
        /\ kind'[c] = "replace" /\ replacements[s] = <<>>
        /\ replacements'[s] = IF pc'[c] = "aborted" THEN Without(<<c>>, c) ELSE <<c>>
     \/ /\ kind'[c] = "replace" /\ pc[c] = "idle" /\ pc'[c] = "queued" /\ on'[c] = ToSet(replacements[s])
        /\ replacements'[s] = Append(replacements[s], c)
     \/ pc'[c] \in Over /\ replacements'[s] = Without(replacements[s], c)

Does(c, s) ==
  \/ Waits(c, s) \/ Reuses(c, s) \/ GivesUp(c, s) \/ Starts(c, s) \/ Joins(c, s)
  \/ (\E f \in Calls : Leaves(c, f))
  \/ DropsOut(c)

LEMMA Dropped ==
  ASSUME Shape, DropsOne
  PROVE  \A s \in Slots : session'[s] \in {session[s], NoOne}
BY DEF DropsOne, Shape, Types, SlotTypes

LEMMA DecideDoes ==
  ASSUME Shape, NEW c \in Calls, NEW s \in Slots, NEW k, NEW x, k # "replace",
         pc[c] \in {"idle", "waitTurn", "windDown"}, Decide(c, k, s, x),
         kind'[c] = k, stale'[c] = x, UNCHANGED <<slotVars, bodyVars>>
  PROVE  /\ Waits(c, s) \/ Reuses(c, s) \/ GivesUp(c, s) \/ Starts(c, s) \/ Joins(c, s)
         /\ seen' = seen \/ seen' = [seen EXCEPT ![c] = aborts[s]]
         /\ \A d \in Calls \ {c} : pc'[d] = pc[d] /\ on'[d] = on[d] /\ answer'[d] = answer[d]
<1> USE DEF slotVars, bodyVars, Undecided
<1>1. /\ pc \in [Calls -> {"idle"} \cup Waiting \cup Over] /\ on \in [Calls -> SUBSET Calls]
      /\ answer \in [Calls -> Calls \cup {NoOne}] /\ seen \in [Calls -> 0..MaxAborts]
  BY DEF Shape, Types, WaitTypes
<1>2. ASSUME NEW where, NEW what, Park(c, where, what)
      PROVE  /\ pc'[c] = where /\ on'[c] = what
             /\ \A d \in Calls \ {c} : pc'[d] = pc[d] /\ on'[d] = on[d]
  BY <1>1, <1>2 DEF Park
<1>3. task[c] = "none" /\ (Current(s) # NoOne => flights[s] = Current(s))
  BY DEF Shape, CallsInPlace, Current
<1>4. CASE /\ \/ Park(c, "waitTurn", {Last(replacements[s])})
              \/ Park(c, "windDown", {flights[s]})
           /\ UNCHANGED <<flights, task, waiters, seen, answer>>
  BY <1>2, <1>4 DEF Waits
<1>5. CASE /\ Current(s) = NoOne /\ Reusable(k, s, x) /\ Park(c, "returned", {})
           /\ answer' = [answer EXCEPT ![c] = Live(s)]
           /\ flights' = [flights EXCEPT ![s] = NoOne] /\ UNCHANGED <<task, waiters, seen>>
  BY <1>1, <1>2, <1>5 DEF Reuses
<1>6. CASE /\ Current(s) = NoOne /\ Park(c, "aborted", {})
           /\ flights' = [flights EXCEPT ![s] = NoOne] /\ UNCHANGED <<task, waiters, seen, answer>>
  BY <1>2, <1>6 DEF GivesUp
<1>7. CASE /\ Current(s) = NoOne /\ ~Reusable(k, s, x) /\ ~shutDown /\ StartAndJoin(c, s)
           /\ seen' = [seen EXCEPT ![c] = aborts[s]] /\ UNCHANGED answer
  <2>1. Park(c, "joined", {c})
    BY <1>7 DEF StartAndJoin, Join
  <2> QED BY <1>1, <1>2, <1>3, <1>7, <2>1 DEF Starts, StartAndJoin, Join
<1>8. CASE /\ Current(s) # NoOne /\ flights[s] \notin abandoned /\ ~ReplacementAhead(s)
           /\ Join(c, flights[s]) /\ UNCHANGED <<flights, task, seen, answer>>
  <2>1. Park(c, "joined", {flights[s]})
    BY <1>8 DEF Join
  <2> QED BY <1>2, <1>8, <2>1 DEF Joins, Join
<1> QED BY <1>4, <1>5, <1>6, <1>7, <1>8 DEF Decide

LEMMA ReplaceDoes ==
  ASSUME Shape, NEW c \in Calls, NEW s \in Slots, NEW q \in Seq(Calls),
         pc[c] \in {"idle", "queued", "windDown"},
         WaitOutOrStart(c, s, seen'[c], q), kind'[c] = "replace", UNCHANGED <<slotVars, bodyVars>>
  PROVE  /\ Waits(c, s) \/ GivesUp(c, s) \/ Starts(c, s)
         /\ \A r \in Slots \ {s} : replacements'[r] = replacements[r]
         /\ \/ pc'[c] \in {"windDown", "joined"} /\ replacements'[s] = q
            \/ pc'[c] = "aborted" /\ replacements'[s] = Without(q, c)
         /\ \A d \in Calls \ {c} : pc'[d] = pc[d] /\ on'[d] = on[d]
<1> USE DEF slotVars, bodyVars, Undecided
<1>1. /\ pc \in [Calls -> {"idle"} \cup Waiting \cup Over] /\ on \in [Calls -> SUBSET Calls]
      /\ replacements \in [Slots -> Seq(Calls)]
  BY DEF Shape, Types, WaitTypes, SlotTypes
<1>2. ASSUME NEW where, NEW what, Park(c, where, what)
      PROVE  /\ pc'[c] = where /\ on'[c] = what
             /\ \A d \in Calls \ {c} : pc'[d] = pc[d] /\ on'[d] = on[d]
  BY <1>1, <1>2 DEF Park
<1>3. task[c] = "none"
  BY DEF Shape, CallsInPlace
<1>4. CASE /\ Park(c, "windDown", {flights[s]}) /\ UNCHANGED <<flights, task, waiters>>
           /\ replacements' = [replacements EXCEPT ![s] = q]
  BY <1>1, <1>2, <1>4 DEF Waits
<1>5. CASE /\ Current(s) = NoOne /\ Park(c, "aborted", {})
           /\ flights' = [flights EXCEPT ![s] = NoOne] /\ UNCHANGED <<task, waiters>>
           /\ replacements' = [replacements EXCEPT ![s] = Without(q, c)]
  BY <1>1, <1>2, <1>5 DEF GivesUp
<1>6. CASE /\ Current(s) = NoOne /\ aborts[s] = seen'[c] /\ ~shutDown /\ StartAndJoin(c, s)
           /\ replacements' = [replacements EXCEPT ![s] = q]
  <2>1. Park(c, "joined", {c})
    BY <1>6 DEF StartAndJoin, Join
  <2> QED BY <1>1, <1>2, <1>3, <1>6, <2>1 DEF Starts, StartAndJoin, Join
<1> QED BY <1>4, <1>5, <1>6 DEF WaitOutOrStart

LEMMA CallDoes ==
  ASSUME Shape, NEW c \in Calls, Invoke(c) \/ CallStep(c) \/ Cancel(c)
  PROVE  \E s \in Slots : Moves(c, s) /\ Does(c, s) /\ QueueMoves(c, s)
<1> USE DEF modeVars, slotVars, bodyVars, askVars
<1>1. /\ pc \in [Calls -> {"idle"} \cup Waiting \cup Over] /\ on \in [Calls -> SUBSET Calls]
      /\ seen \in [Calls -> 0..MaxAborts] /\ answer \in [Calls -> Calls \cup {NoOne}]
      /\ replacements \in [Slots -> Seq(Calls)]
      /\ kind \in [Calls -> {"none", "ensure", "renew", "replace"}]
      /\ slot \in [Calls -> Slots \cup {NoOne}] /\ stale \in [Calls -> Calls \cup {NoOne}]
  BY DEF Shape, Types, WaitTypes, SlotTypes, AskTypes
<1>2. pc[c] # "idle" => slot[c] \in Slots
  BY DEF Shape, CallsInPlace
<1>3. ASSUME NEW k, NEW s, NEW x, Ask(c, k, s, x)
      PROVE  /\ pc[c] = "idle" /\ kind'[c] = k /\ slot'[c] = s /\ stale'[c] = x
             /\ \A d \in Calls \ {c} : kind'[d] = kind[d] /\ slot'[d] = slot[d] /\ stale'[d] = stale[d]
  BY <1>1, <1>3 DEF Ask
<1>4. ASSUME NEW where, NEW what, Park(c, where, what)
      PROVE  /\ pc'[c] = where /\ on'[c] = what
             /\ \A d \in Calls \ {c} : pc'[d] = pc[d] /\ on'[d] = on[d]
  BY <1>1, <1>4 DEF Park
<1>5. ASSUME NEW s \in Slots, NEW k, NEW x, k # "replace", Ask(c, k, s, x), Decide(c, k, s, x),
             k = "renew" => x \in Held(s), UNCHANGED <<modeVars, slotVars, bodyVars>>
      PROVE  Moves(c, s) /\ Does(c, s) /\ QueueMoves(c, s)
  <2>1. /\ Waits(c, s) \/ Reuses(c, s) \/ GivesUp(c, s) \/ Starts(c, s) \/ Joins(c, s)
        /\ seen' = seen \/ seen' = [seen EXCEPT ![c] = aborts[s]]
        /\ \A d \in Calls \ {c} : pc'[d] = pc[d] /\ on'[d] = on[d] /\ answer'[d] = answer[d]
    BY <1>3, <1>5, DecideDoes
  <2>2. pc'[c] # "idle"
    BY <2>1 DEF Waits, Reuses, GivesUp, Starts, Joins
  <2>3. Moves(c, s)
    BY <1>1, <1>3, <1>5, <2>1, <2>2 DEF Moves
  <2>4. QueueMoves(c, s)
    BY <1>3, <1>5 DEF QueueMoves, Decide
  <2> QED BY <2>1, <2>3, <2>4 DEF Does
<1>6. ASSUME NEW s \in Slots, Replace(c, s)
      PROVE  Moves(c, s) /\ Does(c, s) /\ QueueMoves(c, s)
  <2>1. /\ Ask(c, "replace", s, NoOne) /\ seen'[c] = aborts[s]
        /\ \A d \in Calls \ {c} : seen'[d] = seen[d]
        /\ UNCHANGED <<modeVars, slotVars, bodyVars, answer>>
    BY <1>1, <1>6 DEF Replace
  <2>2. CASE replacements[s] # <<>>
    <3>1. /\ Park(c, "queued", ToSet(replacements[s]))
          /\ replacements' = [replacements EXCEPT ![s] = Append(replacements[s], c)]
          /\ UNCHANGED <<flights, task, waiters>>
      BY <1>6, <2>2 DEF Replace, Earlier
    <3>2. Waits(c, s) /\ QueueMoves(c, s)
      BY <1>1, <1>3, <1>4, <2>1, <3>1 DEF Waits, QueueMoves, Undecided
    <3>3. Moves(c, s)
      BY <1>3, <1>4, <2>1, <3>1 DEF Moves
    <3> QED BY <3>2, <3>3 DEF Does
  <2>3. CASE replacements[s] = <<>>
    <3>1. WaitOutOrStart(c, s, seen'[c], <<c>>)
      BY <1>6, <2>1, <2>3 DEF Replace
    <3>a. pc[c] \in {"idle", "queued", "windDown"} /\ kind'[c] = "replace" /\ <<c>> \in Seq(Calls)
      BY <1>3, <2>1
    <3>2. /\ Waits(c, s) \/ GivesUp(c, s) \/ Starts(c, s)
          /\ \A r \in Slots \ {s} : replacements'[r] = replacements[r]
          /\ \/ pc'[c] \in {"windDown", "joined"} /\ replacements'[s] = <<c>>
             \/ pc'[c] = "aborted" /\ replacements'[s] = Without(<<c>>, c)
          /\ \A d \in Calls \ {c} : pc'[d] = pc[d] /\ on'[d] = on[d]
      BY <2>1, <3>1, <3>a, ReplaceDoes
    <3>3. Moves(c, s)
      BY <1>3, <2>1, <3>2 DEF Moves
    <3>4. QueueMoves(c, s)
      BY <1>3, <2>1, <2>3, <3>2 DEF QueueMoves
    <3> QED BY <3>2, <3>3, <3>4 DEF Does
  <2> QED BY <2>2, <2>3
<1>7. CASE Invoke(c)
  <2>1. PICK s \in Slots : Ensure(c, s) \/ (\E x \in Calls : Renew(c, s, x)) \/ Replace(c, s)
    BY <1>7 DEF Invoke
  <2>2. CASE Ensure(c, s)
    BY <1>5, <2>2 DEF Ensure
  <2>3. CASE \E x \in Calls : Renew(c, s, x)
    BY <1>5, <2>3 DEF Renew
  <2> QED BY <1>6, <2>1, <2>2, <2>3
<1>8. CASE Again(c)
  <2>1. /\ slot[c] \in Slots /\ kind[c] # "replace" /\ pc[c] \in {"waitTurn", "windDown"}
        /\ Decide(c, kind[c], slot[c], stale[c])
        /\ UNCHANGED <<modeVars, slotVars, askVars, bodyVars>>
    BY <1>2, <1>8 DEF Again
  <2>2. /\ Waits(c, slot[c]) \/ Reuses(c, slot[c]) \/ GivesUp(c, slot[c]) \/ Starts(c, slot[c])
           \/ Joins(c, slot[c])
        /\ seen' = seen \/ seen' = [seen EXCEPT ![c] = aborts[slot[c]]]
        /\ \A d \in Calls \ {c} : pc'[d] = pc[d] /\ on'[d] = on[d] /\ answer'[d] = answer[d]
    BY <2>1, DecideDoes
  <2>3. pc'[c] # "idle"
    BY <2>2 DEF Waits, Reuses, GivesUp, Starts, Joins
  <2>4. Moves(c, slot[c])
    BY <1>1, <2>1, <2>2, <2>3 DEF Moves
  <2>5. QueueMoves(c, slot[c])
    BY <2>1 DEF QueueMoves, Decide
  <2> QED BY <2>1, <2>2, <2>4, <2>5 DEF Does
<1>9. CASE GoOn(c)
  <2>1. /\ slot[c] \in Slots /\ kind[c] = "replace" /\ pc[c] \in {"queued", "windDown"} /\ Woken(c)
        /\ WaitOutOrStart(c, slot[c], seen'[c], replacements[slot[c]])
        /\ UNCHANGED <<modeVars, slotVars, askVars, bodyVars, seen, answer>>
    BY <1>2, <1>9 DEF GoOn
  <2> DEFINE s == slot[c]
  <2>2. /\ Waits(c, s) \/ GivesUp(c, s) \/ Starts(c, s)
        /\ \A r \in Slots \ {s} : replacements'[r] = replacements[r]
        /\ \/ pc'[c] \in {"windDown", "joined"} /\ replacements'[s] = replacements[s]
           \/ pc'[c] = "aborted" /\ replacements'[s] = Without(replacements[s], c)
        /\ \A d \in Calls \ {c} : pc'[d] = pc[d] /\ on'[d] = on[d]
    <3>1. /\ pc[c] \in {"idle", "queued", "windDown"} /\ kind'[c] = "replace"
          /\ replacements[s] \in Seq(Calls) /\ s \in Slots
          /\ WaitOutOrStart(c, s, seen'[c], replacements[s]) /\ UNCHANGED <<slotVars, bodyVars>>
      BY <1>1, <2>1
    <3> HIDE DEF s
    <3> QED BY <3>1, ReplaceDoes
  <2>3. Moves(c, s)
    BY <2>1, <2>2 DEF Moves
  <2>4. QueueMoves(c, s)
    BY <2>1, <2>2 DEF QueueMoves, Over
  <2> QED BY <2>1, <2>2, <2>3, <2>4 DEF Does
<1>10. ASSUME pc[c] # "idle", pc'[c] \in Over, LeaveQueue(c), UNCHANGED askVars
       PROVE  QueueMoves(c, slot[c])
  <2>1. slot[c] \in Slots /\ kind'[c] = kind[c]
    BY <1>2, <1>10
  <2>2. CASE kind[c] = "replace"
    BY <1>1, <1>10, <2>1, <2>2 DEF QueueMoves, LeaveQueue
  <2>3. CASE kind[c] # "replace"
    BY <1>10, <2>1, <2>3 DEF QueueMoves, LeaveQueue
  <2> QED BY <2>2, <2>3
<1>11. CASE Return(c)
  <2>1. PICK f \in Calls : on[c] = {f}
    BY <1>11 DEF Return, Shape, CallsInPlace
  <2>2. PICK how : /\ how = CASE task[f] = "ok" -> "returned"
                              [] task[f] = "failed" -> "failed"
                              [] OTHER -> "aborted"
                   /\ Park(c, how, {}) /\ Leave(f) /\ RecordReopenFailure(c, how)
                   /\ answer' = IF how = "returned" THEN [answer EXCEPT ![c] = f] ELSE answer
    BY <1>11, <2>1 DEF Return
  <2>3. /\ pc[c] = "joined" /\ Done(f) /\ LeaveQueue(c)
        /\ UNCHANGED <<modeVars, alive, askVars, bodyVars, flights, task, seen>>
    BY <1>11, <2>1 DEF Return, Woken
  <2>4. /\ pc'[c] = how /\ how \in {"returned", "failed", "aborted"}
        /\ how = "returned" => task[f] = "ok" /\ answer'[c] = f
        /\ \A d \in Calls \ {c} : pc'[d] = pc[d] /\ on'[d] = on[d] /\ answer'[d] = answer[d]
    BY <1>1, <1>4, <2>2
  <2>5. DropsOne
    BY <1>2, <2>2, <2>3 DEF RecordReopenFailure, DropsOne
  <2>6. Leaves(c, f)
    BY <2>1, <2>2, <2>3, <2>4, <2>5 DEF Leaves, Over
  <2>7. Moves(c, slot[c])
    BY <2>3, <2>4 DEF Moves
  <2>8. QueueMoves(c, slot[c])
    BY <1>10, <2>3, <2>4 DEF Over
  <2> QED BY <1>2, <2>3, <2>6, <2>7, <2>8 DEF Does
<1>12. CASE Cancel(c)
  <2>1. /\ pc[c] \in Waiting /\ pc[c] # "idle" /\ Park(c, "cancelled", {}) /\ LeaveQueue(c)
        /\ UNCHANGED <<modeVars, slotVars, askVars, began, flights, task, seen, answer>>
    BY <1>12 DEF Cancel, Waiting
  <2>2. Moves(c, slot[c])
    BY <1>4, <2>1 DEF Moves
  <2>3. QueueMoves(c, slot[c])
    BY <1>4, <1>10, <2>1 DEF Over
  <2>4. CASE pc[c] = "joined"
    <3>1. PICK f \in Calls : on[c] = {f}
      BY <2>4 DEF Shape, CallsInPlace
    <3>2. Leave(f) /\ abandoned' = IF LastAbandons(f) THEN abandoned \cup {f} ELSE abandoned
      BY <1>12, <2>4, <3>1 DEF Cancel
    <3>3. Leaves(c, f)
      BY <1>4, <2>1, <2>4, <3>1, <3>2 DEF Leaves, DropsOne
    <3> QED BY <1>2, <2>1, <2>2, <2>3, <3>3 DEF Does
  <2>5. CASE pc[c] # "joined"
    <3>1. DropsOut(c)
      BY <1>4, <1>12, <2>1, <2>5 DEF DropsOut, Cancel
    <3> QED BY <1>2, <2>1, <2>2, <2>3, <3>1 DEF Does
  <2> QED BY <2>4, <2>5
<1> QED BY <1>7, <1>8, <1>9, <1>11, <1>12 DEF CallStep
-----------------------------------------------------------------------------
(* What a step of a flight comes to, and any other step.                   *)

\* It is over, one way or another.
Ends(f) ==
  /\ task[f] \in Running
  /\ \E phase \in Finished : task' = [task EXCEPT ![f] = phase]
  /\ UNCHANGED slotVars

\* It refreshes its tokens first.
Prepares(f) ==
  /\ task[f] = "created" /\ f \notin abandoned
  /\ task' = [task EXCEPT ![f] = "preparing"]
  /\ UNCHANGED slotVars

\* It closes what is there and connects.
Opens(f) ==
  /\ task[f] \in {"created", "preparing"}
  /\ task' = [task EXCEPT ![f] = "opening"]
  /\ session' = [session EXCEPT ![slot[f]] = NoOne]
  /\ alive' = alive \ {session[slot[f]]}

\* It records its session.
Lands(f) ==
  /\ task[f] = "opening" /\ began[f] = aborts[slot[f]]
  /\ \E phase \in {"persisting", "ok"} : task' = [task EXCEPT ![f] = phase]
  /\ session' = [session EXCEPT ![slot[f]] = f]
  /\ alive' = alive \cup {f}

FlightDoes(f) ==
  /\ Ends(f) \/ Prepares(f) \/ Opens(f) \/ Lands(f)
  /\ UNCHANGED modeVars /\ UNCHANGED callVars
  /\ UNCHANGED abandoned /\ UNCHANGED flights /\ UNCHANGED replacements /\ UNCHANGED waiters

\* Sessions go, and finished flights are forgotten.
Rests ==
  /\ \A s \in Slots : \/ flights'[s] = flights[s]
                      \/ flights'[s] = NoOne /\ Current(s) = NoOne
  /\ DropsOne
  /\ alive' \subseteq alive
  /\ UNCHANGED aborts /\ UNCHANGED shutDown /\ UNCHANGED callVars /\ UNCHANGED bodyVars
  /\ UNCHANGED replacements /\ UNCHANGED task /\ UNCHANGED waiters

\* A teardown of A, and of the sessions of D, where no flight is left out.
TearsDown(A, D) ==
  /\ A \subseteq D
  /\ \A s \in D : flights[s] # NoOne => s \in A
  /\ TearDown(A, D)

LEMMA FlightStepDoes ==
  ASSUME Shape, NEW f \in Calls, FlightStep(f)
  PROVE  FlightDoes(f) /\ slot[f] \in Slots
<1>1. task[f] \in Running /\ slot[f] \in Slots
  BY DEF FlightStep, NeverBegins, Begin, CloseAndOpen, Land, Persisted, Fail, Unwind, Running,
         Shape, FlightsInPlace, CallsInPlace
<1>2. DropSessions({slot[f]}) => /\ session' = [session EXCEPT ![slot[f]] = NoOne]
                                 /\ alive' = alive \ {session[slot[f]]}
  <2>1. {session[s] : s \in {slot[f]}} = {session[slot[f]]}
    OBVIOUS
  <2>2. [s \in Slots |-> IF s \in {slot[f]} THEN NoOne ELSE session[s]]
          = [session EXCEPT ![slot[f]] = NoOne]
    BY <1>1 DEF Shape, Types, SlotTypes
  <2> QED BY <2>1, <2>2 DEF DropSessions
<1>3. CASE NeverBegins(f)
  BY <1>1, <1>3 DEF NeverBegins, FlightDoes, Ends, Move, Finished, bodyVars
<1>4. CASE Begin(f)
  <2>1. /\ UNCHANGED modeVars /\ UNCHANGED callVars
        /\ UNCHANGED abandoned /\ UNCHANGED flights /\ UNCHANGED replacements /\ UNCHANGED waiters
    BY <1>4 DEF Begin
  <2>2. Ends(f) \/ Prepares(f) \/ Opens(f)
    BY <1>1, <1>2, <1>4 DEF Begin, Ends, Prepares, Opens, Move, Finished, slotVars
  <2> QED BY <1>1, <2>1, <2>2 DEF FlightDoes
<1>5. CASE CloseAndOpen(f)
  BY <1>1, <1>2, <1>5 DEF CloseAndOpen, FlightDoes, Opens, Move, bodyVars
<1>6. CASE Land(f)
  <2>1. Ends(f) \/ Lands(f)
    BY <1>1, <1>6 DEF Land, Ends, Lands, Move, Finished, AbortedSince, slotVars
  <2> QED BY <1>1, <1>6, <2>1 DEF Land, FlightDoes, bodyVars
<1>7. CASE Persisted(f) \/ Fail(f) \/ Unwind(f)
  BY <1>1, <1>7 DEF Persisted, Fail, Unwind, FlightDoes, Ends, Move, Finished, bodyVars
<1> QED BY <1>1, <1>3, <1>4, <1>5, <1>6, <1>7 DEF FlightStep

\* Every step is one of these.
LEMMA StepDoes ==
  ASSUME Shape, [Next]_vars
  PROVE  \/ \E c \in Calls, s \in Slots : Moves(c, s) /\ Does(c, s) /\ QueueMoves(c, s)
         \/ \E f \in Calls : FlightDoes(f) /\ slot[f] \in Slots
         \/ Rests
         \/ \E A, D \in SUBSET Slots : TearsDown(A, D)
<1>1. ASSUME NEW c \in Calls, Invoke(c) \/ CallStep(c) \/ Cancel(c)
      PROVE  \E s \in Slots : Moves(c, s) /\ Does(c, s) /\ QueueMoves(c, s)
  BY <1>1, CallDoes
<1>2. ASSUME NEW f \in Calls, FlightStep(f)
      PROVE  FlightDoes(f) /\ slot[f] \in Slots
  BY <1>2, FlightStepDoes
<1>3. ASSUME \/ \E f \in Calls : Forget(f)
             \/ \E s \in Slots : Dies(s) \/ Evict(s)
             \/ Start \/ UNCHANGED vars
      PROVE  Rests
  <2> USE DEF modeVars, slotVars, bodyVars, callVars, askVars
  <2>1. /\ UNCHANGED aborts /\ UNCHANGED shutDown /\ UNCHANGED callVars /\ UNCHANGED bodyVars
        /\ UNCHANGED replacements /\ UNCHANGED task /\ UNCHANGED waiters
    BY <1>3 DEF Forget, Dies, Evict, Start, vars
  <2>2. \A s \in Slots : flights'[s] = flights[s] \/ (flights'[s] = NoOne /\ Current(s) = NoOne)
    BY <1>3 DEF Forget, Dies, Evict, Start, vars, Current, Shape, Types, SlotTypes
  <2>3. DropsOne /\ alive' \subseteq alive
    <3>1. ASSUME NEW s \in Slots, DropSessions({s})
          PROVE  session' = [session EXCEPT ![s] = NoOne] /\ alive' \subseteq alive
      BY <3>1 DEF DropSessions, Shape, Types, SlotTypes
    <3> QED BY <1>3, <3>1 DEF Forget, Dies, Evict, Start, vars, DropsOne
  <2> HIDE DEF modeVars, slotVars, bodyVars, callVars, askVars
  <2> QED BY <2>1, <2>2, <2>3 DEF Rests
<1>4. ASSUME NEW s \in Slots, Disconnect(s) \/ LeaveOrg(s)
      PROVE  \E A, D \in SUBSET Slots : TearsDown(A, D)
  <2>1. PICK A \in SUBSET {s} : TearDown(A, {s}) /\ (flights[s] # NoOne => s \in A)
    BY <1>4 DEF Disconnect, LeaveOrg, Busy
  <2>2. A \in SUBSET Slots /\ {s} \in SUBSET Slots
    OBVIOUS
  <2> QED BY <2>1, <2>2 DEF TearsDown
<1>5. ASSUME Stop \/ StopAll
      PROVE  \E A, D \in SUBSET Slots : TearsDown(A, D)
  <2>1. PICK A \in SUBSET Slots : /\ TearDown(A, Slots)
                                 /\ \A s \in Slots : flights[s] # NoOne => s \in A
    <3>1. SharedSlots \cup Busy(UserSlots) \in SUBSET Slots /\ Busy(Slots) \in SUBSET Slots
      BY DEF Busy, Slots
    <3>2. \A s \in Slots : flights[s] # NoOne
                           => s \in SharedSlots \cup Busy(UserSlots) /\ s \in Busy(Slots)
      BY DEF Busy, Slots
    <3> QED BY <1>5, <3>1, <3>2 DEF Stop, StopAll
  <2> QED BY <2>1 DEF TearsDown
<1> QED BY <1>1, <1>2, <1>3, <1>4, <1>5 DEF Next, Environment

-----------------------------------------------------------------------------
(* What holds beside Shape and TornDown                                    *)

\* A flight is called off with waiters on it only by a teardown.  Only what
\* was started is joined or called off, and it had seen the aborts before it.
Wanted ==
  /\ \A c \in Calls : \A f \in on[c] : pc[c] = "joined" => task[f] # "none"
  /\ \A f \in abandoned : task[f] # "none"
  /\ \A f \in Calls : task[f] # "none" => seen[f] <= aborts[slot[f]]
  /\ CancelledOnlyWhenUnwanted

\* A session lies in its own slot.  What a call returned was built by a flight
\* that is over, and so was what a heal reported: it joins another one.
Renewed ==
  /\ \A s \in Slots : session[s] # NoOne => slot[session[s]] = s
  /\ \A c \in Calls : pc[c] = "returned" => answer[c] \in Calls /\ Done(answer[c])
  /\ \A c \in Calls : kind[c] = "renew" =>
       /\ stale[c] \in Calls /\ Done(stale[c])
       /\ pc[c] = "joined" => stale[c] \notin on[c]
  /\ RenewedIsNotStale

\* A connect works on an emptied slot, and what it is about to close is what
\* its caller asked to replace.
Cleared ==
  /\ \A f \in Calls : task[f] = "opening" => session[slot[f]] = NoOne
  /\ \A f \in Calls : task[f] \in {"created", "preparing"} /\ session[slot[f]] \in alive
       => kind[f] = "replace" \/ (kind[f] = "renew" /\ stale[f] = session[slot[f]])

\* The queue of a slot holds the replacements under way there; all but its
\* head wait for those before them.
Queued ==
  /\ \A s \in Slots : \A i \in 1..Len(replacements[s]) :
       LET c == replacements[s][i]
       IN kind[c] = "replace" /\ slot[c] = s /\ pc[c] \in {"queued", "windDown", "joined"}
  /\ \A s \in Slots : \A i, j \in 1..Len(replacements[s]) : i < j =>
       LET c == replacements[s][j]
       IN pc[c] = "queued" /\ replacements[s][i] \in on[c] /\ replacements[s][i] # c
  /\ \A c \in Calls : kind[c] = "replace" /\ pc[c] \in {"queued", "windDown", "joined"}
       => c \in ToSet(replacements[slot[c]])

\* A fresh sign-in waits for no flight but its own, and stays until that is
\* over or called off.
Own ==
  /\ \A c \in Calls : kind[c] = "replace" /\ pc[c] = "joined" => on[c] = {c}
  /\ \A f \in Calls : kind[f] = "replace" /\ task[f] \in Running /\ f \notin abandoned
       => pc[f] = "joined"
  /\ ReplacementNotShared

-----------------------------------------------------------------------------
(* Flights are called off only when nobody wants them                      *)

\* A call that waits for its turn, takes what is there or gives up has no
\* flight, and leaves the others' alone.
LEMMA CallAlone ==
  ASSUME Shape, NEW c \in Calls, NEW s \in Slots, Moves(c, s),
         Waits(c, s) \/ Reuses(c, s) \/ GivesUp(c, s) \/ DropsOut(c)
  PROVE  /\ task[c] = "none" /\ pc'[c] # "joined"
         /\ task' = task /\ waiters' = waiters /\ abandoned' = abandoned /\ session' = session
BY DEF Waits, Reuses, GivesUp, DropsOut, Undecided, Waiting, Shape, CallsInPlace

LEMMA CallWanted ==
  ASSUME Shape, Wanted, NEW c \in Calls, NEW s \in Slots, Moves(c, s), Does(c, s)
  PROVE  Wanted'
<1>1. /\ waiters \in [Calls -> Int] /\ task \in [Calls -> Phases]
      /\ on \in [Calls -> SUBSET Calls] /\ abandoned \subseteq Calls /\ flights \in [Slots -> Calls \cup {NoOne}]
      /\ aborts \in [Slots -> 0..MaxAborts]
  BY DEF Shape, Types, FlightTypes, WaitTypes, SlotTypes, ModeTypes
<1>2. /\ aborts' = aborts /\ slot'[c] = s
      /\ \A d \in Calls \ {c} : slot'[d] = slot[d] /\ seen'[d] = seen[d] /\ pc'[d] = pc[d] /\ on'[d] = on[d]
  BY DEF Moves, modeVars
<1>3. CASE Waits(c, s) \/ Reuses(c, s) \/ GivesUp(c, s) \/ DropsOut(c)
  <2>1. /\ task[c] = "none" /\ pc'[c] # "joined"
        /\ task' = task /\ waiters' = waiters /\ abandoned' = abandoned
    BY <1>3, CallAlone
  <2> QED BY <1>1, <1>2, <2>1 DEF Wanted, CancelledOnlyWhenUnwanted, Running
<1>4. CASE Starts(c, s)
  <2>1. /\ task[c] = "none" /\ task'[c] = "created" /\ on'[c] = {c} /\ seen'[c] = aborts[s]
        /\ abandoned' = abandoned
        /\ \A d \in Calls \ {c} : task'[d] = task[d] /\ waiters'[d] = waiters[d]
    BY <1>1, <1>4 DEF Starts
  <2>2. c \notin abandoned /\ aborts[s] \in Nat
    BY <1>1, <2>1 DEF Wanted
  <2>3. \A d \in Calls : \A f \in on'[d] : pc'[d] = "joined" => task'[f] # "none"
    BY <1>1, <1>2, <2>1 DEF Wanted
  <2>4. \A f \in abandoned' : task'[f] # "none"
    BY <1>1, <2>1 DEF Wanted
  <2>5. \A f \in Calls : task'[f] # "none" => seen'[f] <= aborts'[slot'[f]]
    BY <1>2, <2>1, <2>2 DEF Wanted
  <2>6. CancelledOnlyWhenUnwanted'
    BY <1>2, <2>1, <2>2 DEF Wanted, CancelledOnlyWhenUnwanted
  <2> QED BY <2>3, <2>4, <2>5, <2>6 DEF Wanted
<1>5. CASE Joins(c, s)
  <2>1. /\ on'[c] = {flights[s]} /\ flights[s] \in Calls \ abandoned /\ task[flights[s]] # "none"
        /\ task[c] = "none"
        /\ UNCHANGED <<task, abandoned>>
        /\ waiters' = [waiters EXCEPT ![flights[s]] = @ + 1]
    BY <1>1, <1>5 DEF Joins, Current, Undecided, Shape, FlightsInPlace, CallsInPlace
  <2>2. \A f \in abandoned : waiters'[f] = waiters[f]
    BY <1>1, <2>1
  <2>3. \A d \in Calls : \A f \in on'[d] : pc'[d] = "joined" => task'[f] # "none"
    BY <1>1, <1>2, <2>1 DEF Wanted
  <2>4. CancelledOnlyWhenUnwanted'
    BY <1>2, <2>1, <2>2 DEF Wanted, CancelledOnlyWhenUnwanted, Running
  <2> QED BY <1>1, <1>2, <2>1, <2>3, <2>4 DEF Wanted
<1>6. ASSUME NEW f \in Calls, Leaves(c, f) PROVE Wanted'
  <2>1. /\ on[c] = {f} /\ pc[c] = "joined" /\ pc'[c] # "joined" /\ task' = task
        /\ seen'[c] = seen[c] /\ slot[c] = s
        /\ waiters' = [waiters EXCEPT ![f] = @ - 1]
        /\ abandoned' = abandoned \/ (abandoned' = abandoned \cup {f} /\ waiters[f] = 1)
    BY <1>6 DEF Leaves, Leave, LastAbandons, Over, Moves
  <2>2. /\ \A g \in Calls \ {f} : waiters'[g] = waiters[g] /\ (g \in abandoned' => g \in abandoned)
        /\ waiters'[f] = waiters[f] - 1 /\ waiters[f] \in Int
    BY <1>1, <2>1
  <2>3. waiters'[f] > 0 => waiters[f] > 0 /\ (f \in abandoned' => f \in abandoned)
    BY <2>1, <2>2
  <2>4. \A g \in Calls : slot'[g] = slot[g] /\ seen'[g] = seen[g]
    BY <1>2, <2>1
  <2>5. CancelledOnlyWhenUnwanted'
    BY <1>2, <2>1, <2>2, <2>3, <2>4 DEF Wanted, CancelledOnlyWhenUnwanted
  <2>6. task[f] # "none"
    BY <2>1 DEF Wanted
  <2>7. \A g \in abandoned' : task'[g] # "none"
    BY <2>1, <2>6 DEF Wanted
  <2>8. \A d \in Calls : \A g \in on'[d] : pc'[d] = "joined" => task'[g] # "none"
    BY <1>2, <2>1 DEF Wanted
  <2>9. \A g \in Calls : task'[g] # "none" => seen'[g] <= aborts'[slot'[g]]
    BY <1>2, <2>1, <2>4 DEF Wanted
  <2> QED BY <2>5, <2>7, <2>8, <2>9 DEF Wanted
<1> QED BY <1>3, <1>4, <1>5, <1>6 DEF Does

LEMMA FlightWanted ==
  ASSUME Shape, Wanted, NEW f \in Calls, FlightDoes(f)
  PROVE  Wanted'
<1>1. /\ aborts' = aborts /\ slot' = slot /\ seen' = seen /\ pc' = pc /\ on' = on
      /\ abandoned' = abandoned /\ waiters' = waiters
  BY DEF FlightDoes, modeVars, callVars, askVars
<1>2. \A g \in Calls : /\ (task'[g] = "none") <=> (task[g] = "none")
                       /\ task'[g] \in Running => task[g] \in Running
  BY DEF FlightDoes, Ends, Prepares, Opens, Lands, Shape, Types, FlightTypes, Running, Finished
<1>3. abandoned \subseteq Calls /\ on \in [Calls -> SUBSET Calls]
  BY DEF Shape, Types, FlightTypes, WaitTypes
<1> QED BY <1>1, <1>2, <1>3 DEF Wanted, CancelledOnlyWhenUnwanted

LEMMA TornWanted ==
  ASSUME Shape, Wanted, NEW A \in SUBSET Slots, NEW D \in SUBSET Slots, TearsDown(A, D)
  PROVE  Wanted'
<1>1. /\ slot' = slot /\ seen' = seen /\ pc' = pc /\ on' = on /\ task' = task /\ waiters' = waiters
      /\ \A s \in Slots : aborts'[s] = IF s \in A THEN aborts[s] + 1 ELSE aborts[s]
      /\ abandoned' = abandoned \cup ({Current(s) : s \in A} \ {NoOne})
  BY DEF TearsDown, TearDown, callVars, askVars
<1>2. \A s \in Slots : aborts[s] \in Nat
  BY DEF Shape, Types, ModeTypes
<1>3. \A f \in Calls : task[f] # "none" => slot[f] \in Slots /\ seen[f] \in Nat
  BY DEF Shape, FlightsInPlace, CallsInPlace, Types, WaitTypes
<1>4. \A s \in Slots : Current(s) # NoOne => task[Current(s)] # "none" /\ slot[Current(s)] = s
  BY DEF Current, Shape, FlightsInPlace
<1>5. \A f \in abandoned' : f \in abandoned \/ (task[f] # "none" /\ slot[f] \in A)
  BY <1>1, <1>4
<1>6. \A f \in Calls : task[f] # "none" => seen[f] <= aborts[slot[f]]
  BY DEF Wanted
<1>7. ASSUME NEW f \in Calls, task[f] # "none"
      PROVE  /\ seen'[f] <= aborts'[slot'[f]]
             /\ slot[f] \in A => seen'[f] # aborts'[slot'[f]]
             /\ aborts[slot[f]] # seen[f] => aborts'[slot'[f]] # seen'[f]
  <2>1. seen[f] <= aborts[slot[f]] /\ seen[f] \in Nat /\ slot[f] \in Slots /\ aborts[slot[f]] \in Nat
    BY <1>2, <1>3, <1>6, <1>7
  <2> QED BY <1>1, <2>1
<1>8. CancelledOnlyWhenUnwanted'
  BY <1>1, <1>5, <1>7 DEF CancelledOnlyWhenUnwanted, Wanted, Running
<1>9. \A f \in abandoned' : task'[f] # "none"
  BY <1>1, <1>5 DEF Wanted
<1> QED BY <1>1, <1>7, <1>8, <1>9 DEF Wanted

LEMMA WantedNext == Shape /\ Wanted /\ [Next]_vars => Wanted'
<1> SUFFICES ASSUME Shape, Wanted, [Next]_vars PROVE Wanted'
  OBVIOUS
<1>1. CASE Rests
  BY <1>1 DEF Rests, callVars, askVars, bodyVars, Wanted, CancelledOnlyWhenUnwanted
<1> QED BY <1>1, StepDoes, CallWanted, FlightWanted, TornWanted

-----------------------------------------------------------------------------
(* A heal is never answered with what it reported                          *)

LEMMA CallRenewed ==
  ASSUME Shape, Renewed, NEW c \in Calls, NEW s \in Slots, Moves(c, s), Does(c, s)
  PROVE  Renewed'
<1>1. /\ task \in [Calls -> Phases] /\ session \in [Slots -> Calls \cup {NoOne}]
      /\ flights \in [Slots -> Calls \cup {NoOne}] /\ on \in [Calls -> SUBSET Calls]
  BY DEF Shape, Types, FlightTypes, SlotTypes, WaitTypes
<1>2. /\ slot'[c] = s /\ pc'[c] # "idle"
      /\ pc[c] # "idle" => slot[c] = s /\ kind'[c] = kind[c] /\ stale'[c] = stale[c]
      /\ pc[c] = "idle" /\ kind'[c] = "renew" => stale'[c] \in Held(s)
      /\ \A d \in Calls \ {c} : /\ kind'[d] = kind[d] /\ slot'[d] = slot[d] /\ stale'[d] = stale[d]
                               /\ pc'[d] = pc[d] /\ on'[d] = on[d] /\ answer'[d] = answer[d]
  BY DEF Moves
<1>3. /\ \A f \in Calls : Done(f) => Done(f)'
      /\ \A r \in Slots : session'[r] \in {session[r], NoOne}
  BY <1>1, Dropped DEF Does, Waits, Reuses, GivesUp, Starts, Joins, Leaves, DropsOut, Done, Finished
<1>4. \A f \in Calls : task[f] # "none" => slot'[f] = slot[f]
  BY <1>2 DEF Shape, FlightsInPlace
<1>5. \A r \in Slots : session'[r] # NoOne => slot'[session'[r]] = r
  BY <1>1, <1>3, <1>4 DEF Renewed, Shape, FlightsInPlace
<1>6. kind'[c] = "renew" => stale'[c] \in Calls /\ Done(stale'[c])
  BY <1>2 DEF Renewed, Held
<1>7. Live(s) # NoOne /\ Current(s) = NoOne => Live(s) \in Calls /\ Done(Live(s))
  <2>1. Live(s) # NoOne => Live(s) = session[s] /\ session[s] \in Calls /\ slot[session[s]] = s
                           /\ task[session[s]] # "none"
    BY <1>1 DEF Live, Renewed, Shape, FlightsInPlace
  <2>2. ASSUME NEW f \in Calls, slot[f] = s, task[f] \in Running PROVE Current(s) # NoOne
    BY <2>2 DEF Shape, OneConnectPerSlot, Current, Done, Running, Finished
  <2> QED BY <1>1, <2>1, <2>2 DEF Phases, Done
<1>8. ASSUME pc'[c] = "returned"
      PROVE  /\ answer'[c] \in Calls /\ Done(answer'[c])
             /\ kind'[c] = "renew" => answer'[c] # stale'[c]
  <2>1. CASE Reuses(c, s)
    BY <1>7, <2>1 DEF Reuses, Reusable
  <2>2. ASSUME NEW f \in Calls, Leaves(c, f) PROVE <1>8!2
    <3>1. answer'[c] = f /\ Done(f) /\ on[c] = {f} /\ pc[c] = "joined"
      BY <1>8, <2>2 DEF Leaves, Done, Finished, Over
    <3> QED BY <1>2, <3>1 DEF Renewed
  <2> QED BY <1>8, <2>1, <2>2 DEF Does, Waits, GivesUp, Starts, Joins, DropsOut, Undecided
<1>9. ASSUME kind'[c] = "renew", pc'[c] = "joined" PROVE stale'[c] \notin on'[c]
  <2>1. CASE Starts(c, s)
    BY <1>6, <1>9, <2>1 DEF Starts, Done, Finished
  <2>2. CASE Joins(c, s)
    BY <1>6, <1>9, <2>2 DEF Joins, Current
  <2> QED BY <1>9, <2>1, <2>2 DEF Does, Waits, Reuses, GivesUp, Leaves, DropsOut, Undecided, Over
<1>10. \A d \in Calls : pc'[d] = "returned" => answer'[d] \in Calls /\ task'[answer'[d]] \in Finished
  BY <1>2, <1>3, <1>8 DEF Renewed, Done
<1>11. \A d \in Calls : kind'[d] = "renew" =>
         /\ stale'[d] \in Calls /\ task'[stale'[d]] \in Finished
         /\ pc'[d] = "joined" => stale'[d] \notin on'[d]
  BY <1>2, <1>3, <1>6, <1>9 DEF Renewed, Done
<1>12. RenewedIsNotStale'
  BY <1>2, <1>8 DEF Renewed, RenewedIsNotStale
<1> QED BY <1>5, <1>10, <1>11, <1>12 DEF Renewed, Done

LEMMA RenewedNext == Shape /\ Renewed /\ [Next]_vars => Renewed'
<1> SUFFICES ASSUME Shape, Renewed, [Next]_vars PROVE Renewed'
  OBVIOUS
<1>1. /\ task \in [Calls -> Phases] /\ session \in [Slots -> Calls \cup {NoOne}]
      /\ stale \in [Calls -> Calls \cup {NoOne}]
  BY DEF Shape, Types, FlightTypes, SlotTypes, AskTypes
<1>2. ASSUME UNCHANGED callVars, \A f \in Calls : Done(f) => Done(f)',
             \A s \in Slots : session'[s] # NoOne => session'[s] = session[s] \/
                                (session'[s] \in Calls /\ slot[session'[s]] = s)
      PROVE  Renewed'
  BY <1>2 DEF Renewed, RenewedIsNotStale, callVars, askVars, Done
<1>3. ASSUME NEW f \in Calls, FlightDoes(f), slot[f] \in Slots PROVE Renewed'
  BY <1>1, <1>2, <1>3
     DEF FlightDoes, Ends, Prepares, Opens, Lands, slotVars, Done, Finished, Running
<1>4. CASE Rests
  BY <1>1, <1>2, <1>4, Dropped DEF Rests, Done
<1>5. ASSUME NEW A \in SUBSET Slots, NEW D \in SUBSET Slots, TearsDown(A, D) PROVE Renewed'
  <2>1. /\ UNCHANGED callVars /\ UNCHANGED task
        /\ \A s \in Slots : session'[s] \in {session[s], NoOne}
    BY <1>5 DEF TearsDown, TearDown, DropSessions
  <2> QED BY <1>2, <2>1 DEF Done
<1> QED BY <1>3, <1>4, <1>5, StepDoes, CallRenewed

-----------------------------------------------------------------------------
(* A connect closes only what it was asked to replace                      *)

LEMMA CallCleared ==
  ASSUME Shape, TornDown, Cleared, NEW c \in Calls, NEW s \in Slots, Moves(c, s), Does(c, s)
  PROVE  Cleared'
<1>1. /\ task \in [Calls -> Phases] /\ session \in [Slots -> Calls \cup {NoOne}]
      /\ alive \subseteq Calls
  BY DEF Shape, Types, FlightTypes, SlotTypes
<1>2. /\ slot'[c] = s /\ alive' = alive
      /\ pc[c] # "idle" => slot[c] = s /\ kind'[c] = kind[c] /\ stale'[c] = stale[c]
      /\ \A d \in Calls \ {c} : kind'[d] = kind[d] /\ slot'[d] = slot[d] /\ stale'[d] = stale[d]
  BY DEF Moves
<1>3. \A f \in Calls : task[f] # "none" =>
         slot'[f] = slot[f] /\ kind'[f] = kind[f] /\ stale'[f] = stale[f] /\ slot[f] \in Slots
  BY <1>2 DEF Shape, FlightsInPlace, CallsInPlace
<1>4. \A r \in Slots : session'[r] \in {session[r], NoOne}
  BY Dropped DEF Does, Waits, Reuses, GivesUp, Starts, Joins, Leaves, DropsOut
<1>5. CASE Starts(c, s)
  <2>1. /\ task'[c] = "created" /\ session' = session
        /\ \A d \in Calls \ {c} : task'[d] = task[d]
        /\ kind'[c] = "replace" \/ ~Reusable(kind'[c], s, stale'[c])
    BY <1>1, <1>5 DEF Starts
  <2>2. session[s] \in alive => Live(s) = session[s] /\ Live(s) # NoOne
    BY <1>1 DEF Live, TornDown, StoppedHasNoSession
  <2>3. session[s] \in alive => kind'[c] = "replace" \/ (kind'[c] = "renew" /\ stale'[c] = session[s])
    BY <2>1, <2>2 DEF Reusable
  <2> QED BY <1>2, <1>3, <2>1, <2>3 DEF Cleared
<1>6. CASE task' = task
  BY <1>1, <1>2, <1>3, <1>4, <1>6 DEF Cleared
<1> QED BY <1>5, <1>6 DEF Does, Waits, Reuses, GivesUp, Joins, Leaves, DropsOut

LEMMA FlightCleared ==
  ASSUME Shape, Renewed, Cleared, NEW f \in Calls, FlightDoes(f), slot[f] \in Slots
  PROVE  Cleared'
<1>1. /\ task \in [Calls -> Phases] /\ session \in [Slots -> Calls \cup {NoOne}]
      /\ alive \subseteq Calls
  BY DEF Shape, Types, FlightTypes, SlotTypes
<1>2. kind' = kind /\ slot' = slot /\ stale' = stale
  BY DEF FlightDoes, callVars, askVars
<1>3. /\ task[f] \in Running
      /\ \A g \in Calls \ {f} : task'[g] = task[g]
      /\ \A r \in Slots \ {slot[f]} : session'[r] = session[r]
      /\ alive' \subseteq alive \cup {f}
  BY <1>1 DEF FlightDoes, Ends, Prepares, Opens, Lands, slotVars, Running
<1>4. ASSUME NEW g \in Calls \ {f}, task[g] \in Running
      PROVE  slot[g] \in Slots \ {slot[f]} /\ session'[slot[g]] = session[slot[g]]
             /\ (session'[slot[g]] \in alive' => session[slot[g]] \in alive)
  <2>1. slot[g] \in Slots \ {slot[f]}
    BY <1>3, <1>4 DEF Running, Shape, OneConnectPerSlot, FlightsInPlace, CallsInPlace
  <2>2. session[slot[g]] # f
    BY <1>1, <2>1 DEF Renewed
  <2> QED BY <1>3, <2>1, <2>2
<1>5. \A g \in Calls \ {f} :
        /\ task'[g] = "opening" => session'[slot'[g]] = NoOne
        /\ task'[g] \in {"created", "preparing"} /\ session'[slot'[g]] \in alive'
           => kind'[g] = "replace" \/ (kind'[g] = "renew" /\ stale'[g] = session'[slot'[g]])
  BY <1>2, <1>3, <1>4 DEF Cleared, Running
<1>6. /\ task'[f] = "opening" => session'[slot'[f]] = NoOne
      /\ task'[f] \in {"created", "preparing"} /\ session'[slot'[f]] \in alive'
         => kind'[f] = "replace" \/ (kind'[f] = "renew" /\ stale'[f] = session'[slot'[f]])
  <2>1. CASE Opens(f)
    BY <1>1, <1>2, <2>1 DEF Opens
  <2>2. CASE Prepares(f)
    BY <1>1, <1>2, <2>2 DEF Prepares, Cleared, slotVars
  <2>3. CASE Ends(f) \/ Lands(f)
    BY <1>1, <2>3 DEF Ends, Lands, Finished
  <2> QED BY <2>1, <2>2, <2>3 DEF FlightDoes
<1> QED BY <1>5, <1>6 DEF Cleared

LEMMA ClearedNext == Shape /\ TornDown /\ Renewed /\ Cleared /\ [Next]_vars => Cleared'
<1> SUFFICES ASSUME Shape, TornDown, Renewed, Cleared, [Next]_vars PROVE Cleared'
  OBVIOUS
<1>1. /\ task \in [Calls -> Phases] /\ alive \subseteq Calls
      /\ \A f \in Calls : task[f] # "none" => slot[f] \in Slots
  BY DEF Shape, Types, FlightTypes, SlotTypes, FlightsInPlace, CallsInPlace
<1>2. ASSUME UNCHANGED callVars, UNCHANGED task, alive' \subseteq alive,
             \A s \in Slots : session'[s] \in {session[s], NoOne}
      PROVE  Cleared'
  BY <1>1, <1>2 DEF Cleared, callVars, askVars
<1>3. CASE Rests
  BY <1>2, <1>3, Dropped DEF Rests
<1>4. ASSUME NEW A \in SUBSET Slots, NEW D \in SUBSET Slots, TearsDown(A, D) PROVE Cleared'
  <2>1. /\ UNCHANGED callVars /\ UNCHANGED task /\ alive' \subseteq alive
        /\ \A s \in Slots : session'[s] \in {session[s], NoOne}
    BY <1>4 DEF TearsDown, TearDown, DropSessions
  <2> QED BY <1>2, <2>1
<1> QED BY <1>3, <1>4, StepDoes, CallCleared, FlightCleared

\* What the step of a connect does to the session of its slot.
LEMMA ClosesReplaced ==
  ASSUME Shape, Cleared, [Next]_vars, NEW f \in Calls, task'[f] # task[f],
         session[slot[f]] \in alive, session'[slot[f]] # session[slot[f]], slot[f] \in Slots
  PROVE  kind[f] = "replace" \/ (kind[f] = "renew" /\ stale[f] = session[slot[f]])
<1>1. task \in [Calls -> Phases] /\ alive \subseteq Calls
  BY DEF Shape, Types, FlightTypes, SlotTypes
<1>2. ASSUME NEW c \in Calls, NEW s \in Slots, Does(c, s) PROVE FALSE
  BY <1>2 DEF Does, Waits, Reuses, GivesUp, Starts, Joins, Leaves, DropsOut
<1>3. ASSUME NEW g \in Calls, FlightDoes(g), slot[g] \in Slots
      PROVE  kind[f] = "replace" \/ (kind[f] = "renew" /\ stale[f] = session[slot[f]])
  <2>1. g = f
    BY <1>1, <1>3 DEF FlightDoes, Ends, Prepares, Opens, Lands
  <2> QED BY <1>1, <1>3, <2>1 DEF FlightDoes, Ends, Prepares, Opens, Lands, slotVars, Cleared
<1>4. ~Rests /\ \A A, D \in SUBSET Slots : ~TearsDown(A, D)
  BY DEF Rests, TearsDown, TearDown
<1> QED BY <1>2, <1>3, <1>4, StepDoes

-----------------------------------------------------------------------------
(* The queue of replacements                                               *)

Distinct(q) == \A i, j \in 1..Len(q) : i < j => q[i] # q[j]

LEMMA RemoveAtIs ==
  ASSUME NEW S, NEW q \in Seq(S), NEW k \in 1..Len(q)
  PROVE  /\ Len(RemoveAt(q, k)) = Len(q) - 1
         /\ \A i \in 1..(Len(q) - 1) : RemoveAt(q, k)[i] = q[IF i < k THEN i ELSE i + 1]
<1> DEFINE a == SubSeq(q, 1, k - 1)
<1> DEFINE b == SubSeq(q, k + 1, Len(q))
<1>1. Len(q) \in Nat /\ k \in Nat
  BY LenProperties
<1>2. a \in Seq(S) /\ Len(a) = k - 1 /\ \A i \in 1..(k - 1) : a[i] = q[i]
  BY <1>1, SubSeqProperties
<1>3. b \in Seq(S) /\ Len(b) = Len(q) - k /\ \A i \in 1..(Len(q) - k) : b[i] = q[i + k]
  <2>1. k + 1 \in 1..(Len(q) + 1) /\ Len(q) \in k..Len(q)
    BY <1>1
  <2>2. b \in Seq(S) /\ Len(b) = Len(q) - (k + 1) + 1 /\ \A i \in 1..(Len(q) - (k + 1) + 1) : b[i] = q[(k + 1) + i - 1]
    BY <1>1, <2>1, SubSeqProperties
  <2>3. Len(q) - (k + 1) + 1 = Len(q) - k
    BY <1>1
  <2>4. \A i \in 1..(Len(q) - k) : (k + 1) + i - 1 = i + k
    BY <1>1
  <2> QED BY <2>2, <2>3, <2>4
<1> HIDE DEF a, b
<1>4. /\ Len(a \o b) = Len(a) + Len(b)
      /\ \A i \in 1..(Len(a) + Len(b)) : (a \o b)[i] = IF i <= Len(a) THEN a[i] ELSE b[i - Len(a)]
  BY <1>2, <1>3, ConcatProperties, ZenonT(60)
<1>5. RemoveAt(q, k) = a \o b
  BY DEF RemoveAt, a, b
<1>6. ASSUME NEW i \in 1..(Len(q) - 1)
      PROVE  RemoveAt(q, k)[i] = q[IF i < k THEN i ELSE i + 1]
  <2>1. i \in 1..(Len(a) + Len(b)) /\ Len(a) = k - 1
    BY <1>1, <1>2, <1>3
  <2>2. CASE i < k
    <3>1. i <= Len(a) /\ i \in 1..(k - 1)
      BY <1>1, <2>1, <2>2
    <3> QED BY <1>2, <1>4, <1>5, <2>1, <2>2, <3>1
  <2>3. CASE ~(i < k)
    <3>1. ~(i <= Len(a)) /\ i - Len(a) \in 1..(Len(q) - k) /\ (i - Len(a)) + k = i + 1
      BY <1>1, <2>1, <2>3
    <3>2. (a \o b)[i] = b[i - Len(a)]
      BY <1>4, <2>1, <3>1
    <3>3. b[i - Len(a)] = q[(i - Len(a)) + k]
      BY <1>3, <3>1
    <3> QED BY <1>5, <2>3, <3>1, <3>2, <3>3
  <2> QED BY <2>2, <2>3
<1>7. Len(RemoveAt(q, k)) = Len(q) - 1
  <2>1. Len(RemoveAt(q, k)) = Len(a) + Len(b)
    BY <1>4, <1>5
  <2> QED BY <1>1, <1>2, <1>3, <2>1
<1> QED BY <1>6, <1>7

\* The queue p has the others of q, not c, and in their order.
Keeps(p, q, c) ==
  /\ p \in Seq(Calls)
  /\ \A i \in 1..Len(p) : \E a \in 1..Len(q) : q[a] = p[i] /\ q[a] # c
  /\ \A i, j \in 1..Len(p) : i < j =>
       \E a, b \in 1..Len(q) : a < b /\ q[a] = p[i] /\ q[b] = p[j]
  /\ \A a \in 1..Len(q) : q[a] # c => \E i \in 1..Len(p) : q[a] = p[i]

LEMMA WithoutKeeps ==
  ASSUME NEW q \in Seq(Calls), NEW c \in Calls, Distinct(q)
  PROVE  Keeps(Without(q, c), q, c)
<1> SUFFICES /\ \A i \in 1..Len(Without(q, c)) :
                  \E a \in 1..Len(q) : q[a] = Without(q, c)[i] /\ q[a] # c
             /\ \A i, j \in 1..Len(Without(q, c)) : i < j =>
                  \E a, b \in 1..Len(q) : a < b /\ q[a] = Without(q, c)[i] /\ q[b] = Without(q, c)[j]
             /\ \A a \in 1..Len(q) : q[a] # c =>
                  \E i \in 1..Len(Without(q, c)) : q[a] = Without(q, c)[i]
  BY WithoutIsSeq DEF Keeps
<1>1. Len(q) \in Nat
  BY LenProperties
<1>2. CASE ~\E i \in 1..Len(q) : q[i] = c
  BY <1>2 DEF Without
<1>3. CASE \E i \in 1..Len(q) : q[i] = c
  <2> DEFINE k == CHOOSE i \in 1..Len(q) : q[i] = c
  <2> DEFINE r == RemoveAt(q, k)
  <2> DEFINE h(i) == IF i < k THEN i ELSE i + 1
  <2>1. k \in 1..Len(q) /\ q[k] = c
    BY <1>3
  <2>2. Without(q, c) = r
    BY <1>3 DEF Without
  <2> HIDE DEF k
  <2>3. Len(r) = Len(q) - 1 /\ \A i \in 1..(Len(q) - 1) : r[i] = q[h(i)]
    BY <2>1, RemoveAtIs
  <2>4. ASSUME NEW i \in 1..(Len(q) - 1)
        PROVE  h(i) \in 1..Len(q) /\ h(i) # k
    BY <1>1, <2>1
  <2>5. ASSUME NEW i \in 1..(Len(q) - 1) PROVE q[h(i)] # c
    <3>1. h(i) < k \/ k < h(i)
      BY <1>1, <2>1, <2>4
    <3> QED BY <2>1, <2>4, <3>1 DEF Distinct
  <2>6. ASSUME NEW i \in 1..(Len(q) - 1), NEW j \in 1..(Len(q) - 1), i < j
        PROVE  h(i) < h(j)
    BY <1>1, <2>1, <2>6
  <2>7. ASSUME NEW a \in 1..Len(q), q[a] # c
        PROVE  \E i \in 1..(Len(q) - 1) : h(i) = a
    <3>1. a # k
      BY <2>1, <2>7
    <3>2. CASE a < k
      BY <1>1, <2>1, <3>2
    <3>3. CASE k < a
      <4>1. a - 1 \in 1..(Len(q) - 1) /\ ~(a - 1 < k) /\ (a - 1) + 1 = a
        BY <1>1, <2>1, <3>3
      <4> QED BY <4>1
    <3> QED BY <1>1, <2>1, <3>1, <3>2, <3>3
  <2> HIDE DEF r, h
  <2>8. \A i \in 1..Len(r) : \E a \in 1..Len(q) : q[a] = r[i] /\ q[a] # c
    BY <2>3, <2>4, <2>5
  <2>9. \A i, j \in 1..Len(r) : i < j => \E a, b \in 1..Len(q) : a < b /\ q[a] = r[i] /\ q[b] = r[j]
    <3>1. ASSUME NEW i \in 1..(Len(q) - 1), NEW j \in 1..(Len(q) - 1), i < j
          PROVE  \E a, b \in 1..Len(q) : a < b /\ q[a] = r[i] /\ q[b] = r[j]
      <4>1. h(i) \in 1..Len(q) /\ h(j) \in 1..Len(q) /\ q[h(i)] = r[i] /\ q[h(j)] = r[j]
        BY <2>3, <2>4
      <4>2. h(i) < h(j)
        BY <2>6, <3>1
      <4> QED BY <4>1, <4>2
    <3>2. 1..Len(r) = 1..(Len(q) - 1)
      BY <2>3
    <3> QED BY <3>1, <3>2, SMTT(40)
  <2>10. \A a \in 1..Len(q) : q[a] # c => \E i \in 1..Len(r) : q[a] = r[i]
    BY <2>3, <2>7
  <2> QED BY <2>2, <2>8, <2>9, <2>10
<1> QED BY <1>2, <1>3

LEMMA CallQueued ==
  ASSUME Shape, Queued, NEW c \in Calls, NEW s \in Slots, Moves(c, s), QueueMoves(c, s)
  PROVE  Queued'
<1> DEFINE InQueue == {"queued", "windDown", "joined"}
<1>1. /\ replacements \in [Slots -> Seq(Calls)]
      /\ \A r \in Slots : DOMAIN replacements[r] = 1..Len(replacements[r]) /\ Len(replacements[r]) \in Nat
      /\ \A r \in Slots : \A i \in 1..Len(replacements[r]) : replacements[r][i] \in Calls
  BY LenProperties DEF Shape, Types, SlotTypes
<1>2. /\ slot'[c] = s /\ pc'[c] # "idle"
      /\ pc[c] # "idle" => slot[c] = s /\ kind'[c] = kind[c]
      /\ \A d \in Calls \ {c} : kind'[d] = kind[d] /\ slot'[d] = slot[d] /\ pc'[d] = pc[d] /\ on'[d] = on[d]
  BY DEF Moves
<1>3. \A r \in Slots \ {s} : replacements'[r] = replacements[r]
  BY DEF QueueMoves
<1> DEFINE q == replacements[s]
<1> DEFINE p == replacements'[s]
<1>4. /\ q \in Seq(Calls) /\ Len(q) \in Nat /\ DOMAIN q = 1..Len(q) /\ \A i \in 1..Len(q) : q[i] \in Calls
  BY <1>1
<1>5. Distinct(q)
  BY DEF Queued, Distinct
<1>6. \A r \in Slots : \A i \in 1..Len(replacements[r]) : replacements[r][i] = c => pc[c] \in InQueue /\ kind[c] = "replace" /\ r = s
  BY <1>2 DEF Queued
<1>7. SUFFICES /\ DOMAIN p = 1..Len(p)
               /\ \A i \in 1..Len(p) : kind'[p[i]] = "replace" /\ slot'[p[i]] = s /\ pc'[p[i]] \in InQueue
               /\ \A i, j \in 1..Len(p) : i < j => pc'[p[j]] = "queued" /\ p[i] \in on'[p[j]] /\ p[i] # p[j]
               /\ \A d \in Calls : kind'[d] = "replace" /\ pc'[d] \in InQueue /\ slot'[d] = s
                    => \E i \in 1..Len(p) : p[i] = d
  <2>1. ASSUME NEW r \in Slots \ {s}
        PROVE  /\ replacements'[r] = replacements[r]
               /\ \A i \in 1..Len(replacements[r]) : replacements[r][i] \in Calls \ {c}
    BY <1>1, <1>3, <1>6
  <2>2. \A r \in Slots : \A i \in 1..Len(replacements'[r]) :
          LET d == replacements'[r][i]
          IN kind'[d] = "replace" /\ slot'[d] = r /\ pc'[d] \in InQueue
    BY <1>2, <1>7, <2>1 DEF Queued
  <2>3. \A r \in Slots : \A i, j \in 1..Len(replacements'[r]) : i < j =>
          LET d == replacements'[r][j]
          IN pc'[d] = "queued" /\ replacements'[r][i] \in on'[d] /\ replacements'[r][i] # d
    BY <1>2, <1>7, <2>1 DEF Queued
  <2>4. ASSUME NEW d \in Calls, kind'[d] = "replace", pc'[d] \in InQueue
        PROVE  d \in ToSet(replacements'[slot'[d]])
    <3>1. CASE slot'[d] = s
      BY <1>7, <2>4, <3>1 DEF ToSet
    <3>2. CASE slot'[d] # s
      <4>1. d # c /\ slot'[d] = slot[d] /\ slot[d] \in Slots
        BY <1>2, <2>4, <3>2 DEF Shape, CallsInPlace
      <4> QED BY <1>2, <2>1, <2>4, <3>2, <4>1 DEF Queued
    <3> QED BY <3>1, <3>2
  <2> QED BY <2>2, <2>3, <2>4 DEF Queued
<1>8. ASSUME NEW i \in 1..Len(q)
      PROVE  /\ kind[q[i]] = "replace" /\ slot[q[i]] = s /\ pc[q[i]] \in InQueue
             /\ \A j \in 1..Len(q) : i < j => pc[q[j]] = "queued" /\ q[i] \in on[q[j]] /\ q[i] # q[j]
  BY DEF Queued
<1>9. ASSUME NEW d \in Calls \ {c}, kind'[d] = "replace", pc'[d] \in InQueue, slot'[d] = s
      PROVE  \E i \in 1..Len(q) : q[i] = d
  BY <1>2, <1>4, <1>9 DEF Queued, ToSet
<1>10. CASE kind'[c] # "replace" /\ p = q
  <2>1. \A i \in 1..Len(q) : q[i] \in Calls \ {c}
    BY <1>2, <1>4, <1>6, <1>10
  <2> HIDE DEF q, p
  <2> QED BY <1>2, <1>4, <1>8, <1>9, <1>10, <2>1
<1>11. CASE kind'[c] = "replace" /\ p = q /\ Woken(c) /\ pc[c] \in {"queued", "windDown"}
            /\ pc'[c] \in {"windDown", "joined"}
  <2>1. slot[c] = s /\ kind[c] = "replace"
    BY <1>2, <1>11
  <2>2. ASSUME NEW i \in 1..Len(q), NEW j \in 1..Len(q), i < j PROVE q[j] # c
    <3>1. SUFFICES ASSUME q[j] = c PROVE FALSE
      OBVIOUS
    <3>2. pc[c] = "queued" /\ q[i] \in on[c]
      BY <1>8, <2>2, <3>1
    <3>3. on[c] \cap ToSet(q) = {} /\ q[i] \in ToSet(q)
      BY <1>4, <1>11, <2>1, <3>2 DEF Woken, ToSet
    <3> QED BY <3>2, <3>3
  <2>3. \E i \in 1..Len(q) : q[i] = c
    BY <1>4, <1>11, <2>1 DEF Queued, ToSet
  <2> HIDE DEF q, p
  <2> QED BY <1>2, <1>4, <1>8, <1>9, <1>11, <2>1, <2>2, <2>3
<1>12. CASE kind'[c] = "replace" /\ q = <<>> /\ p = <<c>> /\ pc'[c] \in {"windDown", "joined"}
  <2>1. Len(p) = 1 /\ p[1] = c /\ DOMAIN p = 1..1
    BY <1>12
  <2>2. Len(q) = 0
    BY <1>12
  <2> HIDE DEF q, p
  <2> QED BY <1>2, <1>9, <1>12, <2>1, <2>2
<1>13. CASE q = <<>> /\ p = Without(<<c>>, c) /\ pc'[c] = "aborted"
  <2>1. <<c>> \in Seq(Calls) /\ Distinct(<<c>>) /\ Len(<<c>>) = 1 /\ <<c>>[1] = c
    BY DEF Distinct
  <2>2. Keeps(p, <<c>>, c)
    BY <1>13, <2>1, WithoutKeeps
  <2>3. p \in Seq(Calls) /\ \A i \in 1..Len(p) : FALSE
    BY <2>1, <2>2 DEF Keeps
  <2>4. DOMAIN p = 1..Len(p) /\ Len(q) = 0
    BY <1>13, <2>3
  <2> HIDE DEF q, p
  <2> QED BY <1>2, <1>9, <1>13, <2>3, <2>4
<1>14. CASE kind'[c] = "replace" /\ pc[c] = "idle" /\ pc'[c] = "queued" /\ on'[c] = ToSet(q) /\ p = Append(q, c)
  <2>1. /\ Len(p) = Len(q) + 1 /\ DOMAIN p = 1..Len(p) /\ p[Len(q) + 1] = c
        /\ \A i \in 1..Len(q) : p[i] = q[i]
    BY <1>4, <1>14, AppendProperties
  <2>2. \A i \in 1..Len(q) : q[i] \in Calls \ {c} /\ q[i] \in on'[c]
    BY <1>4, <1>6, <1>14 DEF ToSet
  <2> HIDE DEF q, p
  <2>3. \A i \in 1..Len(p) : i \in 1..Len(q) \/ i = Len(q) + 1
    BY <1>4, <2>1
  <2>4. \A i \in 1..Len(q) : i \in 1..Len(p)
    BY <1>4, <2>1
  <2>5. Len(q) + 1 \in 1..Len(p)
    BY <1>4, <2>1
  <2>6. ASSUME NEW i \in 1..Len(p), NEW j \in 1..Len(p), i < j
        PROVE  i \in 1..Len(q) /\ pc'[p[j]] = "queued" /\ p[i] \in on'[p[j]] /\ p[i] # p[j]
    <3>1. i \in 1..Len(q)
      BY <1>4, <2>1, <2>6
    <3> QED BY <1>2, <1>8, <1>14, <2>1, <2>2, <2>3, <2>6, <3>1
  <2>7. \A i \in 1..Len(p) : kind'[p[i]] = "replace" /\ slot'[p[i]] = s /\ pc'[p[i]] \in InQueue
    BY <1>2, <1>8, <1>14, <2>1, <2>2, <2>3
  <2>8. ASSUME NEW d \in Calls, kind'[d] = "replace", pc'[d] \in InQueue, slot'[d] = s
        PROVE  \E i \in 1..Len(p) : p[i] = d
    <3>1. CASE d = c
      BY <2>1, <2>5, <3>1
    <3>2. CASE d # c
      BY <1>9, <2>1, <2>4, <2>8, <3>2
    <3> QED BY <3>1, <3>2
  <2> QED BY <2>1, <2>6, <2>7, <2>8
<1>15. CASE pc'[c] \in Over /\ p = Without(q, c)
  <2>a. Keeps(p, q, c)
    BY <1>4, <1>5, <1>15, WithoutKeeps
  <2>1. /\ \A i \in 1..Len(p) : \E a \in 1..Len(q) : q[a] = p[i] /\ q[a] # c
        /\ \A i, j \in 1..Len(p) : i < j => \E a, b \in 1..Len(q) : a < b /\ q[a] = p[i] /\ q[b] = p[j]
        /\ \A a \in 1..Len(q) : q[a] # c => \E i \in 1..Len(p) : q[a] = p[i]
        /\ p \in Seq(Calls)
    <3> HIDE DEF q, p
    <3> QED BY <2>a DEF Keeps
  <2>2. DOMAIN p = 1..Len(p) /\ pc'[c] \notin InQueue
    BY <1>15, <2>1 DEF Over
  <2> HIDE DEF q, p
  <2>3. ASSUME NEW i \in 1..Len(p)
        PROVE  kind'[p[i]] = "replace" /\ slot'[p[i]] = s /\ pc'[p[i]] \in InQueue
    <3>1. PICK a \in 1..Len(q) : q[a] = p[i] /\ q[a] \in Calls \ {c}
      BY <1>4, <2>1
    <3> QED BY <1>2, <1>8, <3>1
  <2>4. ASSUME NEW i \in 1..Len(p), NEW j \in 1..Len(p), i < j
        PROVE  pc'[p[j]] = "queued" /\ p[i] \in on'[p[j]] /\ p[i] # p[j]
    <3>1. PICK a \in 1..Len(q), b \in 1..Len(q) : a < b /\ q[a] = p[i] /\ q[b] = p[j]
      BY <2>1, <2>4
    <3>2. p[j] \in Calls \ {c}
      BY <1>4, <2>1
    <3> QED BY <1>2, <1>8, <3>1, <3>2
  <2>5. \A d \in Calls : kind'[d] = "replace" /\ pc'[d] \in InQueue /\ slot'[d] = s
                    => \E i \in 1..Len(p) : p[i] = d
    BY <1>9, <2>1, <2>2
  <2> QED BY <2>2, <2>3, <2>4, <2>5
<1> QED BY <1>10, <1>11, <1>12, <1>13, <1>14, <1>15 DEF QueueMoves

LEMMA QueuedNext == Shape /\ Queued /\ [Next]_vars => Queued'
<1> SUFFICES ASSUME Shape, Queued, [Next]_vars PROVE Queued'
  OBVIOUS
<1>1. ASSUME UNCHANGED callVars, UNCHANGED replacements PROVE Queued'
  BY <1>1 DEF Queued, callVars, askVars
<1>2. ASSUME \/ \E f \in Calls : FlightDoes(f)
             \/ Rests
             \/ \E A, D \in SUBSET Slots : TearsDown(A, D)
      PROVE  UNCHANGED callVars /\ UNCHANGED replacements
  BY <1>2 DEF FlightDoes, Rests, TearsDown, TearDown
<1> QED BY <1>1, <1>2, StepDoes, CallQueued

-----------------------------------------------------------------------------
(* A fresh sign-in has its flight to itself                                *)

LEMMA CallOwn ==
  ASSUME Shape, WaitersCounted, Wanted, Queued, Own,
         NEW c \in Calls, NEW s \in Slots, Moves(c, s), Does(c, s)
  PROVE  Own'
<1>1. /\ task \in [Calls -> Phases] /\ on \in [Calls -> SUBSET Calls]
      /\ abandoned \subseteq Calls /\ flights \in [Slots -> Calls \cup {NoOne}]
      /\ replacements \in [Slots -> Seq(Calls)]
  BY DEF Shape, Types, FlightTypes, WaitTypes, SlotTypes
<1>2. /\ pc[c] # "idle" => kind'[c] = kind[c]
      /\ \A d \in Calls \ {c} : kind'[d] = kind[d] /\ pc'[d] = pc[d] /\ on'[d] = on[d]
  BY DEF Moves
<1>3. CASE Waits(c, s) \/ Reuses(c, s) \/ GivesUp(c, s) \/ DropsOut(c)
  <2>1. /\ task[c] = "none" /\ pc'[c] # "joined"
        /\ task' = task /\ waiters' = waiters /\ abandoned' = abandoned
    BY <1>3, CallAlone
  <2>2. \A d \in Calls \ {c} : pc[d] = "joined" => c \notin on[d]
    BY <2>1 DEF Wanted
  <2> QED BY <1>2, <2>1, <2>2 DEF Own, ReplacementNotShared, Running
<1>4. CASE Starts(c, s)
  <2>1. /\ task[c] = "none" /\ on'[c] = {c} /\ pc'[c] = "joined" /\ abandoned' = abandoned
        /\ \A d \in Calls \ {c} : task'[d] = task[d]
    BY <1>1, <1>4 DEF Starts
  <2>2. \A d \in Calls \ {c} : pc[d] = "joined" => c \notin on[d]
    BY <2>1 DEF Wanted
  <2> QED BY <1>2, <2>1, <2>2 DEF Own, ReplacementNotShared
<1>5. CASE Joins(c, s)
  <2> DEFINE f == flights[s]
  <2>1. /\ pc'[c] = "joined" /\ on'[c] = {f} /\ kind'[c] # "replace" /\ task[c] = "none"
        /\ f \in Calls /\ task[f] \in Running /\ f \notin abandoned /\ slot[f] = s
        /\ replacements[s] = <<>>
        /\ task' = task /\ abandoned' = abandoned
    BY <1>1, <1>5 DEF Joins, Current, Done, ReplacementAhead, Undecided, Phases, Shape, FlightsInPlace,
                      CallsInPlace
  <2>2. \A d \in Calls \ {c} : pc[d] = "joined" => c \notin on[d]
    BY <2>1 DEF Wanted
  <2> HIDE DEF f
  <2>3. ToSet(replacements[s]) = {}
    BY <2>1 DEF ToSet
  <2>4. kind[f] # "replace"
    BY <2>1, <2>3 DEF Own, Queued
  <2>5. kind'[f] # "replace"
    BY <1>2, <2>1, <2>4
  <2> QED BY <1>2, <2>1, <2>2, <2>5 DEF Own, ReplacementNotShared, Running
<1>6. ASSUME NEW f \in Calls, Leaves(c, f) PROVE Own'
  <2>1. /\ pc[c] = "joined" /\ on[c] = {f} /\ pc'[c] # "joined" /\ task' = task
        /\ abandoned \subseteq abandoned' /\ kind'[c] = kind[c]
        /\ Done(f) \/ abandoned' = IF LastAbandons(f) THEN abandoned \cup {f} ELSE abandoned
    BY <1>2, <1>6 DEF Leaves, Over, Done, Finished
  <2>2. ASSUME kind[c] = "replace", task[c] \in Running PROVE c \in abandoned'
    <3>1. f = c /\ ~Done(c)
      BY <2>1, <2>2 DEF Own, Done, Running, Finished
    <3>2. Joined(c) = {c}
      BY <2>1, <2>2, <3>1 DEF Joined, Own, ReplacementNotShared
    <3>3. waiters[c] = 1
      BY <3>2, FS_Singleton DEF WaitersCounted, Joined
    <3> QED BY <2>1, <3>1, <3>3 DEF LastAbandons
  <2>3. \A g \in Calls : kind'[g] = "replace" /\ task'[g] \in Running /\ g \notin abandoned'
                         => pc'[g] = "joined"
    BY <1>2, <2>1, <2>2 DEF Own
  <2>4. /\ \A d \in Calls : kind'[d] = "replace" /\ pc'[d] = "joined" => on'[d] = {d}
        /\ ReplacementNotShared'
    BY <1>2, <2>1 DEF Own, ReplacementNotShared
  <2> QED BY <2>3, <2>4 DEF Own
<1> QED BY <1>3, <1>4, <1>5, <1>6 DEF Does

LEMMA OwnNext == Shape /\ WaitersCounted /\ Wanted /\ Queued /\ Own /\ [Next]_vars => Own'
<1> SUFFICES ASSUME Shape, WaitersCounted, Wanted, Queued, Own, [Next]_vars PROVE Own'
  OBVIOUS
<1>1. ASSUME UNCHANGED callVars, abandoned \subseteq abandoned',
             \A f \in Calls : task'[f] \in Running => task[f] \in Running
      PROVE  Own'
  BY <1>1 DEF Own, ReplacementNotShared, callVars, askVars
<1>2. ASSUME NEW f \in Calls, FlightDoes(f) PROVE Own'
  <2>1. \A g \in Calls : task'[g] \in Running => task[g] \in Running
    BY <1>2 DEF FlightDoes, Ends, Prepares, Opens, Lands, Shape, Types, FlightTypes, Running, Finished
  <2>2. UNCHANGED callVars /\ abandoned \subseteq abandoned'
    BY <1>2 DEF FlightDoes
  <2> QED BY <1>1, <2>1, <2>2
<1>3. CASE Rests
  <2>1. UNCHANGED callVars /\ abandoned \subseteq abandoned' /\ task' = task
    BY <1>3 DEF Rests, bodyVars
  <2> QED BY <1>1, <2>1
<1>4. ASSUME NEW A \in SUBSET Slots, NEW D \in SUBSET Slots, TearsDown(A, D) PROVE Own'
  <2>1. UNCHANGED callVars /\ abandoned \subseteq abandoned' /\ task' = task
    BY <1>4 DEF TearsDown, TearDown
  <2> QED BY <1>1, <2>1
<1> QED BY <1>2, <1>3, <1>4, StepDoes, CallOwn

-----------------------------------------------------------------------------
(* What the slots promise of flights and sessions                          *)

\* All that is kept together.
Kept == Shape /\ TornDown /\ WaitersCounted /\ Wanted /\ Renewed /\ Cleared /\ Queued /\ Own

LEMMA KeptInit == Init => Kept
<1> SUFFICES ASSUME Init PROVE Kept
  OBVIOUS
<1>1. Shape /\ TornDown /\ WaitersCounted
  BY ShapeInit, TornDownInit, WaitersInit
<1>2. Wanted
  BY DEF Init, Wanted, CancelledOnlyWhenUnwanted, Running
<1>3. Renewed /\ Cleared
  BY DEF Init, Renewed, RenewedIsNotStale, Cleared
<1>4. Queued
  <2>1. \A s \in Slots : Len(replacements[s]) = 0
    BY DEF Init
  <2> QED BY <2>1 DEF Init, Queued
<1>5. Own
  BY DEF Init, Own, ReplacementNotShared, Running
<1> QED BY <1>1, <1>2, <1>3, <1>4, <1>5 DEF Kept

LEMMA KeptNext == Kept /\ [Next]_vars => Kept'
BY ShapeNext, TornDownNext, WaitersNext, WantedNext, RenewedNext, ClearedNext, QueuedNext, OwnNext
   DEF Kept

THEOREM KeptHolds == Spec => []Kept
BY KeptInit, KeptNext, PTL DEF Spec

\* One flight runs per slot, its waiters are counted, nobody's leaving takes it
\* from those who stay, and a fresh sign-in shares its own with nobody.
THEOREM FlightsAreSharedHolds == Spec => []FlightsAreShared
<1>1. Kept => FlightsAreShared
  BY DEF Kept, Shape, Wanted, Own, FlightsAreShared
<1> QED BY <1>1, KeptHolds, PTL

\* A heal is never answered with the session it reported as failed.
THEOREM HealsGetAnotherSession == Spec => []RenewedIsNotStale
<1>1. Kept => RenewedIsNotStale
  BY DEF Kept, Renewed
<1> QED BY <1>1, KeptHolds, PTL

LEMMA LandsFirst ==
  ASSUME Kept, NEW f \in Calls, kind[f] = "replace", task[f] = "opening",
         f \in ToSet(replacements[slot[f]])
  PROVE  Head(replacements[slot[f]]) = f
<1> DEFINE q == replacements[slot[f]]
<1>1. slot[f] \in Slots /\ task[f] # "none" /\ pc[f] # "queued"
  BY DEF Kept, Shape, FlightsInPlace, CallsInPlace
<1>2. PICK i \in 1..Len(q) : q[i] = f
  <2>1. q \in Seq(Calls)
    BY <1>1 DEF Kept, Shape, Types, SlotTypes
  <2> QED BY <2>1 DEF ToSet
<1>3. ~(1 < i)
  <2>1. Len(q) \in Nat
    BY <1>1, LenProperties DEF Kept, Shape, Types, SlotTypes
  <2>2. 1 < i => 1 \in 1..Len(q)
    BY <2>1
  <2> QED BY <1>1, <1>2, <2>2 DEF Kept, Queued
<1>4. i = 1
  BY <1>3
<1> QED BY <1>2, <1>4

\* The latest sign-in wins, and a connect closes a session that works only for
\* the sign-in or the heal that asked for it.
THEOREM ReplacedInOrderHolds == Spec => ReplacedInOrder
<1>1. Kept /\ [Next]_vars
      => [\A f \in Calls :
            /\ kind[f] = "replace"
            /\ task[f] = "opening"
            /\ session'[slot[f]] = f
            => LET q == replacements[slot[f]]
               IN f \in ToSet(q) => Head(q) = f]_vars
  BY LandsFirst
<1>2. Kept /\ [Next]_vars
      => [\A s \in Slots, f \in Calls :
            /\ task'[f] # task[f]
            /\ slot[f] = s
            /\ session[s] \in alive
            /\ session'[s] # session[s]
            => \/ kind[f] = "replace"
               \/ kind[f] = "renew" /\ stale[f] = session[s]]_vars
  BY ClosesReplaced DEF Kept
<1>3. Spec => ReplacementsLandInOrder
  BY <1>1, KeptHolds, PTL DEF Spec, ReplacementsLandInOrder
<1>4. Spec => ClosesOnlyWhatItReplaces
  BY <1>2, KeptHolds, PTL DEF Spec, ClosesOnlyWhatItReplaces
<1> QED BY <1>3, <1>4 DEF ReplacedInOrder

-----------------------------------------------------------------------------
(* The slots keep their promise: every step of the calls, the flights and  *)
(* the teardowns is a step of SessionSlots, or none                        *)

\* What SessionSlots sees of a state.
Connecting == [s \in Slots |-> Current(s)]
Doomed == {s \in Slots : Current(s) # NoOne /\ aborts[s] # seen[Current(s)]}
Spent == {f \in Calls : task[f] # "none"}

\* The flight under way on a slot is one that runs, and no other is.
LEMMA CurrentIs ==
  ASSUME Shape, NEW s \in Slots
  PROVE  /\ Current(s) \in Calls \cup {NoOne}
         /\ Current(s) # NoOne =>
              /\ flights[s] = Current(s) /\ task[Current(s)] \in Running /\ slot[Current(s)] = s
         /\ \A f \in Calls : task[f] \in Running /\ slot[f] = s => Current(s) = f
<1>1. flights[s] \in Calls \cup {NoOne} /\ task \in [Calls -> Phases]
  BY DEF Shape, Types, SlotTypes, FlightTypes
<1>2. Current(s) # NoOne => Current(s) = flights[s] /\ task[flights[s]] \in Running /\ slot[flights[s]] = s
  BY <1>1 DEF Current, Done, Phases, Shape, FlightsInPlace
<1>3. \A f \in Calls : task[f] \in Running /\ slot[f] = s => Current(s) = f
  BY DEF Current, Done, Running, Finished, Shape, OneConnectPerSlot
<1> QED BY <1>1, <1>2, <1>3 DEF Current

\* No flight starts or ends.
LEMMA SameSlots ==
  ASSUME Shape, UNCHANGED aborts,
         \A s \in Slots : Current(s)' = Current(s),
         \A f \in Calls : task[f] \in Running => seen'[f] = seen[f],
         \A f \in Calls : task[f] = "none" <=> task'[f] = "none"
  PROVE  UNCHANGED Connecting /\ UNCHANGED Doomed /\ UNCHANGED Spent
<1>1. UNCHANGED Connecting
  BY DEF Connecting
<1>2. UNCHANGED Spent
  BY DEF Spent
<1>3. \A s \in Slots : Current(s) # NoOne => seen'[Current(s)] = seen[Current(s)]
  BY CurrentIs
<1>4. UNCHANGED Doomed
  BY <1>3 DEF Doomed
<1> QED BY <1>1, <1>2, <1>4

LEMMA CallPromise ==
  ASSUME Kept, NEW c \in Calls, NEW s \in Slots, Moves(c, s), Does(c, s)
  PROVE  [Promise!SlotsNext]_(Promise!slotsVars)
<1>1. /\ Shape /\ task \in [Calls -> Phases] /\ flights \in [Slots -> Calls \cup {NoOne}]
      /\ session \in [Slots -> Calls \cup {NoOne}]
  BY DEF Kept, Shape, Types, FlightTypes, SlotTypes
<1>2. UNCHANGED aborts /\ \A d \in Calls \ {c} : seen'[d] = seen[d]
  BY DEF Moves, modeVars
<1>3. CASE Starts(c, s)
  <2>1. /\ task[c] = "none" /\ task'[c] = "created" /\ flights'[s] = c /\ seen'[c] = aborts[s]
        /\ Current(s) = NoOne /\ session' = session
        /\ \A d \in Calls \ {c} : task'[d] = task[d]
        /\ \A r \in Slots \ {s} : flights'[r] = flights[r]
    BY <1>1, <1>3 DEF Starts
  <2>2. Current(s)' = c
    BY <2>1 DEF Current, Done, Finished
  <2>3. ASSUME NEW r \in Slots \ {s}
        PROVE  /\ Current(r)' = Current(r)
               /\ Current(r) # NoOne => Current(r) \in Calls \ {c} /\ seen'[Current(r)] = seen[Current(r)]
    <3>1. flights[r] # c
      BY <1>1, <2>1 DEF Shape, FlightsInPlace
    <3>2. flights[r] \in Calls \cup {NoOne} /\ flights'[r] = flights[r]
      BY <1>1, <2>1
    <3>3. Current(r)' = Current(r)
      BY <2>1, <3>1, <3>2 DEF Current, Done
    <3>4. Current(r) # NoOne => Current(r) \in Calls \ {c}
      BY <3>1, <3>2 DEF Current
    <3> QED BY <1>2, <3>3, <3>4
  <2>4. Connecting' = [Connecting EXCEPT ![s] = c]
    BY <2>2, <2>3 DEF Connecting
  <2>5. Doomed' = Doomed
    BY <1>2, <2>1, <2>2, <2>3 DEF Doomed
  <2>6. Spent' = Spent \cup {c} /\ c \notin Spent
    BY <2>1 DEF Spent
  <2>7. Connecting[s] = NoOne
    BY <2>1 DEF Connecting
  <2>8. Promise!StartConnect(s, c)
    BY <2>1, <2>4, <2>5, <2>6, <2>7 DEF Promise!StartConnect, Connecting, Doomed, Spent
  <2> QED BY <2>8 DEF Promise!SlotsNext
<1>4. CASE ~Starts(c, s)
  <2>1. task' = task
    BY <1>4 DEF Does, Waits, Reuses, GivesUp, Joins, Leaves, DropsOut
  <2>2. \A r \in Slots : flights'[r] = flights[r] \/ (flights'[r] = NoOne /\ Current(r) = NoOne)
    BY <1>1, <1>4 DEF Does, Waits, Reuses, GivesUp, Joins, Leaves, DropsOut
  <2>3. \A r \in Slots : Current(r)' = Current(r)
    BY <2>1, <2>2 DEF Current, Done
  <2>4. ASSUME task[c] \in Running PROVE seen'[c] = seen[c]
    <3>1. pc[c] \notin Undecided
      BY <1>1, <2>4 DEF Shape, CallsInPlace, Undecided, Running
    <3>2. PICK f \in Calls : Leaves(c, f)
      BY <1>4, <3>1 DEF Does, Waits, Reuses, GivesUp, Joins, DropsOut, Undecided, Waiting
    <3> QED BY <3>2 DEF Leaves
  <2>5. UNCHANGED Connecting /\ UNCHANGED Doomed /\ UNCHANGED Spent
    BY <1>1, <1>2, <2>1, <2>3, <2>4, SameSlots
  <2>6. DropsOne
    BY <1>4 DEF Does, Waits, Reuses, GivesUp, Joins, Leaves, DropsOut, DropsOne
  <2>7. CASE session' = session
    BY <2>5, <2>7 DEF Promise!slotsVars, Connecting, Doomed, Spent
  <2>8. ASSUME NEW r \in Slots, session' = [session EXCEPT ![r] = NoOne]
        PROVE  Promise!DropLive(r)
    BY <2>5, <2>8 DEF Promise!DropLive, Connecting, Doomed, Spent
  <2> QED BY <2>6, <2>7, <2>8 DEF DropsOne, Promise!SlotsNext
<1> QED BY <1>3, <1>4

LEMMA FlightPromise ==
  ASSUME Kept, NEW f \in Calls, NEW s \in Slots, slot[f] = s, FlightDoes(f)
  PROVE  [Promise!SlotsNext]_(Promise!slotsVars)
<1>1. /\ Shape /\ task \in [Calls -> Phases] /\ session \in [Slots -> Calls \cup {NoOne}]
      /\ f # NoOne
  BY DEF Kept, Shape, Types, FlightTypes, SlotTypes
<1>2. UNCHANGED aborts /\ UNCHANGED seen /\ UNCHANGED flights
  BY DEF FlightDoes, modeVars, callVars, askVars
<1>3. task[f] \in Running /\ \A g \in Calls \ {f} : task'[g] = task[g]
  BY <1>1 DEF FlightDoes, Ends, Prepares, Opens, Lands, Running
<1>4. flights[s] = f /\ Current(s) = f
  BY <1>1, <1>3, CurrentIs DEF Shape, OneConnectPerSlot
<1>5. ASSUME NEW r \in Slots \ {s} PROVE Current(r)' = Current(r)
  <2>1. flights[r] # f
    BY <1>1, <1>5 DEF Shape, FlightsInPlace
  <2>2. flights[r] \in Calls \cup {NoOne} /\ flights'[r] = flights[r]
    BY <1>1, <1>2 DEF Shape, Types, SlotTypes
  <2> QED BY <1>3, <2>1, <2>2 DEF Current, Done
<1>6. \A g \in Calls : task[g] = "none" <=> task'[g] = "none"
  BY <1>1, <1>3 DEF FlightDoes, Ends, Prepares, Opens, Lands, Running, Finished
<1>7. Connecting[s] = f /\ (s \in Doomed <=> aborts[s] # seen[f])
  BY <1>1, <1>4 DEF Connecting, Doomed
<1>8. ASSUME task'[f] \in Running
      PROVE  UNCHANGED Connecting /\ UNCHANGED Doomed /\ UNCHANGED Spent
  <2>1. Current(s)' = Current(s)
    BY <1>2, <1>4, <1>8 DEF Current, Done, Running, Finished
  <2> QED BY <1>1, <1>2, <1>5, <1>6, <2>1, SameSlots
<1>9. ASSUME task'[f] \in Finished
      PROVE  /\ Connecting' = [Connecting EXCEPT ![s] = NoOne]
             /\ Doomed' = Doomed \ {s} /\ UNCHANGED Spent
  <2>1. Current(s)' = NoOne
    BY <1>2, <1>4, <1>9 DEF Current, Done
  <2>2. Connecting' = [Connecting EXCEPT ![s] = NoOne]
    BY <1>5, <2>1 DEF Connecting
  <2>3. Doomed' = Doomed \ {s}
    BY <1>2, <1>5, <2>1 DEF Doomed
  <2>4. UNCHANGED Spent
    BY <1>6 DEF Spent
  <2> QED BY <2>2, <2>3, <2>4
<1>10. CASE Prepares(f)
  <2>1. task'[f] \in Running /\ session' = session
    BY <1>1, <1>10 DEF Prepares, Running, slotVars
  <2> QED BY <1>8, <2>1 DEF Promise!slotsVars, Connecting, Doomed, Spent
<1>11. CASE Ends(f)
  <2>1. task'[f] \in Finished /\ session' = session
    BY <1>1, <1>11 DEF Ends, slotVars
  <2>2. Promise!EndConnect(s)
    BY <1>1, <1>7, <1>9, <2>1 DEF Promise!EndConnect, Connecting, Doomed, Spent
  <2> QED BY <1>1, <2>2 DEF Promise!SlotsNext
<1>12. CASE Opens(f)
  <2>1. task'[f] \in Running /\ session' = [session EXCEPT ![s] = NoOne]
    BY <1>1, <1>12 DEF Opens, Running
  <2>2. Promise!MakeRoom(s)
    BY <1>1, <1>7, <1>8, <2>1 DEF Promise!MakeRoom, Connecting, Doomed, Spent
  <2> QED BY <1>1, <2>2 DEF Promise!SlotsNext
<1>13. CASE Lands(f)
  <2>1. /\ task[f] = "opening" /\ began[f] = aborts[s]
        /\ task'[f] \in {"persisting", "ok"} /\ session' = [session EXCEPT ![s] = f]
    BY <1>1, <1>13 DEF Lands
  <2>2. began[f] = seen[f] /\ session[s] = NoOne
    BY <2>1 DEF Kept, TornDown, FlightsTornDown, Cleared
  <2>3. s \notin Doomed
    BY <1>7, <2>1, <2>2
  <2>4. CASE task'[f] = "persisting"
    <3>1. UNCHANGED Connecting /\ UNCHANGED Doomed /\ UNCHANGED Spent
      BY <1>8, <2>4 DEF Running
    <3> QED BY <1>1, <1>7, <2>1, <2>2, <2>3, <3>1
            DEF Promise!SlotsNext, Promise!GoLive, Connecting, Doomed, Spent
  <2>5. CASE task'[f] = "ok"
    <3>1. Connecting' = [Connecting EXCEPT ![s] = NoOne] /\ Doomed' = Doomed /\ UNCHANGED Spent
      BY <1>9, <2>3, <2>5 DEF Finished
    <3> QED BY <1>1, <1>7, <2>1, <2>2, <2>3, <3>1
            DEF Promise!SlotsNext, Promise!GoLive, Connecting, Doomed, Spent
  <2> QED BY <2>1, <2>4, <2>5
<1> QED BY <1>10, <1>11, <1>12, <1>13 DEF FlightDoes

LEMMA TornPromise ==
  ASSUME Kept, NEW A \in SUBSET Slots, NEW D \in SUBSET Slots, TearsDown(A, D)
  PROVE  Promise!TearDownSlots(A, D)
<1>1. /\ Shape /\ UNCHANGED task /\ UNCHANGED seen
      /\ \A s \in Slots : aborts'[s] = IF s \in A THEN aborts[s] + 1 ELSE aborts[s]
      /\ \A s \in Slots : flights'[s] = IF s \in A THEN Current(s) ELSE flights[s]
      /\ session' = [s \in Slots |-> IF s \in D THEN NoOne ELSE session[s]]
      /\ \A s \in D : flights[s] # NoOne => s \in A
  BY DEF Kept, TearsDown, TearDown, DropSessions, callVars
<1>2. ASSUME NEW s \in Slots PROVE Current(s)' = Current(s)
  BY <1>1, CurrentIs DEF Current, Done
<1>3. ASSUME NEW s \in Slots, Current(s) # NoOne
      PROVE  /\ s \in A => aborts'[s] # seen'[Current(s)]
             /\ s \notin A => (aborts'[s] # seen'[Current(s)] <=> aborts[s] # seen[Current(s)])
  <2> DEFINE f == Current(s)
  <2>1. f \in Calls /\ task[f] # "none" /\ slot[f] = s
    BY <1>1, <1>3, CurrentIs DEF Running
  <2>2. seen[f] <= aborts[s] /\ seen[f] \in Nat /\ aborts[s] \in Nat
    BY <2>1 DEF Kept, Wanted, Shape, Types, WaitTypes, ModeTypes
  <2> HIDE DEF f
  <2>3. s \in A => aborts'[s] # seen'[f]
    BY <1>1, <2>2
  <2>4. s \notin A => aborts'[s] = aborts[s] /\ seen'[f] = seen[f]
    BY <1>1
  <2> QED BY <2>3, <2>4 DEF f
<1>4. UNCHANGED Connecting /\ UNCHANGED Spent
  BY <1>1, <1>2 DEF Connecting, Spent
<1>5. Doomed' = Doomed \cup {s \in A : Current(s) # NoOne}
  BY <1>2, <1>3 DEF Doomed
<1>6. {s \in A : Connecting[s] # NoOne} = {s \in A : Current(s) # NoOne}
  BY DEF Connecting
<1>7. \A s \in D : Connecting[s] # NoOne => s \in A
  BY <1>1 DEF Connecting, Current
<1> QED BY <1>1, <1>4, <1>5, <1>6, <1>7 DEF Promise!TearDownSlots, Connecting, Doomed, Spent

LEMMA PromiseNext ==
  ASSUME Kept, [Next]_vars
  PROVE  [Promise!SlotsNext]_(Promise!slotsVars)
<1>1. CASE Rests
  <2>1. /\ Shape /\ UNCHANGED aborts /\ UNCHANGED seen /\ UNCHANGED task
        /\ \A s \in Slots : flights'[s] = flights[s] \/ (flights'[s] = NoOne /\ Current(s) = NoOne)
        /\ DropsOne
    BY <1>1 DEF Kept, Rests, callVars
  <2>2. \A s \in Slots : Current(s)' = Current(s)
    BY <2>1 DEF Current, Done
  <2>3. UNCHANGED Connecting /\ UNCHANGED Doomed /\ UNCHANGED Spent
    BY <2>1, <2>2, SameSlots
  <2>4. CASE session' = session
    BY <2>3, <2>4 DEF Promise!slotsVars, Connecting, Doomed, Spent
  <2>5. ASSUME NEW s \in Slots, session' = [session EXCEPT ![s] = NoOne]
        PROVE  Promise!DropLive(s)
    BY <2>3, <2>5 DEF Promise!DropLive, Connecting, Doomed, Spent
  <2> QED BY <2>1, <2>4, <2>5 DEF DropsOne, Promise!SlotsNext
<1>2. ASSUME NEW A \in SUBSET Slots, NEW D \in SUBSET Slots, TearsDown(A, D)
      PROVE  Promise!SlotsNext
  BY <1>2, TornPromise DEF Promise!SlotsNext
<1>3. Shape
  BY DEF Kept
<1> QED BY <1>1, <1>2, <1>3, StepDoes, CallPromise, FlightPromise

LEMMA PromiseInit == Init => Promise!SlotsInit
BY DEF Init, Promise!SlotsInit, Current

\* One connect at a time on a slot, on an emptied one, and none that a teardown
\* doomed goes live: the single flights implement what SessionSlots says.
THEOREM KeepsThePromise == Spec => SlotsKeepTheirPromise
<1>1. Kept /\ [Next]_vars => [Promise!SlotsNext]_(Promise!slotsVars)
  BY PromiseNext
<1> QED BY <1>1, PromiseInit, KeptHolds, PTL DEF Spec, SlotsKeepTheirPromise, Promise!SlotsSpec
=============================================================================
