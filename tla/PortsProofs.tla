----------------------------- MODULE PortsProofs -----------------------------
(***************************************************************************)
(* Proofs about Ports: for any pins, listeners, wires and depth of stores  *)
(* inside stores.                                                          *)
(***************************************************************************)
EXTENDS Ports, TLAPS

Emissive == {"gpio", "uart", "io"}
Calls == UNION {Emissions(port) : port \in Emissive}

\* Emission n of the stack has yet to call listener l.
Awaits(n, l) == calls[n].port = "gpio" /\ l > calls[n].at

(* What the listeners that miss nothing are owed.  ListenersCatchUp speaks *)
(* of a moment when nothing is in progress; in the middle of stores, those *)
(* that are not up to date will be called with the output and nothing else.*)
Types == TypeOK /\ calls \in Seq(Calls)
Owed ==
  /\ 1 \notin behind /\ heard[1] = output
  /\ \A l \in 1 .. Listeners \ behind :
       /\ heard[l] = output \/ \E n \in DOMAIN calls : Awaits(n, l)
       /\ \A n \in DOMAIN calls : Awaits(n, l) => calls[n].value = output
Followed ==
  \A l \in 1 .. Listeners : \A w \in Wires[l] :
    w[2] \notin taken => (w[2] \in idr <=> w[1] \in heard[l])

-----------------------------------------------------------------------------
(* Emissions. *)

\* An emission in progress is one of the three kinds, and runs one of its functions.
LEMMA CallTypes ==
  ASSUME NEW call \in Calls
  PROVE  /\ call.port \in Emissive /\ call \in Emissions(call.port)
         /\ call.at \in Nat \ {0}
         /\ call.port = "gpio" => call.at \in 1 .. Listeners /\ call.value \subseteq Pins
BY ListenersAssumption DEF Calls, Emissions, Emissive

\* A new emission, and one that goes on to its next function, are of these kinds too.
LEMMA NewEmissions ==
  /\ \A value \in SUBSET Pins : Emission("gpio", value) \in Calls
  /\ \A value \in 0 .. 255 : Emission("uart", value) \in Calls
  /\ \A value \in Channels \X Values : Emission("io", value) \in Calls
<1>1. 1 \in 1 .. Listeners /\ 1 \in 1 .. 1
  BY ListenersAssumption
<1>2. \A value \in SUBSET Pins : Emission("gpio", value) \in Emissions("gpio")
  BY <1>1 DEF Emission, Emissions
<1>3. \A value \in 0 .. 255 : Emission("uart", value) \in Emissions("uart")
  BY <1>1 DEF Emission, Emissions
<1>4. \A value \in Channels \X Values : Emission("io", value) \in Emissions("io")
  BY <1>1 DEF Emission, Emissions
<1>5. QED
  BY <1>2, <1>3, <1>4 DEF Calls, Emissive

\* Only an emission of the GPIO has a next function to go on to.
LEMMA NextFunction ==
  ASSUME NEW call \in Calls, call.at < Recipients(call)
  PROVE  /\ call.port = "gpio" /\ call.at + 1 \in 1 .. Listeners /\ call.value \subseteq Pins
         /\ [call EXCEPT !.at = @ + 1] \in Calls
<1>1. call.port = "gpio"
  BY CallTypes DEF Recipients
<1>2. call.at + 1 \in 1 .. Listeners /\ call.value \subseteq Pins
  BY <1>1, CallTypes, ListenersAssumption DEF Recipients
<1>3. call \in Emissions("gpio")
  BY <1>1, CallTypes
<1>4. [call EXCEPT !.at = @ + 1] \in Emissions("gpio")
  BY <1>1, <1>2, <1>3 DEF Emissions
<1>5. QED
  BY <1>1, <1>2, <1>4 DEF Calls, Emissive

\* The stack with one more emission.
LEMMA PushTypes ==
  ASSUME NEW stack \in Seq(Calls), NEW call \in Calls
  PROVE  /\ Append(stack, call) \in Seq(Calls) /\ Len(stack) \in Nat
         /\ Len(Append(stack, call)) = Len(stack) + 1
         /\ \A m \in 1 .. Len(stack) : Append(stack, call)[m] = stack[m]
         /\ Append(stack, call)[Len(stack) + 1] = call
         /\ DOMAIN stack = 1 .. Len(stack)
         /\ DOMAIN Append(stack, call) = 1 .. Len(stack) + 1
OBVIOUS

\* The stack without its last emission, and the beginning of the stack.
LEMMA PrefixTypes ==
  ASSUME NEW stack \in Seq(Calls), NEW n \in 0 .. Len(stack)
  PROVE  /\ SubSeq(stack, 1, n) \in Seq(Calls) /\ Len(SubSeq(stack, 1, n)) = n
         /\ \A m \in 1 .. n : SubSeq(stack, 1, n)[m] = stack[m]
OBVIOUS

\* A function that stores does so within the bound.
LEMMA MayPush ==
  ASSUME Types, MayStore, NEW call \in Calls
  PROVE  Append(calls, call) \in Seq(Calls) /\ Len(Append(calls, call)) <= MaxDepth
<1>1. Len(Append(calls, call)) = Len(calls) + 1 /\ Len(calls) \in Nat
  BY PushTypes DEF Types
<1>2. Len(calls) + 1 <= MaxDepth
  BY <1>1, ListenersAssumption DEF MayStore
<1>3. QED
  BY <1>1, <1>2, PushTypes DEF Types

LEMMA FrontTypes ==
  ASSUME NEW stack \in Seq(Calls), stack # <<>>
  PROVE  /\ Len(stack) \in Nat \ {0} /\ stack[Len(stack)] \in Calls
         /\ Front(stack) \in Seq(Calls) /\ Len(Front(stack)) = Len(stack) - 1
         /\ \A m \in 1 .. Len(stack) - 1 : Front(stack)[m] = stack[m]
<1>1. Len(stack) \in Nat \ {0} /\ stack[Len(stack)] \in Calls
  OBVIOUS
<1>2. Len(stack) - 1 \in 0 .. Len(stack)
  BY <1>1
<1>3. QED
  BY <1>1, <1>2, PrefixTypes DEF Front

-----------------------------------------------------------------------------
(* Type correctness. *)

LEMMA InitTypes == Init => Types
BY ListenersAssumption, UndefinedAssumption DEF Init, Types, TypeOK

\* Emissions of the right kinds make a stack of the right type.
LEMMA StackTypes ==
  ASSUME NEW stack \in Seq(Calls)
  PROVE  \A n \in DOMAIN stack : stack[n] \in Emissions(stack[n].port)
BY CallTypes

\* What a listener is called with goes no further than the pins.
LEMMA CallTypesKept ==
  ASSUME Types, NEW l \in 1 .. Listeners, NEW value \in SUBSET Pins, CallListener(l, value)
  PROVE  /\ heard' \in [1 .. Listeners -> SUBSET Pins] /\ idr' \subseteq Pins
         /\ taken' \subseteq Pins
<1>1. \A w \in Wires[l] : w[2] \in Pins
  BY WiresAssumption
<1>2. idr' \subseteq Pins
  BY <1>1 DEF CallListener, Wired, WiresInto, Types, TypeOK
<1>3. QED
  BY <1>2 DEF CallListener, Types, TypeOK

\* Every store, host call, return and exception keeps the types.
LEMMA StepTypes == Types /\ [Next]_vars => Types'
<1>. SUFFICES ASSUME Types, [Next]_vars PROVE Types'
  OBVIOUS
<1>. USE DEF Types
<1>1. ASSUME NEW new \in SUBSET Pins, MayStore, output' = new, EmitData(new),
             UNCHANGED <<uart, values>>
      PROVE  Types'
  <2>1. calls' \in Seq(Calls) /\ Len(calls') <= MaxDepth
    BY <1>1, NewEmissions, MayPush DEF EmitData
  <2>2. heard' \in [1 .. Listeners -> SUBSET Pins] /\ idr' \subseteq Pins /\ taken' \subseteq Pins
    BY <1>1, CallTypesKept, ListenersAssumption DEF EmitData
  <2>3. behind' \subseteq 1 .. Listeners
    BY <1>1 DEF EmitData, Awaiting
  <2>4. QED
    BY <1>1, <2>1, <2>2, <2>3, StackTypes DEF TypeOK, uart
<1>2. ASSUME NEW set \in SUBSET Pins, NEW reset \in SUBSET Pins, WriteBSRR(set, reset)
      PROVE  Types'
  BY <1>1, <1>2 DEF WriteBSRR, SetReset, Emitted, TypeOK
<1>3. ASSUME NEW reset \in SUBSET Pins, WriteBRR(reset) PROVE Types'
  BY <1>1, <1>3 DEF WriteBRR, Emitted, TypeOK
<1>4. ASSUME NEW word \in Words, WriteTransmit(word) PROVE Types'
  <2>1. LowByte(word) \in 0 .. 255
    BY WordsAssumption DEF LowByte
  <2>2. calls' \in Seq(Calls) /\ Len(calls') <= MaxDepth
    BY <1>4, <2>1, NewEmissions, MayPush DEF WriteTransmit
  <2>3. QED
    BY <1>4, <2>1, <2>2, StackTypes DEF WriteTransmit, TypeOK, gpio
<1>5. ASSUME NEW c \in Channels, NEW value \in Values, WriteChannel(c, value) PROVE Types'
  <2>1. calls' \in Seq(Calls) /\ Len(calls') <= MaxDepth
    BY <1>5, NewEmissions, MayPush DEF WriteChannel
  <2>2. QED
    BY <1>5, <2>1, StackTypes DEF WriteChannel, TypeOK, gpio, uart
<1>6. ASSUME NEW word \in Words, Receive(word) PROVE Types'
  <2>1. LowByte(word) \in 0 .. 255
    BY WordsAssumption DEF LowByte
  <2>2. QED
    BY <1>6, <2>1 DEF Receive, TypeOK, gpio
<1>7. ASSUME NEW c \in Channels, NEW value \in Values, SetValue(c, value) PROVE Types'
  BY <1>7 DEF SetValue, TypeOK, gpio, uart
<1>8. ASSUME NEW pin \in Pins, NEW value \in -1 .. 1, SetExternalDrive(pin, value) PROVE Types'
  <2>1. idr' \subseteq Pins
    BY <1>8 DEF SetExternalDrive, Driven, TypeOK
  <2>2. QED
    BY <1>8, <2>1 DEF SetExternalDrive, TypeOK, uart
<1>9. CASE Return
  <2>. DEFINE call == calls[Len(calls)]
  <2>1. Len(calls) \in Nat \ {0} /\ call \in Calls
    BY <1>9, FrontTypes DEF Return
  <2>2. /\ Front(calls) \in Seq(Calls) /\ Len(Front(calls)) = Len(calls) - 1
    BY <1>9, FrontTypes DEF Return
  <2>3. CASE call.at < Recipients(call)
    <3>1. /\ calls' = Append(Front(calls), [call EXCEPT !.at = @ + 1])
          /\ CallListener(call.at + 1, call.value)
      BY <1>9, <2>3 DEF Return, Last
    <3>2. call.at + 1 \in 1 .. Listeners /\ call.value \subseteq Pins
          /\ [call EXCEPT !.at = @ + 1] \in Calls
      BY <2>1, <2>3, NextFunction
    <3>3. calls' \in Seq(Calls) /\ Len(calls') <= MaxDepth
      <4>. HIDE DEF call
      <4>. QED
        BY <2>1, <2>2, <3>1, <3>2 DEF TypeOK
    <3>4. heard' \in [1 .. Listeners -> SUBSET Pins] /\ idr' \subseteq Pins /\ taken' \subseteq Pins
      BY <3>1, <3>2, CallTypesKept
    <3>5. QED
      BY <1>9, <3>3, <3>4, StackTypes DEF Return, TypeOK, uart
  <2>4. CASE ~(call.at < Recipients(call))
    <3>1. calls' = Front(calls) /\ UNCHANGED <<heard, idr, taken>>
      BY <1>9, <2>4 DEF Return, Last
    <3>2. Len(calls') <= MaxDepth
      BY <2>1, <2>2, <3>1, ListenersAssumption DEF TypeOK
    <3>3. QED
      BY <1>9, <2>2, <3>1, <3>2, StackTypes DEF Return, TypeOK, uart
  <2>5. QED
    BY <2>3, <2>4
<1>10. ASSUME NEW caught \in 0 .. Len(calls) - 1, Throw(caught) PROVE Types'
  <2>1. calls' \in Seq(Calls) /\ Len(calls') = caught
    BY <1>10, PrefixTypes DEF Throw
  <2>2. Len(calls') <= MaxDepth
    BY <1>10, <2>1, ListenersAssumption DEF TypeOK
  <2>3. behind' \subseteq 1 .. Listeners
    BY <1>10 DEF Throw, Awaiting, TypeOK
  <2>4. QED
    BY <1>10, <2>1, <2>2, <2>3, StackTypes DEF Throw, TypeOK, uart
<1>11. CASE UNCHANGED vars
  BY <1>11 DEF vars, gpio, uart, TypeOK
<1>12. QED
  BY <1>2, <1>3, <1>4, <1>5, <1>6, <1>7, <1>8, <1>9, <1>10, <1>11 DEF Next, WriteIgnored

\* For any pins, listeners and depth, registers hold what they can hold, and the
\* emissions in progress are as many as there are stores.
THEOREM TypeCorrect == Spec => []TypeOK
<1>1. Types => TypeOK
  BY DEF Types
<1>2. QED
  BY InitTypes, StepTypes, <1>1, PTL DEF Spec

-----------------------------------------------------------------------------
(* Listeners catch up. *)

LEMMA InitOwed == Init => Owed
BY ListenersAssumption DEF Init, Owed

\* The first listener of a store is called at once: no emission in progress awaits it.
LEMMA FirstIsNotAwaited ==
  ASSUME Types, NEW n \in DOMAIN calls
  PROVE  ~Awaits(n, 1)
<1>1. calls[n].at \in Nat \ {0}
  BY CallTypes DEF Types
<1>2. QED
  BY <1>1 DEF Awaits

\* A store to the GPIO owes its output to every listener that no other store in
\* progress will still call, and those others are the ones left behind.
LEMMA EmitOwed ==
  ASSUME Types, Owed, NEW new \in SUBSET Pins, output' = new, EmitData(new)
  PROVE  Owed'
<1>. DEFINE top == Len(calls) + 1
<1>1. /\ heard' = [heard EXCEPT ![1] = new] /\ behind' = Awaiting(calls)
      /\ calls' = Append(calls, Emission("gpio", new))
  BY DEF EmitData, CallListener
<1>2. /\ Len(calls) \in Nat /\ DOMAIN calls = 1 .. Len(calls)
      /\ DOMAIN calls' = 1 .. top /\ calls'[top] = Emission("gpio", new)
      /\ \A n \in DOMAIN calls : calls'[n] = calls[n]
  <2>1. Emission("gpio", new) \in Calls /\ calls \in Seq(Calls)
    BY NewEmissions DEF Types
  <2>2. QED
    BY <1>1, <2>1, PushTypes
<1>3. 1 \notin behind' /\ heard'[1] = output'
  <2>1. heard'[1] = new
    BY <1>1, ListenersAssumption DEF Types, TypeOK
  <2>2. 1 \notin Awaiting(calls)
    BY FirstIsNotAwaited DEF Awaiting, Awaits
  <2>3. QED
    BY <1>1, <2>1, <2>2
<1>4. ASSUME NEW l \in 1 .. Listeners \ behind', NEW n \in DOMAIN calls', Awaits(n, l)'
      PROVE  calls'[n].value = output'
  <2>1. CASE n \in DOMAIN calls
    BY <1>1, <1>2, <1>4, <2>1 DEF Awaiting, Awaits
  <2>2. CASE n = top
    BY <1>2, <2>2 DEF Emission
  <2>3. QED
    BY <1>2, <2>1, <2>2
<1>5. ASSUME NEW l \in 1 .. Listeners \ behind'
      PROVE  heard'[l] = output' \/ \E n \in DOMAIN calls' : Awaits(n, l)'
  <2>1. CASE l = 1
    BY <1>3, <2>1
  <2>2. CASE l # 1
    <3>1. top \in DOMAIN calls' /\ l > 1
      BY <1>2, <2>2, ListenersAssumption
    <3>2. calls'[top].port = "gpio" /\ l > calls'[top].at
      BY <1>2, <3>1 DEF Emission
    <3>3. QED
      BY <3>1, <3>2 DEF Awaits
  <2>3. QED
    BY <2>1, <2>2
<1>6. QED
  BY <1>3, <1>4, <1>5 DEF Owed

\* A store to another port calls no listener of the GPIO.
LEMMA OtherStoreOwed ==
  ASSUME Types, Owed, NEW call \in Calls, call.port # "gpio",
         calls' = Append(calls, call), UNCHANGED <<output, heard, behind>>
  PROVE  Owed'
<1>1. /\ Len(calls) \in Nat /\ DOMAIN calls = 1 .. Len(calls)
      /\ DOMAIN calls' = 1 .. Len(calls) + 1 /\ calls'[Len(calls) + 1] = call
      /\ \A n \in DOMAIN calls : calls'[n] = calls[n]
  BY PushTypes DEF Types
<1>2. \A n \in DOMAIN calls', l \in 1 .. Listeners :
        Awaits(n, l)' <=> n \in DOMAIN calls /\ Awaits(n, l)
  BY <1>1 DEF Awaits
<1>3. DOMAIN calls \subseteq DOMAIN calls'
  BY <1>1
<1>4. QED
  BY <1>1, <1>2, <1>3 DEF Owed

\* The function that runs returns: the next listener is up to date if it is owed
\* anything, for the emission that awaited it is the last one.
LEMMA ReturnOwed ==
  ASSUME Types, Owed, Return
  PROVE  Owed'
<1>. DEFINE top == Len(calls)
            call == calls[Len(calls)]
<1>1. /\ top \in Nat \ {0} /\ call \in Calls /\ DOMAIN calls = 1 .. top
      /\ Front(calls) \in Seq(Calls) /\ Len(Front(calls)) = top - 1
      /\ \A m \in 1 .. top - 1 : Front(calls)[m] = calls[m]
  BY FrontTypes DEF Return, Types
<1>2. CASE call.at < Recipients(call)
  <2>. DEFINE next == [call EXCEPT !.at = @ + 1]
              l0 == call.at + 1
  <2>1. /\ calls' = Append(Front(calls), next) /\ CallListener(l0, call.value)
        /\ output' = output /\ behind' = behind
    BY <1>2 DEF Return, Last
  <2>2. /\ call.port = "gpio" /\ l0 \in 1 .. Listeners /\ next \in Calls /\ call.at \in Nat \ {0}
        /\ next.port = "gpio" /\ next.at = l0 /\ next.value = call.value
    <3>1. call.at \in Nat \ {0} /\ call.port = "gpio" /\ call \in Emissions("gpio")
      BY <1>1, <1>2, NextFunction, CallTypes
    <3>2. l0 \in 1 .. Listeners /\ next \in Calls
      BY <1>1, <1>2, NextFunction
    <3>3. next.port = "gpio" /\ next.at = l0 /\ next.value = call.value
      <4>. HIDE DEF call
      <4>. QED
        BY <3>1 DEF Emissions
    <3>4. QED
      BY <3>1, <3>2, <3>3
  <2>3. /\ DOMAIN calls' = 1 .. top /\ calls'[top] = next
        /\ \A m \in 1 .. top - 1 : calls'[m] = calls[m]
    <3>. HIDE DEF call, next
    <3>1. top - 1 + 1 = top
      BY <1>1
    <3>2. /\ DOMAIN Append(Front(calls), next) = 1 .. top - 1 + 1
          /\ Append(Front(calls), next)[top - 1 + 1] = next
          /\ \A m \in 1 .. top - 1 : Append(Front(calls), next)[m] = Front(calls)[m]
      <4>. HIDE DEF top
      <4>. QED
        BY <1>1, <2>2, PushTypes
    <3>. QED
      BY <1>1, <2>1, <3>1, <3>2
  <2>4. heard' = [heard EXCEPT ![l0] = call.value]
    BY <2>1 DEF CallListener
  <2>. HIDE DEF next
  <2>5. \A n \in 1 .. top, l \in 1 .. Listeners :
          Awaits(n, l)' <=> Awaits(n, l) /\ ~(n = top /\ l = l0)
    <3>1. ASSUME NEW n \in 1 .. top, NEW l \in 1 .. Listeners
          PROVE  Awaits(n, l)' <=> Awaits(n, l) /\ ~(n = top /\ l = l0)
      <4>1. CASE n # top
        <5>1. n \in 1 .. top - 1
          <6>1. top \in Nat
            BY <1>1
          <6>. HIDE DEF top
          <6>. QED
            BY <4>1, <6>1
        <5>2. calls'[n] = calls[n]
          BY <2>3, <5>1
        <5>3. QED
          BY <4>1, <5>2 DEF Awaits
      <4>2. CASE n = top
        <5>1. l > l0 <=> l > call.at /\ l # l0
          BY <2>2, ListenersAssumption
        <5>2. calls'[n] = next /\ calls[n] = call
          BY <2>3, <4>2
        <5>. HIDE DEF call
        <5>3. calls'[n].port = "gpio" /\ calls'[n].at = call.at + 1
          BY <2>2, <5>2
        <5>4. QED
          BY <2>2, <4>2, <5>1, <5>2, <5>3 DEF Awaits
      <4>3. QED
        BY <4>1, <4>2
    <3>2. QED
      BY <3>1
  <2>6. \A n \in 1 .. top : calls'[n].value = calls[n].value
    BY <1>1, <2>2, <2>3
  <2>7. l0 # 1 /\ Awaits(top, l0) /\ top \in DOMAIN calls
    BY <1>1, <2>2 DEF Awaits
  <2>8. l0 \notin behind => heard'[l0] = output'
    BY <2>1, <2>2, <2>4, <2>7 DEF Owed, Types, TypeOK
  <2>9. \A l \in 1 .. Listeners : l # l0 => heard'[l] = heard[l]
    BY <2>4 DEF Types, TypeOK
  <2>10. ASSUME NEW l \in 1 .. Listeners \ behind'
         PROVE  heard'[l] = output' \/ \E n \in DOMAIN calls' : Awaits(n, l)'
    BY <1>1, <2>1, <2>3, <2>5, <2>8, <2>9 DEF Owed
  <2>11. ASSUME NEW l \in 1 .. Listeners \ behind', NEW n \in DOMAIN calls', Awaits(n, l)'
         PROVE  calls'[n].value = output'
    BY <1>1, <2>1, <2>3, <2>5, <2>6, <2>11 DEF Owed
  <2>12. 1 \notin behind' /\ heard'[1] = output'
    BY <2>1, <2>7, <2>9, ListenersAssumption DEF Owed
  <2>13. QED
    BY <2>10, <2>11, <2>12 DEF Owed
<1>3. CASE ~(call.at < Recipients(call))
  <2>1. calls' = Front(calls) /\ UNCHANGED <<output, heard, behind>>
    BY <1>3 DEF Return, Last
  <2>2. DOMAIN calls' = 1 .. top - 1 /\ \A m \in 1 .. top - 1 : calls'[m] = calls[m]
    BY <1>1, <2>1
  <2>3. \A l \in 1 .. Listeners : ~Awaits(top, l)
    BY <1>1, <1>3, CallTypes, ListenersAssumption DEF Awaits, Recipients
  <2>4. \A l \in 1 .. Listeners, n \in 1 .. top :
          Awaits(n, l) => n \in DOMAIN calls' /\ Awaits(n, l)'
    BY <1>1, <2>2, <2>3 DEF Awaits
  <2>5. \A l \in 1 .. Listeners, n \in DOMAIN calls' :
          n \in DOMAIN calls /\ (Awaits(n, l)' <=> Awaits(n, l)) /\ calls'[n] = calls[n]
    BY <1>1, <2>2 DEF Awaits
  <2>6. QED
    BY <1>1, <2>1, <2>4, <2>5 DEF Owed
<1>4. QED
  BY <1>2, <1>3

\* An exception leaves behind the listeners that the emissions it ends still awaited.
LEMMA ThrowOwed ==
  ASSUME Types, Owed, NEW caught \in 0 .. Len(calls) - 1, Throw(caught)
  PROVE  Owed'
<1>. DEFINE gone == SubSeq(calls, caught + 1, Len(calls))
<1>1. /\ Len(calls) \in Nat /\ caught \in Nat /\ DOMAIN calls = 1 .. Len(calls)
      /\ DOMAIN calls' = 1 .. caught /\ \A n \in 1 .. caught : calls'[n] = calls[n]
  BY PrefixTypes DEF Throw, Types
<1>2. /\ DOMAIN gone = 1 .. Len(calls) - caught
      /\ \A n \in 1 .. Len(calls) - caught : gone[n] = calls[caught + n]
  BY <1>1 DEF Types
<1>3. /\ behind' = behind \cup Awaiting(gone) /\ UNCHANGED <<output, heard>>
  BY DEF Throw
<1>4. ASSUME NEW l \in 1 .. Listeners \ behind', NEW n \in DOMAIN calls, Awaits(n, l)
      PROVE  n \in DOMAIN calls'
  <2>1. SUFFICES ASSUME n > caught PROVE FALSE
    BY <1>1
  <2>2. n - caught \in DOMAIN gone /\ gone[n - caught] = calls[n]
    BY <1>1, <1>2, <2>1
  <2>3. l \in Awaiting(gone)
    BY <1>4, <2>2 DEF Awaits, Awaiting
  <2>4. QED
    BY <1>3, <2>3
<1>5. 1 \notin behind'
  <2>1. \A n \in DOMAIN gone : caught + n \in DOMAIN calls /\ gone[n] = calls[caught + n]
    BY <1>1, <1>2
  <2>2. 1 \notin Awaiting(gone)
    BY <2>1, FirstIsNotAwaited DEF Awaits, Awaiting
  <2>3. QED
    BY <1>3, <2>2 DEF Owed
<1>6. \A l \in 1 .. Listeners, n \in DOMAIN calls' :
        n \in DOMAIN calls /\ (Awaits(n, l)' <=> Awaits(n, l)) /\ calls'[n] = calls[n]
  BY <1>1 DEF Awaits
<1>. HIDE DEF gone
<1>7. QED
  BY <1>3, <1>4, <1>5, <1>6 DEF Owed

\* Every step keeps the debt.
LEMMA StepOwed == Types /\ Owed /\ [Next]_vars => Owed'
<1>. SUFFICES ASSUME Types, Owed, [Next]_vars PROVE Owed'
  OBVIOUS
<1>1. ASSUME NEW set \in SUBSET Pins, NEW reset \in SUBSET Pins, WriteBSRR(set, reset)
      PROVE  Owed'
  BY <1>1, EmitOwed DEF WriteBSRR, SetReset, Emitted, Types, TypeOK
<1>2. ASSUME NEW reset \in SUBSET Pins, WriteBRR(reset) PROVE Owed'
  BY <1>2, EmitOwed DEF WriteBRR, Emitted, Types, TypeOK
<1>3. ASSUME NEW word \in Words, WriteTransmit(word) PROVE Owed'
  <2>1. LowByte(word) \in 0 .. 255
    BY WordsAssumption DEF LowByte
  <2>2. Emission("uart", LowByte(word)) \in Calls /\ Emission("uart", LowByte(word)).port # "gpio"
    BY <2>1, NewEmissions DEF Emission
  <2>3. QED
    BY <1>3, <2>2, OtherStoreOwed DEF WriteTransmit, gpio
<1>4. ASSUME NEW c \in Channels, NEW value \in Values, WriteChannel(c, value) PROVE Owed'
  <2>1. Emission("io", <<c, value>>) \in Calls /\ Emission("io", <<c, value>>).port # "gpio"
    BY NewEmissions DEF Emission
  <2>2. QED
    BY <1>4, <2>1, OtherStoreOwed DEF WriteChannel, gpio
<1>5. CASE Return
  BY <1>5, ReturnOwed
<1>6. ASSUME NEW caught \in 0 .. Len(calls) - 1, Throw(caught) PROVE Owed'
  BY <1>6, ThrowOwed
<1>7. CASE UNCHANGED <<output, heard, behind, calls>>
  BY <1>7 DEF Owed, Awaits
<1>8. QED
  BY <1>1, <1>2, <1>3, <1>4, <1>5, <1>6, <1>7
     DEF Next, WriteIgnored, Receive, SetValue, SetExternalDrive, vars, gpio

\* For any listeners and however deep stores go inside stores, a listener that is not
\* left behind has the output once they are all over, and the first one has it always.
THEOREM CatchUp == Spec => []ListenersCatchUp
<1>1. Owed => ListenersCatchUp
  BY DEF Owed, ListenersCatchUp
<1>2. QED
  BY InitTypes, StepTypes, InitOwed, StepOwed, <1>1, PTL DEF Spec

-----------------------------------------------------------------------------
(* Wires follow. *)

\* A listener that is called takes its wires along, and leaves those of the others.
LEMMA CallFollowed ==
  ASSUME Types, Followed, NEW l0 \in 1 .. Listeners, NEW value, CallListener(l0, value)
  PROVE  Followed'
<1>1. ASSUME NEW l \in 1 .. Listeners, NEW w \in Wires[l], w[2] \notin taken'
      PROVE  w[2] \in idr' <=> w[1] \in heard'[l]
  <2>1. CASE l = l0
    <3>1. heard'[l] = value
      BY <2>1 DEF CallListener, Types, TypeOK
    <3>2. w[2] \in idr' <=> w[1] \in value
      BY <2>1, WiresAssumption DEF CallListener, Wired, WiresInto
    <3>3. QED
      BY <3>1, <3>2
  <2>2. CASE l # l0
    <3>1. w[2] \notin WiresInto(l0)
      BY <2>2, WiresAssumption DEF WiresInto
    <3>2. w[2] \in idr' <=> w[2] \in idr
      BY <3>1 DEF CallListener, Wired, WiresInto
    <3>3. heard'[l] = heard[l]
      BY <2>2 DEF CallListener, Types, TypeOK
    <3>4. w[2] \notin taken
      BY <1>1, <3>1 DEF CallListener
    <3>5. QED
      BY <3>2, <3>3, <3>4 DEF Followed
  <2>3. QED
    BY <2>1, <2>2
<1>2. QED
  BY <1>1 DEF Followed

LEMMA StepFollowed == Types /\ Followed /\ [Next]_vars => Followed'
<1>. SUFFICES ASSUME Types, Followed, [Next]_vars PROVE Followed'
  OBVIOUS
<1>1. ASSUME NEW set \in SUBSET Pins, NEW reset \in SUBSET Pins, WriteBSRR(set, reset)
      PROVE  Followed'
  BY <1>1, CallFollowed, ListenersAssumption DEF WriteBSRR, EmitData
<1>2. ASSUME NEW reset \in SUBSET Pins, WriteBRR(reset) PROVE Followed'
  BY <1>2, CallFollowed, ListenersAssumption DEF WriteBRR, EmitData
<1>3. ASSUME NEW pin \in Pins, NEW value \in -1 .. 1, SetExternalDrive(pin, value)
      PROVE  Followed'
  <2>1. CASE value = 0
    <3>1. idr' = idr /\ taken' = taken /\ heard' = heard
      BY <1>3, <2>1 DEF SetExternalDrive, Driven
    <3>2. QED
      BY <3>1 DEF Followed
  <2>2. CASE value # 0
    <3>1. heard' = heard /\ taken' = taken \cup {pin}
          /\ \A p : p # pin => (p \in idr' <=> p \in idr)
      BY <1>3, <2>2 DEF SetExternalDrive, Driven
    <3>2. QED
      BY <3>1 DEF Followed
  <2>3. QED
    BY <2>1, <2>2
<1>4. CASE Return
  <2>1. Last(calls) \in Calls
    BY <1>4, FrontTypes DEF Return, Last, Types
  <2>2. CASE Last(calls).at < Recipients(Last(calls))
    BY <1>4, <2>1, <2>2, NextFunction, CallFollowed DEF Return
  <2>3. CASE ~(Last(calls).at < Recipients(Last(calls)))
    BY <1>4, <2>3 DEF Return, Followed
  <2>4. QED
    BY <2>2, <2>3
<1>5. CASE UNCHANGED <<idr, taken, heard>>
  BY <1>5 DEF Followed
<1>6. QED
  BY <1>1, <1>2, <1>3, <1>4, <1>5
     DEF Next, WriteIgnored, Receive, SetValue, WriteTransmit, WriteChannel, Throw, vars, gpio

\* For any wires of which no two drive the same pin, a pin that the host leaves alone
\* reads what was stored to the output it is wired to, once the wire's listener has it.
THEOREM PinsFollow == Spec => []WiresFollow
<1>1. Init => Followed
  BY DEF Init, Followed
<1>2. Owed /\ Followed => WiresFollow
  BY ListenersAssumption DEF Owed, Followed, WiresFollow
<1>3. QED
  BY InitTypes, StepTypes, InitOwed, StepOwed, <1>1, StepFollowed, <1>2, PTL DEF Spec
=============================================================================
