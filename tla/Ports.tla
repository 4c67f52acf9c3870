--------------------------------- MODULE Ports -------------------------------
(***************************************************************************)
(* The devices at the edge of the machine: GPIO (src/GPIO.js), UART        *)
(* (src/uart.js) and IO (src/io.js).  A store of the guest to one of them  *)
(* calls host functions before it returns: the listeners of the port's     *)
(* 'data' event, one after the other in the order they registered, or the  *)
(* UART's onTransmit.  While such a function runs it may call any host-side*)
(* method of any port, store to a port itself, so that a store runs inside *)
(* another, or throw.  An exception ends the calls it leaves; a function   *)
(* that made a store may catch it, or else it comes out of the guest's     *)
(* store.                                                                  *)
(***************************************************************************)
EXTENDS Integers, Sequences, SequencesExt

CONSTANTS Pins,
          Listeners,    \* how many functions listen to the GPIO
          Wires,        \* external: the pairs <<from, to>> of pins that each listener
                        \* connects: it drives `to` as the output `from`
          Words,        \* what is stored to the UART or received by it
          Channels, Values,
          undefined,    \* of a channel that was never set
          MaxDepth      \* bound: stores in progress, one inside the other

ASSUME ListenersAssumption == Listeners \in Nat \ {0} /\ MaxDepth \in Nat \ {0}
ASSUME WiresAssumption ==      \* no two wires drive the same pin
  /\ Wires \in [1 .. Listeners -> SUBSET (Pins \X Pins)]
  /\ \A l, k \in 1 .. Listeners : \A w \in Wires[l], x \in Wires[k] :
       w[2] = x[2] => l = k /\ w = x
ASSUME WordsAssumption == Words \subseteq Nat
ASSUME UndefinedAssumption == undefined \notin Values

VARIABLES output, idr,            \* GPIO._output, ._idr: the pins at 1
          rxData, txData,         \* UART
          values,                 \* IO._values
          calls,                  \* external: the emissions in progress, outermost
                                  \* first; function `at` is running
          heard,                  \* history: the value each GPIO listener had last
          behind,                 \* history: the listeners that miss the last change
          taken                   \* history: the pins last driven by no wire

gpio == <<output, idr, heard, behind, taken>>
uart == <<rxData, txData>>
vars == <<gpio, uart, values, calls>>

Init == /\ output = {} /\ idr = {}
        /\ rxData = 0 /\ txData = 0
        /\ values = [c \in Channels |-> undefined]
        /\ calls = <<>>
        /\ heard = [l \in 1 .. Listeners |-> {}] /\ behind = {} /\ taken = {}

-----------------------------------------------------------------------------
(* setExternalDrive: -1 pulls a pin to ground, 1 to Vcc, and 0 lets it     *)
(* float, at the level it had.                                             *)

Driven_FloatsLow(levels, pin, value) == IF value > 0 THEN levels \cup {pin} ELSE levels \ {pin}
Driven(levels, pin, value) ==
  CASE value < 0 -> levels \ {pin} [] value = 0 -> levels [] value > 0 -> levels \cup {pin}

\* Listener l is called with the output: it drives the pins that it wires.
WiresInto(l) == {w[2] : w \in Wires[l]}
Wired(levels, l, value) ==
  (levels \ WiresInto(l)) \cup {w[2] : w \in {x \in Wires[l] : x[1] \in value}}

-----------------------------------------------------------------------------
(* Emission. *)

Emission(port, value) == [port |-> port, value |-> value, at |-> 1]
Recipients(call) == IF call.port = "gpio" THEN Listeners ELSE 1

\* The GPIO listeners that emissions in progress have yet to call.
Awaiting(stack) ==
  {l \in 1 .. Listeners : \E n \in DOMAIN stack : stack[n].port = "gpio" /\ l > stack[n].at}

CallListener(l, value) ==
  /\ heard' = [heard EXCEPT ![l] = value]
  /\ idr' = Wired(idr, l, value)
  /\ taken' = taken \ WiresInto(l)

\* emit: the first listener is called at once.
EmitData(value) ==
  /\ CallListener(1, value)
  /\ behind' = Awaiting(calls)
  /\ calls' = Append(calls, Emission("gpio", value))

MayStore == Len(calls) < MaxDepth

-----------------------------------------------------------------------------
(* Stores to the ports, by the guest or by a function that a store called. *)

\* BSRR: the low half sets pins, the high half resets them, and setting wins.
SetReset(set, reset) == (output \ reset) \cup set

\* What is emitted is the output after the store.
Emitted_Old(new) == output
Emitted(new) == new

WriteBSRR(set, reset) ==
  /\ MayStore
  /\ output' = SetReset(set, reset)
  /\ EmitData(Emitted(SetReset(set, reset)))
  /\ UNCHANGED <<uart, values>>

WriteBRR(reset) ==
  /\ MayStore
  /\ output' = output \ reset
  /\ EmitData(Emitted(output \ reset))
  /\ UNCHANGED <<uart, values>>

\* The other registers of the GPIO, and of the UART, take a store and ignore it.
WriteIgnored == UNCHANGED vars

\* data & 0xFF
LowByte_Whole(word) == word
LowByte(word) == word % 256

WriteTransmit(word) ==
  /\ MayStore
  /\ txData' = LowByte(word)
  /\ calls' = Append(calls, Emission("uart", LowByte(word)))
  /\ UNCHANGED <<gpio, rxData, values>>

\* IO emits what the guest stores, and keeps nothing of it.
WriteChannel(c, value) ==
  /\ MayStore
  /\ calls' = Append(calls, Emission("io", <<c, value>>))
  /\ UNCHANGED <<gpio, uart, values>>

-----------------------------------------------------------------------------
(* The host's side: between two instructions of the guest, or from inside  *)
(* a function that a store called.                                         *)

SetExternalDrive(pin, value) ==
  /\ idr' = Driven(idr, pin, value)
  /\ taken' = IF value = 0 THEN taken ELSE taken \cup {pin}
  /\ UNCHANGED <<output, heard, behind, uart, values, calls>>

\* The register holds one byte, read or not.
Receive(word) ==
  /\ rxData' = LowByte(word)
  /\ UNCHANGED <<gpio, txData, values, calls>>

SetValue(c, value) ==
  /\ values' = [values EXCEPT ![c] = value]
  /\ UNCHANGED <<gpio, uart, calls>>

\* The function that runs returns: the next one is called, or the store ends.
Return ==
  /\ calls # <<>>
  /\ LET call == Last(calls)
     IN  IF call.at < Recipients(call)
         THEN /\ calls' = Append(Front(calls), [call EXCEPT !.at = @ + 1])
              /\ CallListener(call.at + 1, call.value)
         ELSE calls' = Front(calls) /\ UNCHANGED <<heard, idr, taken>>
  /\ UNCHANGED <<output, behind, uart, values>>

\* It throws, and the function running in emission `caught` goes on; with 0 the
\* exception is the guest's.
Throw(caught) ==
  /\ calls' = SubSeq(calls, 1, caught)
  /\ behind' = behind \cup Awaiting(SubSeq(calls, caught + 1, Len(calls)))
  /\ UNCHANGED <<output, idr, heard, taken, uart, values>>

-----------------------------------------------------------------------------
(* Specification. *)

Next == \/ \E set, reset \in SUBSET Pins : WriteBSRR(set, reset)
        \/ \E reset \in SUBSET Pins : WriteBRR(reset)
        \/ WriteIgnored
        \/ \E word \in Words : WriteTransmit(word) \/ Receive(word)
        \/ \E c \in Channels, value \in Values : WriteChannel(c, value) \/ SetValue(c, value)
        \/ \E pin \in Pins, value \in -1 .. 1 : SetExternalDrive(pin, value)
        \/ Return
        \/ \E caught \in 0 .. Len(calls) - 1 : Throw(caught)

Spec == Init /\ [][Next]_vars

-----------------------------------------------------------------------------
(* Properties. *)

\* Type invariant.
Emissions(port) ==
  [port : {port}, at : 1 .. (IF port = "gpio" THEN Listeners ELSE 1),
   value : IF port = "gpio" THEN SUBSET Pins
           ELSE IF port = "uart" THEN 0 .. 255 ELSE Channels \X Values]
TypeOK ==
  /\ output \subseteq Pins /\ idr \subseteq Pins
  /\ rxData \in 0 .. 255 /\ txData \in 0 .. 255
  /\ values \in [Channels -> Values \cup {undefined}]
  /\ Len(calls) <= MaxDepth
  /\ \A n \in DOMAIN calls : calls[n] \in Emissions(calls[n].port)
  /\ heard \in [1 .. Listeners -> SUBSET Pins]
  /\ behind \subseteq 1 .. Listeners /\ taken \subseteq Pins

\* GPIO.js:115.  Once no store is in progress, a listener's last value is the
\* output, whatever stores and exceptions went on inside one another, unless an
\* exception kept it from being called, or an earlier listener stored to the GPIO
\* and the outer emission reached it after the inner one.  The listener that
\* registered first is always up to date, even in the middle of stores.
ListenersCatchUp ==
  /\ \A l \in 1 .. Listeners : calls = <<>> /\ l \notin behind => heard[l] = output
  /\ heard[1] = output /\ 1 \notin behind

\* GPIO.js:60.  A guest that reads a pin back over a wire from one of its outputs sees
\* what it stored, floated in between or not, as soon as the wire's listener is up to
\* date, and unless the host drove the pin otherwise.
WiresFollow ==
  \A l \in 1 .. Listeners \ behind : \A w \in Wires[l] :
    (calls = <<>> \/ l = 1) /\ w[2] \notin taken => (w[2] \in idr <=> w[1] \in output)
=============================================================================
