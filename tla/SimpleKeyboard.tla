-------------------------- MODULE SimpleKeyboard --------------------------
(***************************************************************************)
(* The keyboard (P4/simple_keyboard.C): the handler stores the code of the *)
(* last key, read() and wait() poll for one. Releasing a key sends its     *)
(* code with the high bit set, a negative char. The keyboard controller is *)
(* external: it has one byte for the CPU at a time.                        *)
(***************************************************************************)
EXTENDS Caller, Integers

CONSTANT Key        \* the codes of the keys

ASSUME KeyAssumption == Key \subseteq Nat \ {0}

VARIABLES
    key_pressed, key_code,
    buffer,         \* the controller's output byte, or NoByte
    typed           \* history: the keys handled since the call was made

keyboardVars == <<key_pressed, key_code, buffer, typed>>

NoByte == 0
Codes == Key \cup {-k : k \in Key}

KeyboardInit == key_pressed = FALSE /\ key_code = 0 /\ buffer = NoByte /\ typed = {}

\* A key goes down or up; its byte waits for the handler.
KeyboardSends ==
    /\ buffer = NoByte
    /\ buffer' \in Codes
    /\ UNCHANGED <<key_pressed, key_code, typed>>

\* Deviation: codes of released keys are stored too.
KeyboardHandler_any_code ==
    /\ IF buffer # NoByte
       THEN key_pressed' = TRUE /\ key_code' = buffer /\ typed' = typed \cup ({buffer} \cap Key)
       ELSE UNCHANGED <<key_pressed, key_code, typed>>
    /\ buffer' = NoByte

\* handle_interrupt: the status bit, the byte, and its sign.
KeyboardHandler ==
    /\ IF buffer # NoByte /\ buffer >= 0
       THEN key_pressed' = TRUE /\ key_code' = buffer /\ typed' = typed \cup {buffer}
       ELSE UNCHANGED <<key_pressed, key_code, typed>>
    /\ buffer' = NoByte

-----------------------------------------------------------------------------
(* Calls.                                                                  *)

KeyboardLocals == [op : {"read", "wait_key"}]

CallKeyboard ==
    /\ \E op \in {"read", "wait_key"} : Call("clear_key", [op |-> op])
    /\ typed' = {}
    /\ UNCHANGED <<key_pressed, key_code, buffer>>

\* kb.key_pressed = false
ClearKey ==
    /\ Step("clear_key", "poll_key")
    /\ key_pressed' = FALSE
    /\ UNCHANGED <<key_code, buffer, typed>>

\* while (kb.key_pressed == false), after which wait() returns.
PollKey ==
    /\ pc = "poll_key"
    /\ IF ~key_pressed THEN Step("poll_key", "poll_key")
       ELSE IF loc.op = "read" THEN Step("poll_key", "read_code") ELSE Return("poll_key")
    /\ UNCHANGED keyboardVars

\* return kb.key_code
ReadCode == Return("read_code") /\ UNCHANGED keyboardVars

KeyboardStep == ClearKey \/ PollKey \/ ReadCode
=============================================================================
