------------------------------ MODULE Devices ------------------------------
(***************************************************************************)
(* The devices together. The kernel starts up the dispatcher as main of    *)
(* P4/kernel.C does; then kernel code calls what the console, the timer    *)
(* and the keyboard offer, in any order, and is interrupted between any    *)
(* two steps by the timer, the keyboard or a line without a handler, such  *)
(* as the disk's in P6. One caller stands for all threads: no thread       *)
(* passes the CPU on inside one of these calls.                            *)
(***************************************************************************)
EXTENDS Interrupts, SimpleTimer, SimpleKeyboard, Console

CONSTANTS
    Message,        \* one line of output
    MaxRequests,    \* bound: interrupt requests, of whatever device
    MaxCalls        \* bound: calls of kernel code

VARIABLES
    raised,         \* requests so far
    calls           \* calls so far

vars == <<callerVars, interruptVars, timerVars, keyboardVars, consoleVars, raised, calls>>

TimerLine == 0
KeyboardLine == 1
Others == Line \ {TimerLine, KeyboardLine}

ASSUME DevicesAssumption ==
    /\ {TimerLine, KeyboardLine} \subseteq Line
    /\ Message \in Seq(Printable \cup {"newline"}) /\ MaxRequests \in Nat /\ MaxCalls \in Nat

Init ==
    /\ CallerInit /\ InterruptsInit /\ TimerInit /\ KeyboardInit /\ ConsoleInit
    /\ raised = 0
    /\ calls = 0

-----------------------------------------------------------------------------
(* Start-up: main of P4/kernel.C. Its messages end with a newline.         *)

Boot ==
    /\ \/ BootStep("irq_remap") /\ irq_remap /\ puts(<<>>)
       \/ BootStep("init_dispatcher") /\ init_dispatcher /\ puts(<<>>)
       \/ BootStep("timer") /\ register_handler(TimerLine, "timer") /\ puts(Message)
       \/ BootStep("keyboard") /\ register_handler(KeyboardLine, "keyboard") /\ puts(Message \o Message)
       \/ BootStep("enable_interrupts") /\ enable_interrupts /\ puts(<<>>)
    /\ UNCHANGED <<callerVars, timerVars, keyboardVars, raised, calls>>

-----------------------------------------------------------------------------
(* The devices raise their lines.                                          *)

Requests(n) ==
    /\ raised < MaxRequests
    /\ raised' = raised + 1
    /\ Raise(n)
    /\ UNCHANGED <<callerVars, timerVars, consoleVars, calls>>

TimerFires == Requests(TimerLine) /\ UNCHANGED keyboardVars

KeyArrives == Requests(KeyboardLine) /\ KeyboardSends

OtherRaises == \E n \in Others : Requests(n) /\ UNCHANGED keyboardVars

-----------------------------------------------------------------------------
(* Interrupts: dispatch_interrupt around the handler.                      *)

TimerInterrupt(n) ==
    /\ dispatch_interrupt(n, "timer")
    /\ TimerHandler
    /\ puts(IF SecondOver THEN Message ELSE <<>>)
    /\ UNCHANGED <<callerVars, keyboardVars, raised, calls>>

KeyboardInterrupt(n) ==
    /\ dispatch_interrupt(n, "keyboard")
    /\ KeyboardHandler
    /\ puts(<<>>)
    /\ UNCHANGED <<callerVars, timerVars, raised, calls>>

\* Two lines of output say that there is no handler.
UncapturedInterrupt(n) ==
    /\ dispatch_interrupt(n, NULL)
    /\ puts(Message \o Message)
    /\ UNCHANGED <<callerVars, timerVars, keyboardVars, raised, calls>>

Interrupt(n) == TimerInterrupt(n) \/ KeyboardInterrupt(n) \/ UncapturedInterrupt(n)

-----------------------------------------------------------------------------
(* Kernel code, once main has enabled interrupts. It ends in for(;;).      *)

CallSome ==
    /\ booted = Len(BootOrder)
    /\ calls < MaxCalls
    /\ calls' = calls + 1
    /\ \/ CallPutch /\ UNCHANGED <<timerVars, keyboardVars>>
       \/ TimerCall /\ UNCHANGED <<keyboardVars, consoleVars>>
       \/ CallKeyboard /\ UNCHANGED <<timerVars, consoleVars>>
    /\ UNCHANGED <<interruptVars, raised>>

CallGoesOn ==
    /\ \/ PutchStep /\ UNCHANGED <<timerVars, keyboardVars>>
       \/ TimerStep /\ UNCHANGED <<keyboardVars, consoleVars>>
       \/ KeyboardStep /\ UNCHANGED <<timerVars, consoleVars>>
    /\ UNCHANGED <<interruptVars, raised, calls>>

Spin == pc = "idle" /\ UNCHANGED vars

Next ==
    \/ Boot \/ TimerFires \/ KeyArrives \/ OtherRaises
    \/ \E n \in Line : Interrupt(n)
    \/ CallSome \/ CallGoesOn \/ Spin

Spec == Init /\ [][Next]_vars

-----------------------------------------------------------------------------
(* Properties.                                                             *)

TypeOK ==
    /\ InterruptsTypeOK
    /\ loc \in {NoLocals} \cup TimerLocals \cup KeyboardLocals \cup PutchLocals
    /\ seconds \in Nat /\ ticks \in 0..hz - 1 /\ elapsed \in Nat
    /\ key_pressed \in BOOLEAN /\ key_code \in Key \cup {0}
    /\ buffer \in Codes \cup {NoByte} /\ typed \subseteq Key
    /\ console \in ConsoleState
    /\ torn \subseteq Char

\* No request waits behind an interrupt whose handler has returned, whatever was served
\* before and by whichever controller: the end-of-interrupt messages of dispatch_interrupt
\* retire every interrupt, so the CPU is always offered the next one.
RequestsPass == \A n \in irr : Passes(n)

\* "It is important to install a timer handler, as we would get a lot of uncaptured
\* interrupts otherwise" (P4/kernel.C:150-151): the first timer and keyboard requests,
\* which may be waiting when interrupts are enabled, find their handlers.
NoUncaptured == [][\A n \in {TimerLine, KeyboardLine} : ~UncapturedInterrupt(n)]_vars

\* A reading of current() ("the current time since the system started",
\* simple_timer.H:62), though its two fields are read apart, is not after the time of its
\* return and less than a second before the time of its call.
ReadingWithinASecond ==
    [][ReadTicks => LET reading == loc.seconds * hz + ticks
                    IN  loc.called - hz < reading /\ reading <= elapsed]_vars

\* "Wait until keyboard is pressed and return the keycode" (simple_keyboard.H:51): read()
\* returns a key that went down during the call, not an earlier one and not a release.
ReadReturnsFreshKey == [][ReadCode => key_code \in typed]_vars

\* Whatever the handlers print in the midst of putch, the cursor is on the screen again
\* when putch returns, and nothing is ever written before the screen or more than a row
\* after it. A backspace that is interrupted after its test is the exception.
ConsoleContained ==
    "backspace" \notin torn =>
        /\ pc = "idle" => console.csr_x \in 0..COLS - 1 /\ console.csr_y \in 0..ROWS - 1
        /\ \A i \in Cell \ RowsFrom(0, ROWS + 1) : console.text[i] = Elsewhere

\* The screen shows the last rows of an endless page, with the cursor where it would be,
\* as long as no handler printed in the midst of a putch.
ScreenShowsText ==
    torn = {} /\ pc = "idle" =>
        LET top == IF paper.row < ROWS THEN 0 ELSE paper.row - ROWS + 1
        IN  /\ console.csr_x = paper.col /\ console.csr_y = paper.row - top
            /\ \A r \in 0..ROWS - 1, c \in 0..COLS - 1 :
                  console.text[r * COLS + c] =
                      IF <<top + r, c>> \in DOMAIN paper.ink THEN paper.ink[<<top + r, c>>] ELSE Blank
=============================================================================
