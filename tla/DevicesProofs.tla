--------------------------- MODULE DevicesProofs ---------------------------
(***************************************************************************)
(* Theorems about Devices.tla, for any set of lines, any interrupt rate    *)
(* and any number of requests and calls: interrupts are all retired, the   *)
(* first ones find their handlers, a clock reading is within a second, a   *)
(* key read is a fresh one, the cursor comes back to the screen, and the   *)
(* screen shows what has been printed.                                     *)
(*                                                                         *)
(* What a handler prints is a fold over its message; its lemmas unroll the *)
(* fold into a sequence of consoles, one for each character.               *)
(***************************************************************************)
EXTENDS Devices, WellFoundedInduction, TLAPS

-----------------------------------------------------------------------------
(* Interrupt dispatch.                                                     *)

\* No interrupt is in service between two steps, for each has been retired; and what
\* BootOrder has set up so far is in place before interrupts are enabled.
Dispatching ==
    /\ InterruptsTypeOK
    /\ in_service = [master |-> {}, slave |-> {}]
    /\ booted >= 1 => vector_base = [master |-> 32, slave |-> 40]
    /\ booted >= 3 => handler_table[TimerLine] = "timer"
    /\ booted >= 4 => handler_table[KeyboardLine] = "keyboard"
    /\ interrupts_enabled => booted >= 4

-----------------------------------------------------------------------------
(* Where the caller is, and what it holds.                                 *)

TimerStepsAt == {"read_seconds", "read_ticks", "test_seconds", "test_ticks"}

KeyboardStepsAt == {"clear_key", "poll_key", "read_code"}

PutchStepsAt ==
    {"putch", "where", "ink", "load_x", "store_x", "wrap", "margin", "load_row", "store_row",
     "scroll", "temp", "copy", "clear", "last_row"}

InOneCall ==
    /\ pc \in {"idle"} \cup TimerStepsAt \cup KeyboardStepsAt \cup PutchStepsAt
    /\ pc \in TimerStepsAt => loc \in TimerLocals
    /\ pc \in PutchStepsAt => "next" \in DOMAIN loc /\ loc.next \in {"wrap", "scroll"}

-----------------------------------------------------------------------------
(* Timer and keyboard.                                                     *)

\* The handler's two counters hold the interrupts handled so far.
Counting ==
    /\ seconds \in Nat /\ ticks \in 0..hz - 1 /\ elapsed \in Nat
    /\ elapsed = seconds * hz + ticks

\* The seconds a call of current() has read are not before its call by a second or more,
\* and have not been taken back since.
Reading ==
    /\ pc \in TimerStepsAt => loc.called <= elapsed
    /\ pc = "read_ticks" => loc.called - hz < loc.seconds * hz /\ loc.seconds <= seconds

\* A key that a call has seen pressed has gone down during that call.
FreshKey ==
    /\ key_pressed \in BOOLEAN
    /\ pc = "poll_key" /\ key_pressed => key_code \in typed
    /\ pc = "read_code" => key_code \in typed

-----------------------------------------------------------------------------

\* main takes five steps.
LEMMA BootLength == Len(BootOrder) = 5
  BY DEF BootOrder

\* Which step of main comes when.
LEMMA BootPositions ==
    ASSUME booted \in 0..Len(BootOrder)
    PROVE  /\ Len(BootOrder) = 5
           /\ BootStep("irq_remap") => booted = 0 /\ booted' = 1
           /\ BootStep("init_dispatcher") => booted = 1 /\ booted' = 2
           /\ BootStep("timer") => booted = 2 /\ booted' = 3
           /\ BootStep("keyboard") => booted = 3 /\ booted' = 4
           /\ BootStep("enable_interrupts") => booted = 4 /\ booted' = 5
<1>1. /\ Len(BootOrder) = 5
      /\ BootOrder[1] = "irq_remap" /\ BootOrder[2] = "init_dispatcher"
      /\ BootOrder[3] = "timer" /\ BootOrder[4] = "keyboard"
      /\ BootOrder[5] = "enable_interrupts"
  BY DEF BootOrder
<1>2. booted < 5 => booted \in {0, 1, 2, 3, 4}
  BY <1>1
<1> QED
  BY <1>1, <1>2 DEF BootStep

\* An end of interrupt with one line in service retires that line (irq.C, interrupts.C).
LEMMA RetiredOne == \A x : Retired({x}) = {}
  BY DEF Retired, Min

\* Serving a line and sending its ends of interrupt leaves nothing in service, on either controller.
LEMMA NothingStaysInService ==
    ASSUME NEW n \in Line, in_service = [master |-> {}, slave |-> {}]
    PROVE  EndOfInterrupt(n, InService(n)) = [master |-> {}, slave |-> {}]
<1>1. /\ InService(n).master = {MasterLine(n)}
      /\ InService(n).slave = IF generated_by_slave_PIC(n) THEN {n} ELSE {}
  BY DEF InService
<1> QED
  BY <1>1, RetiredOne DEF EndOfInterrupt

\* Before main starts nothing is in service and no interrupt gets through.
LEMMA InitDispatching == Init => Dispatching
<1> SUFFICES ASSUME Init PROVE Dispatching
  OBVIOUS
<1> USE DEF Init, InterruptsInit
<1>1. irr \subseteq Line /\ in_service \in [master : SUBSET (0..7), slave : SUBSET (8..15)]
  OBVIOUS
<1>2. handler_table \in [0..IRQ_TABLE_SIZE - 1 -> {"timer", "keyboard", NULL}]
  OBVIOUS
<1>3. booted \in 0..Len(BootOrder) /\ booted = 0 /\ ~interrupts_enabled
  BY BootLength
<1>4. InterruptsTypeOK
  BY <1>1, <1>2, <1>3 DEF InterruptsTypeOK
<1> QED
  BY <1>3, <1>4 DEF Dispatching

\* Each step of main finds in place what the later ones rely on.
LEMMA BootDispatching == Dispatching /\ Boot => Dispatching'
<1> SUFFICES ASSUME Dispatching, Boot PROVE Dispatching'
  OBVIOUS
<1> USE InterruptsAssumption DEF Dispatching, InterruptsTypeOK, TimerLine, KeyboardLine,
        IRQ_TABLE_SIZE
<1>1. irr' = irr /\ in_service' = in_service /\ Len(BootOrder) = 5
  BY BootLength DEF Boot, BootStep, picVars
<1>2. CASE BootStep("irq_remap") /\ irq_remap
  BY <1>1, <1>2, BootPositions DEF irq_remap
<1>3. CASE BootStep("init_dispatcher") /\ init_dispatcher
  BY <1>1, <1>3, BootPositions DEF init_dispatcher
<1>4. CASE BootStep("timer") /\ register_handler(TimerLine, "timer")
  BY <1>1, <1>4, BootPositions DEF register_handler
<1>5. CASE BootStep("keyboard") /\ register_handler(KeyboardLine, "keyboard")
  BY <1>1, <1>5, BootPositions DEF register_handler
<1>6. CASE BootStep("enable_interrupts") /\ enable_interrupts
  BY <1>1, <1>6, BootPositions DEF enable_interrupts
<1> QED
  BY <1>2, <1>3, <1>4, <1>5, <1>6 DEF Boot

\* Requests, dispatched interrupts and calls leave what main has set up.
LEMMA NextDispatching == Dispatching /\ [Next]_vars => Dispatching'
<1> SUFFICES ASSUME Dispatching, [Next]_vars PROVE Dispatching'
  OBVIOUS
<1>1. CASE Boot
  BY <1>1, BootDispatching
<1>2. ASSUME NEW n \in Line, Requests(n) PROVE Dispatching'
  BY <1>2 DEF Requests, Raise, tableVars, Dispatching, InterruptsTypeOK
<1>3. ASSUME NEW n \in Line, Interrupt(n) PROVE Dispatching'
  <2>1. /\ UNCHANGED tableVars
        /\ irr' = irr \ {n}
        /\ in_service' = [master |-> {}, slave |-> {}]
    BY <1>3, NothingStaysInService
       DEF Interrupt, TimerInterrupt, KeyboardInterrupt, UncapturedInterrupt,
           dispatch_interrupt, Dispatching
  <2> QED
    BY <2>1 DEF tableVars, Dispatching, InterruptsTypeOK
<1>4. CASE UNCHANGED interruptVars
  BY <1>4 DEF interruptVars, picVars, tableVars, Dispatching, InterruptsTypeOK
<1> QED
  BY <1>1, <1>2, <1>3, <1>4, DevicesAssumption
     DEF Next, TimerFires, KeyArrives, OtherRaises, Others, CallSome, CallGoesOn, Spin, vars

\* In every reachable state, for any set of lines.
THEOREM AlwaysDispatching == Spec => []Dispatching
  BY InitDispatching, NextDispatching, PTL DEF Spec

\* Whatever lines have been served, in whatever order and by whichever controller, no
\* request waits behind an interrupt whose handler has returned (dispatch_interrupt).
THEOREM RequestsAlwaysPass == Spec => []RequestsPass
<1>1. Dispatching => RequestsPass
  BY DEF Dispatching, RequestsPass, Passes
<1> QED
  BY <1>1, AlwaysDispatching, PTL

\* A timer or keyboard request that has waited since before interrupts were enabled finds
\* its handler, as does every later one (main of P4/kernel.C).
THEOREM HandlersAreThere == Spec => NoUncaptured
<1> DEFINE Captured == \A n \in {TimerLine, KeyboardLine} : ~UncapturedInterrupt(n)
<1>1. ASSUME Dispatching, NEW n \in {TimerLine, KeyboardLine}
      PROVE  ~UncapturedInterrupt(n)
  <2>1. UncapturedInterrupt(n) => interrupts_enabled /\ Handler(n) = NULL
    BY DEF UncapturedInterrupt, dispatch_interrupt, Accepted
  <2>2. interrupts_enabled => Handler(n) = handler_table[n] /\ handler_table[n] # NULL
    BY SMTT(30), <1>1, InterruptsAssumption
       DEF Dispatching, InterruptsTypeOK, Handler, Vector, generated_by_slave_PIC, IRQ_BASE,
           IRQ_TABLE_SIZE, TimerLine, KeyboardLine
  <2> QED
    BY <2>1, <2>2
<1>2. Dispatching => Captured
  BY <1>1
<1>3. Spec => [][Captured]_vars
  BY <1>2, AlwaysDispatching, PTL
<1> QED
  BY <1>3 DEF NoUncaptured

-----------------------------------------------------------------------------
(* Each step of a call stays in its operation or returns.                  *)

\* putch goes on in putch or returns; the fields it branches on are its own.
LEMMA PutchStepStays ==
    ASSUME InOneCall, PutchStep
    PROVE  /\ pc \in PutchStepsAt /\ pc' \in PutchStepsAt \cup {"idle"}
           /\ pc' \in PutchStepsAt => "next" \in DOMAIN loc' /\ loc'.next \in {"wrap", "scroll"}
<1> USE DEF InOneCall, PutchStepsAt, Go, Step, Return, Load, SetX, Printing
<1>1. CASE Backspace \/ Tab \/ CarriageReturn \/ Newline
  BY <1>1 DEF Backspace, Tab, CarriageReturn, Newline
<1>2. CASE WhereRow \/ WhereColumn \/ Ink
  BY <1>2 DEF WhereRow, WhereColumn, Ink
<1>3. CASE LoadX \/ StoreX \/ Wrap \/ Margin
  BY <1>3 DEF LoadX, StoreX, Wrap, Margin
<1>4. CASE LoadRow \/ StoreRow \/ NoScroll \/ Scroll
  BY <1>4 DEF LoadRow, StoreRow, NoScroll, Scroll
<1>5. CASE Temp \/ Copy \/ Clear \/ LastRow
  BY <1>5 DEF Temp, Copy, Clear, LastRow
<1> QED
  BY <1>1, <1>2, <1>3, <1>4, <1>5 DEF PutchStep

\* So do read() and wait() of the keyboard.
LEMMA KeyboardStepStays ==
    ASSUME KeyboardStep
    PROVE  pc \in KeyboardStepsAt /\ pc' \in KeyboardStepsAt \cup {"idle"}
  BY DEF KeyboardStep, ClearKey, PollKey, ReadCode, Step, Go, Return, KeyboardStepsAt

\* And current() and wait() of the timer.
LEMMA TimerStepStays ==
    ASSUME InOneCall, Counting, TimerStep
    PROVE  /\ pc \in TimerStepsAt /\ pc' \in TimerStepsAt \cup {"idle"}
           /\ pc' \in TimerStepsAt => loc' \in TimerLocals
<1>1. ticks \in Nat
  BY DEF Counting
<1> QED
  BY <1>1 DEF TimerStep, ReadSeconds, ReadTicks, TestSeconds, TestTicks, Step, Go, Return,
              TimerStepsAt, InOneCall, Counting, TimerLocals

\* A call of the timer starts by reading the seconds.
LEMMA TimerCallStarts ==
    ASSUME Counting, TimerCall
    PROVE  /\ pc' = "read_seconds"
           /\ loc' \in TimerLocals /\ loc'.called = elapsed
           /\ UNCHANGED timerVars
  BY TimerAssumption
     DEF TimerCall, CallCurrent, CallWait, CallTimer, Call, Go, TimerLocals, Counting

\* The caller is in one operation at a time, with that operation's locals.
LEMMA NextInOneCall == InOneCall /\ Counting /\ [Next]_vars => InOneCall'
<1> SUFFICES ASSUME InOneCall, Counting, [Next]_vars PROVE InOneCall'
  OBVIOUS
<1>1. CASE CallSome
  <2>1. CASE CallPutch
    BY <2>1 DEF CallPutch, Call, Go, InOneCall, TimerStepsAt, KeyboardStepsAt, PutchStepsAt
  <2>2. CASE TimerCall
    BY <2>2, TimerCallStarts DEF InOneCall, TimerStepsAt, KeyboardStepsAt, PutchStepsAt
  <2>3. CASE CallKeyboard
    BY <2>3 DEF CallKeyboard, Call, Go, InOneCall, TimerStepsAt, KeyboardStepsAt, PutchStepsAt
  <2> QED
    BY <1>1, <2>1, <2>2, <2>3 DEF CallSome
<1>2. CASE CallGoesOn
  <2>1. CASE PutchStep
    BY <2>1, PutchStepStays DEF InOneCall, TimerStepsAt, KeyboardStepsAt, PutchStepsAt
  <2>2. CASE TimerStep
    BY <2>2, TimerStepStays DEF InOneCall, TimerStepsAt, KeyboardStepsAt, PutchStepsAt
  <2>3. CASE KeyboardStep
    BY <2>3, KeyboardStepStays DEF InOneCall, TimerStepsAt, KeyboardStepsAt, PutchStepsAt
  <2> QED
    BY <1>2, <2>1, <2>2, <2>3 DEF CallGoesOn
<1>3. CASE UNCHANGED callerVars
  BY <1>3 DEF callerVars, InOneCall
<1> QED
  BY <1>1, <1>2, <1>3
     DEF Next, Boot, TimerFires, KeyArrives, OtherRaises, Requests, Interrupt, TimerInterrupt,
         KeyboardInterrupt, UncapturedInterrupt, Spin, vars

-----------------------------------------------------------------------------
(* The timer.                                                              *)

\* Products with the interrupt rate: one second more, and no second less.
LEMMA SecondsToTicks ==
    ASSUME NEW a \in Nat, NEW b \in Nat
    PROVE  /\ a * hz \in Nat
           /\ (a + 1) * hz = a * hz + hz
           /\ a <= b => a * hz <= b * hz
  BY TimerAssumption

\* handle_interrupt counts one interrupt, whether a second is over or not.
LEMMA TimerHandlerCounts ==
    ASSUME Counting, TimerHandler
    PROVE  Counting' /\ elapsed' = elapsed + 1 /\ seconds' >= seconds
<1> USE TimerAssumption DEF Counting, TimerHandler, SecondOver
<1>1. CASE SecondOver
  <2>1. ticks = hz - 1 /\ ticks' = 0 /\ seconds' = seconds + 1
    BY <1>1
  <2>2. (seconds + 1) * hz = seconds * hz + hz /\ seconds * hz \in Nat
    BY SecondsToTicks
  <2> QED
    BY <2>1, <2>2
<1>2. CASE ~SecondOver
  <2>1. ticks' = ticks + 1 /\ seconds' = seconds /\ ticks + 1 < hz
    BY <1>2
  <2>2. seconds * hz \in Nat
    BY SecondsToTicks
  <2> QED
    BY <2>1, <2>2
<1> QED
  BY <1>1, <1>2

\* Nobody but the handler writes what the timer counts.
LEMMA CountingKept == Counting /\ UNCHANGED timerVars => Counting'
<1> SUFFICES ASSUME Counting, UNCHANGED timerVars PROVE Counting'
  OBVIOUS
<1>1. seconds' = seconds /\ ticks' = ticks /\ elapsed' = elapsed
  BY DEF timerVars
<1> QED
  BY <1>1, Zenon DEF Counting

\* What a reading of the clock rests on.
Clock == InOneCall /\ Counting /\ Reading

\* In a reading, the seconds were taken at the call or later.
LEMMA TimerStepReading ==
    ASSUME Clock, TimerStep
    PROVE  Reading'
<1>1. UNCHANGED timerVars /\ pc \in TimerStepsAt /\ loc \in TimerLocals /\ loc.called <= elapsed
  BY TimerStepStays
     DEF Clock, InOneCall, Reading, TimerStep, ReadSeconds, ReadTicks, TestSeconds, TestTicks
<1>2. CASE ReadSeconds
  <2>1. pc' = "read_ticks" /\ loc' = [loc EXCEPT !.seconds = seconds]
    BY <1>2 DEF ReadSeconds, Go
  <2>2. loc'.called = loc.called /\ loc'.seconds = seconds /\ loc.called \in Nat
    BY <1>1, <2>1 DEF TimerLocals
  <2>3. loc.called - hz < seconds * hz
    <3>1. seconds * hz \in Nat
      BY SecondsToTicks DEF Clock, Counting
    <3> QED
      BY <1>1, <2>2, <3>1, TimerAssumption DEF Clock, Counting
  <2> QED
    BY <1>1, <2>1, <2>2, <2>3 DEF Reading, timerVars, Clock, Counting
<1>3. CASE ReadTicks \/ TestSeconds \/ TestTicks
  <2>1. pc' # "read_ticks"
    BY <1>3 DEF ReadTicks, TestSeconds, TestTicks, Go, Step, Return
  <2>2. pc' \in TimerStepsAt => loc'.called = loc.called
    BY <1>1, <1>3
       DEF ReadTicks, TestSeconds, TestTicks, Go, Step, Return, TimerLocals, TimerStepsAt
  <2> QED
    BY <1>1, <2>1, <2>2 DEF Reading, timerVars
<1> QED
  BY <1>2, <1>3 DEF TimerStep

\* Interrupts make the clock go on, calls only read it.
LEMMA NextClock == Clock /\ [Next]_vars => Clock'
<1> SUFFICES ASSUME Clock, [Next]_vars PROVE Clock'
  OBVIOUS
<1>1. InOneCall'
  BY NextInOneCall DEF Clock
<1>2. ASSUME NEW n \in Line, TimerInterrupt(n) PROVE Clock'
  <2>1. Counting' /\ elapsed' = elapsed + 1 /\ seconds' >= seconds /\ UNCHANGED callerVars
    BY <1>2, TimerHandlerCounts DEF TimerInterrupt, Clock
  <2>2. pc \in TimerStepsAt => loc.called \in Nat /\ loc.seconds \in Nat
    BY DEF Clock, InOneCall, TimerLocals
  <2>3. elapsed \in Nat /\ seconds \in Nat /\ seconds' \in Nat /\ "read_ticks" \in TimerStepsAt
    BY <2>1 DEF Clock, Counting, TimerStepsAt
  <2> QED
    BY <1>1, <2>1, <2>2, <2>3 DEF Clock, Reading, callerVars
<1>3. CASE CallSome
  <2>1. UNCHANGED timerVars
    BY <1>3, TimerCallStarts DEF CallSome, Clock
  <2>2. pc' \in TimerStepsAt => pc' = "read_seconds" /\ loc'.called = elapsed
    BY <1>3, TimerCallStarts
       DEF CallSome, CallPutch, CallKeyboard, Call, Go, TimerStepsAt, Clock
  <2>3. elapsed' = elapsed /\ elapsed \in Nat /\ "read_ticks" \in TimerStepsAt
    BY <2>1 DEF timerVars, Clock, Counting, TimerStepsAt
  <2> QED
    BY <1>1, <2>1, <2>2, <2>3, CountingKept DEF Clock, Reading
<1>4. CASE CallGoesOn
  <2>1. UNCHANGED timerVars
    BY <1>4 DEF CallGoesOn, TimerStep, ReadSeconds, ReadTicks, TestSeconds, TestTicks
  <2>2. CASE TimerStep
    BY <1>1, <2>1, <2>2, TimerStepReading, CountingKept DEF Clock
  <2>3. CASE PutchStep \/ KeyboardStep
    <3>1. pc' \notin TimerStepsAt
      BY <2>3, PutchStepStays, KeyboardStepStays
         DEF Clock, TimerStepsAt, KeyboardStepsAt, PutchStepsAt
    <3> QED
      BY <1>1, <2>1, <3>1, CountingKept DEF Clock, Reading, TimerStepsAt
  <2> QED
    BY <1>4, <2>2, <2>3 DEF CallGoesOn
<1>5. CASE UNCHANGED <<callerVars, timerVars>>
  <2>1. Reading'
    BY <1>5, Zenon DEF callerVars, timerVars, Clock, Reading
  <2> QED
    BY <1>1, <1>5, <2>1, CountingKept DEF Clock
<1> QED
  BY <1>2, <1>3, <1>4, <1>5
     DEF Next, Boot, TimerFires, KeyArrives, OtherRaises, Requests, Interrupt,
         KeyboardInterrupt, UncapturedInterrupt, Spin, vars

\* No tick has been counted and no call made.
LEMMA InitClock == Init => Clock
  BY TimerAssumption
     DEF Init, CallerInit, TimerInit, Clock, InOneCall, Counting, Reading,
         TimerStepsAt, PutchStepsAt

\* In every reachable state, whatever the interrupt rate.
THEOREM AlwaysClock == Spec => []Clock
  BY InitClock, NextClock, PTL DEF Spec

\* A reading of current(), whose two fields are read apart with interrupts in between, is
\* not after its return and less than a second before its call, whatever the rate hz
\* (simple_timer.C:70-97).
THEOREM ReadingsWithinASecond == Spec => ReadingWithinASecond
<1> DEFINE Within == ReadTicks => LET reading == loc.seconds * hz + ticks
                                  IN  loc.called - hz < reading /\ reading <= elapsed
<1>1. Clock => Within
  <2> SUFFICES ASSUME Clock, ReadTicks
               PROVE  LET reading == loc.seconds * hz + ticks
                      IN  loc.called - hz < reading /\ reading <= elapsed
    OBVIOUS
  <2>1. /\ loc.called - hz < loc.seconds * hz /\ loc.seconds <= seconds
        /\ loc.seconds \in Nat /\ loc.called \in Nat
    BY DEF ReadTicks, Clock, InOneCall, Reading, TimerStepsAt, TimerLocals
  <2>2. loc.seconds * hz <= seconds * hz /\ loc.seconds * hz \in Nat /\ seconds * hz \in Nat
    BY <2>1, SecondsToTicks DEF Clock, Counting
  <2> QED
    BY <2>1, <2>2, TimerAssumption DEF Clock, Counting
<1>2. Spec => [][Within]_vars
  BY <1>1, AlwaysClock, PTL
<1> QED
  BY <1>2 DEF ReadingWithinASecond

-----------------------------------------------------------------------------
(* The keyboard.                                                           *)

\* The handler stores a code of a key that went down, and that key counts as typed.
LEMMA KeyboardHandlerFresh ==
    ASSUME FreshKey, KeyboardHandler, UNCHANGED callerVars
    PROVE  FreshKey'
<1>1. pc' = pc
  BY DEF callerVars
<1>2. CASE buffer # NoByte /\ buffer >= 0
  <2>1. key_pressed' \in BOOLEAN /\ key_code' \in typed'
    BY <1>2 DEF KeyboardHandler
  <2> QED
    BY <2>1 DEF FreshKey
<1>3. CASE ~(buffer # NoByte /\ buffer >= 0)
  <2>1. UNCHANGED <<key_pressed, key_code, typed>>
    BY <1>3 DEF KeyboardHandler
  <2> QED
    BY <1>1, <2>1 DEF FreshKey
<1> QED
  BY <1>2, <1>3

\* A call forgets what was pressed before it polls, so the key it sees is a new one.
LEMMA KeyboardStepFresh ==
    ASSUME FreshKey, KeyboardStep
    PROVE  FreshKey'
<1> USE DEF Step, Go, Return
<1>1. CASE ClearKey
  <2>1. pc' = "poll_key" /\ key_pressed' = FALSE
    BY <1>1 DEF ClearKey
  <2> QED
    BY <2>1 DEF FreshKey
<1>2. CASE PollKey
  <2>1. UNCHANGED <<key_pressed, key_code, typed>> /\ pc = "poll_key"
    BY <1>2 DEF PollKey, keyboardVars
  <2>2. (~key_pressed /\ pc' = "poll_key") \/ (key_pressed /\ pc' # "poll_key")
    BY <1>2 DEF PollKey
  <2> QED
    BY <2>1, <2>2 DEF FreshKey
<1>3. CASE ReadCode
  <2>1. pc' = "idle" /\ key_pressed' = key_pressed
    BY <1>3 DEF ReadCode, keyboardVars
  <2> QED
    BY <2>1 DEF FreshKey
<1> QED
  BY <1>1, <1>2, <1>3 DEF KeyboardStep

\* Other interrupts and calls do not touch the key.
LEMMA NextFreshKey == InOneCall /\ FreshKey /\ [Next]_vars => FreshKey'
<1> SUFFICES ASSUME InOneCall, FreshKey, [Next]_vars PROVE FreshKey'
  OBVIOUS
<1>1. ASSUME NEW n \in Line, KeyboardInterrupt(n) PROVE FreshKey'
  BY <1>1, KeyboardHandlerFresh DEF KeyboardInterrupt
<1>2. CASE KeyArrives
  BY <1>2 DEF KeyArrives, Requests, KeyboardSends, callerVars, FreshKey
<1>3. CASE CallSome
  <2>1. pc' \notin {"poll_key", "read_code"} /\ key_pressed' = key_pressed
    BY <1>3 DEF CallSome, CallPutch, TimerCall, CallCurrent, CallWait, CallTimer, CallKeyboard,
                Call, Go, keyboardVars
  <2> QED
    BY <2>1 DEF FreshKey
<1>4. CASE CallGoesOn
  <2>1. CASE KeyboardStep
    BY <2>1, KeyboardStepFresh
  <2>2. CASE PutchStep /\ UNCHANGED keyboardVars
    BY <2>2, PutchStepStays DEF FreshKey, PutchStepsAt, keyboardVars
  <2>3. CASE TimerStep /\ UNCHANGED keyboardVars
    BY <2>3 DEF FreshKey, keyboardVars, TimerStep, ReadSeconds, ReadTicks, TestSeconds,
                TestTicks, Go, Step, Return
  <2> QED
    BY <1>4, <2>1, <2>2, <2>3 DEF CallGoesOn
<1>5. CASE UNCHANGED <<callerVars, keyboardVars>>
  BY <1>5 DEF callerVars, keyboardVars, FreshKey
<1> QED
  BY <1>1, <1>2, <1>3, <1>4, <1>5
     DEF Next, Boot, TimerFires, OtherRaises, Requests, Interrupt, TimerInterrupt,
         UncapturedInterrupt, Spin, vars

\* In every reachable state, whatever keys there are.
THEOREM AlwaysFreshKey == Spec => []FreshKey
<1>1. Init => FreshKey
  BY DEF Init, CallerInit, KeyboardInit, FreshKey
<1>2. Clock => InOneCall
  BY DEF Clock
<1> QED
  BY <1>1, <1>2, NextFreshKey, AlwaysClock, PTL DEF Spec

\* read() returns the code of a key that went down during the call: neither one pressed
\* before it nor a release, wherever in the call the interrupts fall
\* (simple_keyboard.C, read and handle_interrupt).
THEOREM ReadsAreFresh == Spec => ReadReturnsFreshKey
<1>1. FreshKey => (ReadCode => key_code \in typed)
  BY DEF FreshKey, ReadCode, Return, Go
<1>2. Spec => [][ReadCode => key_code \in typed]_vars
  BY <1>1, AlwaysFreshKey, PTL
<1> QED
  BY <1>2 DEF ReadReturnsFreshKey

-----------------------------------------------------------------------------
(* What a handler prints: puts, character by character.                    *)

\* A set of naturals has a least element.
LEMMA SomeLeast ==
    ASSUME NEW S \in SUBSET Nat, S # {}
    PROVE  \E x \in S : \A y \in S : x <= y
<1> DEFINE R == OpToRel(<, Nat)
<1>1. IsWellFoundedOn(R, Nat)
  BY NatLessThanWellFounded
<1>2. \A x, y \in S : <<x, y>> \in R <=> x < y
  BY DEF OpToRel
<1> HIDE DEF R
<1>3. PICK m \in S : \A y \in S : ~(<<y, m>> \in R)
  BY <1>1, WFMin
<1>4. \A y \in S : ~(y < m)
  BY <1>2, <1>3
<1> QED
  BY <1>4

\* What the first of a row of states has and each passes on to the next, the last has.
LEMMA PassedOn ==
    ASSUME NEW n \in Nat, NEW h, NEW Good, h[0] \in Good,
           \A i \in 1..n : h[i - 1] \in Good => h[i] \in Good
    PROVE  h[n] \in Good
<1> DEFINE Bad == {i \in 0..n : h[i] \notin Good}
<1>1. SUFFICES ASSUME n \in Bad PROVE FALSE
  OBVIOUS
<1>2. PICK m \in Bad : \A y \in Bad : m <= y
  <2> HIDE DEF Bad
  <2>1. Bad \subseteq Nat
    BY DEF Bad
  <2> QED
    BY <1>1, <2>1, SomeLeast
<1>3. m # 0
  OBVIOUS
<1>4. m - 1 \in 0..n /\ m \in 1..n /\ ~(m <= m - 1)
  BY <1>3
<1>5. h[m - 1] \in Good
  BY <1>2, <1>4
<1> QED
  BY <1>4, <1>5

\* A set of some of the first positions has a last one.
LEMMA MaxIn ==
    ASSUME NEW n \in Nat, NEW t \in SUBSET (1..n), t # {}
    PROVE  Max(t) \in t
<1> DEFINE S == {n - x : x \in t}
<1>1. PICK y \in S : \A z \in S : y <= z
  <2>1. \A x \in t : n - x \in Nat
    OBVIOUS
  <2>2. S \subseteq Nat
    BY <2>1
  <2>3. S # {}
    OBVIOUS
  <2> HIDE DEF S
  <2> QED
    BY <2>2, <2>3, SomeLeast
<1>2. PICK x \in t : y = n - x
  OBVIOUS
<1>3. \A z \in t : x >= z
  <2> TAKE z \in t
  <2>1. y <= n - z
    BY <1>1
  <2> QED
    BY <1>2, <2>1
<1> QED
  BY <1>3 DEF Max

\* The largest of the first positions is the last of them.
LEMMA LastIsMax ==
    ASSUME NEW n \in Nat, NEW t \in SUBSET (1..n), n \in t
    PROVE  Max(t) = n
<1>1. \A x \in t : x \in Nat /\ x <= n
  OBVIOUS
<1>2. n \in t /\ \A y \in t : n >= y
  BY <1>1
<1>3. \A x \in t : (\A y \in t : x >= y) => x = n
  BY <1>1
<1> QED
  BY <1>2, <1>3 DEF Max

\* g runs a fold over the first positions of s, the highest last.
FoldsFrom(g, base, step, s, n) ==
    \A t \in SUBSET (1..n) :
        g[t] = IF t = {} THEN base ELSE step[<<g[t \ {Max(t)}], s[Max(t)]>>]

\* A row of states can be built from the first one and what comes next, over the sets a
\* fold runs through.
LEMMA FoldExists ==
    ASSUME NEW S, NEW E, NEW step, \A a \in S, b \in E : step[<<a, b>>] \in S,
           NEW base \in S, NEW n \in Nat, NEW s, \A i \in 1..n : s[i] \in E
    PROVE  \E g \in [SUBSET (1..n) -> S] : FoldsFrom(g, base, step, s, n)
<1> DEFINE Good == {m \in 0..n : \E g \in [SUBSET (1..m) -> S] : FoldsFrom(g, base, step, s, m)}
           h == [i \in 0..n |-> i]
<1>1. h[0] \in Good
  <2> DEFINE g == [t \in SUBSET (1..0) |-> base]
  <2>1. \A t \in SUBSET (1..0) : t = {}
    OBVIOUS
  <2>2. g \in [SUBSET (1..0) -> S]
    OBVIOUS
  <2>3. FoldsFrom(g, base, step, s, 0)
    BY <2>1 DEF FoldsFrom
  <2> HIDE DEF g
  <2>4. 0 \in 0..n
    OBVIOUS
  <2>5. 0 \in Good
    BY <2>2, <2>3, <2>4
  <2> QED
    BY <2>5
<1>2. ASSUME NEW i \in 1..n, h[i - 1] \in Good PROVE h[i] \in Good
  <2>1. i - 1 \in 0..n /\ h[i - 1] = i - 1 /\ h[i] = i /\ i \in 0..n
    OBVIOUS
  <2> DEFINE k == i - 1
  <2>2. PICK f \in [SUBSET (1..k) -> S] : FoldsFrom(f, base, step, s, k)
    BY <1>2, <2>1
  <2> DEFINE g == [t \in SUBSET (1..i) |->
                       IF i \in t THEN step[<<f[t \ {i}], s[i]>>] ELSE f[t]]
  <2>3. \A t \in SUBSET (1..i) :
            /\ i \in t => t \ {i} \in SUBSET (1..k) /\ Max(t) = i
            /\ i \notin t => t \in SUBSET (1..k)
    <3> TAKE t \in SUBSET (1..i)
    <3>1. i \in t => Max(t) = i
      BY LastIsMax, <2>1
    <3>2. \A x \in t : x # i => x \in 1..k
      OBVIOUS
    <3> QED
      BY <3>1, <3>2
  <2>4. \A t \in SUBSET (1..k) : t \in SUBSET (1..i) /\ i \notin t /\ g[t] = f[t]
    <3>1. \A x \in 1..k : x \in 1..i /\ x # i
      BY <2>1
    <3> HIDE DEF k
    <3> QED
      BY <3>1
  <2>5. s[i] \in E
    OBVIOUS
  <2>6. g \in [SUBSET (1..i) -> S]
    <3> SUFFICES ASSUME NEW t \in SUBSET (1..i)
                 PROVE  (IF i \in t THEN step[<<f[t \ {i}], s[i]>>] ELSE f[t]) \in S
      OBVIOUS
    <3> HIDE DEF k, g
    <3> QED
      BY <2>2, <2>3, <2>5
  <2>7. FoldsFrom(g, base, step, s, i)
    <3> SUFFICES ASSUME NEW t \in SUBSET (1..i)
                 PROVE  g[t] = IF t = {} THEN base ELSE step[<<g[t \ {Max(t)}], s[Max(t)]>>]
      BY DEF FoldsFrom
    <3>1. CASE i \in t
      <4>1. g[t] = step[<<f[t \ {i}], s[i]>>] /\ t # {}
        BY <3>1
      <4> HIDE DEF g, k
      <4> QED
        BY <3>1, <4>1, <2>3, <2>4
    <3>2. CASE i \notin t
      <4>1. g[t] = f[t] /\ t \in SUBSET (1..k)
        BY <3>2, <2>3, <2>4
      <4>2. t \ {Max(t)} \in SUBSET (1..k)
        BY <4>1
      <4>3. f[t] = IF t = {} THEN base ELSE step[<<f[t \ {Max(t)}], s[Max(t)]>>]
        BY <2>2, <4>1 DEF FoldsFrom
      <4> HIDE DEF g, k
      <4> QED
        BY <4>1, <4>2, <4>3, <2>4
    <3> QED
      BY <3>1, <3>2
  <2> HIDE DEF g
  <2>8. i \in Good
    BY <2>1, <2>6, <2>7
  <2> QED
    BY <2>1, <2>8
<1>3. h[n] \in Good
  <2> HIDE DEF h, Good
  <2> QED
    BY <1>1, <1>2, PassedOn
<1>4. h[n] = n
  OBVIOUS
<1>5. n \in Good
  <2> HIDE DEF h, Good
  <2> QED
    BY <1>3, <1>4
<1> QED
  BY <1>5

\* The sets the fold of a sequence runs through.
LEMMA FirstPositions ==
    ASSUME NEW n \in Nat, NEW i \in 1..n
    PROVE  /\ 1..i \in SUBSET (1..n) /\ 1..i # {} /\ Max(1..i) = i
           /\ (1..i) \ {i} = 1..i - 1
<1>1. i \in Nat /\ 1..i \in SUBSET (1..i) /\ i \in 1..i
  OBVIOUS
<1>2. Max(1..i) = i
  BY <1>1, LastIsMax
<1>3. \A x : x \in (1..i) \ {i} <=> x \in 1..i - 1
  OBVIOUS
<1>4. (1..i) \ {i} = 1..i - 1
  BY <1>3
<1>5. \A x : x \in 1..i => x \in 1..n
  OBVIOUS
<1>6. 1..i \in SUBSET (1..n) /\ 1..i # {}
  BY <1>1, <1>5
<1> QED
  BY <1>2, <1>4, <1>6

\* Numbers of rows and columns.
LEMMA ScreenSize ==
    /\ ROWS \in Nat \ {0} /\ COLS \in Nat \ {0}
    /\ \A a, b \in Int : a <= b => a * COLS \in Int /\ b * COLS \in Int /\ a * COLS <= b * COLS
    /\ \A a, b \in Int : (a + b) * COLS = a * COLS + b * COLS
    /\ \A a, b \in Int : (a - b) * COLS = a * COLS - b * COLS
  BY ConsoleAssumption

\* What scroll copies comes from the screen.
LEMMA CopiedFromScreen ==
    ASSUME NEW temp \in Nat, NEW i \in RowsFrom(0, ROWS - temp)
    PROVE  /\ temp * COLS \in Nat /\ i + temp * COLS \in Cell
           /\ i + temp * COLS \in RowsFrom(0, ROWS)
<1> USE ScreenSize
<1>1. i \in Int /\ 0 <= i /\ i < (ROWS - temp) * COLS
  BY DEF RowsFrom
<1>2. (ROWS - temp) * COLS = ROWS * COLS - temp * COLS /\ temp * COLS \in Nat
  OBVIOUS
<1>3. ROWS * COLS \in Nat /\ (ROWS + 2) * COLS = ROWS * COLS + 2 * COLS
  OBVIOUS
<1> QED
  BY <1>1, <1>2, <1>3 DEF RowsFrom, Cell

LEMMA ScrollTypes ==
    ASSUME NEW text \in [Cell -> Contents], NEW temp \in Nat
    PROVE  Copied(text, temp) \in [Cell -> Contents] /\ Cleared(text, temp) \in [Cell -> Contents]
<1>1. \A i \in Cell : i \in RowsFrom(0, ROWS - temp) => i + temp * COLS \in Cell
  BY CopiedFromScreen
<1>2. Blank \in Contents
  BY DEF Contents
<1>3. Copied(text, temp) \in [Cell -> Contents]
  BY <1>1 DEF Copied
<1>4. Cleared(text, temp) \in [Cell -> Contents]
  BY <1>2 DEF Cleared
<1> QED
  BY <1>3, <1>4

\* What handlers print.
Output == Printable \cup {"newline"}

\* Every printed character brings the console from one state to another.
LEMMA PutCloses == \A c \in ConsoleState, char \in Output : Put(c, char) \in ConsoleState
<1>1. \A c \in ConsoleState, char \in Output : Moved(c, char) \in ConsoleState
  <2> TAKE c \in ConsoleState, char \in Output
  <2>1. /\ c.csr_x \in Int /\ c.csr_y \in Int /\ c.text \in [Cell -> Contents]
        /\ c = [csr_x |-> c.csr_x, csr_y |-> c.csr_y, text |-> c.text]
    BY DEF ConsoleState
  <2>2. char # "newline" =>
            [c.text EXCEPT ![c.csr_y * COLS + c.csr_x] = char] \in [Cell -> Contents]
    BY <2>1 DEF Output, Contents
  <2> QED
    BY <2>1, <2>2 DEF Moved, ConsoleState
<1>2. \A c \in ConsoleState : Wrapped(c) \in ConsoleState
  BY DEF Wrapped, ConsoleState
<1>3. \A c \in ConsoleState : Scrolled(c) \in ConsoleState
  <2> TAKE c \in ConsoleState
  <2> DEFINE temp == c.csr_y - ROWS + 1
  <2>1. c.csr_x \in Int /\ c.csr_y \in Int /\ c.text \in [Cell -> Contents] /\ ROWS - 1 \in Int
    BY ScreenSize DEF ConsoleState
  <2>2. ScrollNeeded(c.csr_y) => Cleared(Copied(c.text, temp), temp) \in [Cell -> Contents]
    <3>1. ScrollNeeded(c.csr_y) => temp \in Nat
      BY <2>1, ScreenSize DEF ScrollNeeded
    <3> HIDE DEF temp
    <3> QED
      BY <2>1, <3>1, ScrollTypes
  <2> QED
    BY <2>1, <2>2 DEF Scrolled, ConsoleState
<1> QED
  BY <1>1, <1>2, <1>3 DEF Put

\* puts prints one character after the other.
LEMMA PutsOneByOne ==
    ASSUME NEW c \in ConsoleState, NEW s \in Seq(Output)
    PROVE  \E h : /\ h[0] = c /\ h[Len(s)] = FoldLeft(Put, c, s)
                  /\ \A i \in 1..Len(s) : h[i] = Put(h[i - 1], s[i])
<1> DEFINE n == Len(s)
           step == [p \in ConsoleState \X Output |-> Put(p[1], p[2])]
           Eq(g) == g = [t \in SUBSET DOMAIN s |->
                          IF t = {} THEN c ELSE Put(g[t \ {Max(t)}], s[Max(t)])]
           iter == CHOOSE g : Eq(g)
           h == [i \in 0..n |-> iter[1..i]]
<1>1. n \in Nat /\ DOMAIN s = 1..n /\ \A i \in 1..n : s[i] \in Output
  OBVIOUS
<1>2. FoldLeft(Put, c, s) = iter[DOMAIN s]
  BY DEF FoldLeft, MapThenFoldSet
<1>3. \A a \in ConsoleState, b \in Output : step[<<a, b>>] = Put(a, b)
  OBVIOUS
<1>10. \A a \in ConsoleState, b \in Output : step[<<a, b>>] \in ConsoleState
  BY <1>3, PutCloses
<1>4. PICK g \in [SUBSET (1..n) -> ConsoleState] : FoldsFrom(g, c, step, s, n)
  <2>1. \A i \in 1..n : s[i] \in Output
    BY <1>1
  <2> HIDE DEF step, n, iter, h, Eq
  <2> QED
    BY <1>1, <2>1, <1>10, FoldExists
<1>5. Eq(g)
  <2> SUFFICES ASSUME NEW t \in SUBSET (1..n)
               PROVE  g[t] = IF t = {} THEN c ELSE Put(g[t \ {Max(t)}], s[Max(t)])
    BY <1>1
  <2>1. CASE t = {}
    BY <1>4, <2>1 DEF FoldsFrom
  <2>2. CASE t # {}
    <3>1. Max(t) \in t /\ t \ {Max(t)} \in SUBSET (1..n)
      BY <1>1, <2>2, MaxIn
    <3>2. g[t \ {Max(t)}] \in ConsoleState /\ s[Max(t)] \in Output
      BY <1>1, <1>4, <3>1
    <3>3. g[t] = step[<<g[t \ {Max(t)}], s[Max(t)]>>]
      BY <1>4, <2>2 DEF FoldsFrom
    <3> QED
      BY <1>3, <2>2, <3>2, <3>3
  <2> QED
    BY <2>1, <2>2
<1>6. Eq(iter)
  BY <1>5
<1>7. /\ iter[{}] = c
      /\ \A t \in SUBSET (1..n) : t # {} => iter[t] = Put(iter[t \ {Max(t)}], s[Max(t)])
  <2> HIDE DEF iter
  <2> QED
    BY <1>1, <1>6
<1>8. h[0] = c /\ h[n] = iter[1..n]
  <2>1. 1..0 = {}
    OBVIOUS
  <2> HIDE DEF iter
  <2> QED
    BY <1>1, <1>7, <2>1
<1>9. ASSUME NEW i \in 1..n PROVE h[i] = Put(h[i - 1], s[i])
  <2>1. h[i] = iter[1..i] /\ h[i - 1] = iter[1..i - 1]
    <3>1. i \in 0..n /\ i - 1 \in 0..n
      BY <1>1
    <3> HIDE DEF iter, n
    <3> QED
      BY <3>1
  <2>2. 1..i \in SUBSET (1..n) /\ 1..i # {} /\ Max(1..i) = i /\ (1..i) \ {i} = 1..i - 1
    <3> HIDE DEF n
    <3> QED
      BY <1>1, FirstPositions
  <2> HIDE DEF iter, n, h
  <2>3. iter[1..i] = Put(iter[(1..i) \ {Max(1..i)}], s[Max(1..i)])
    BY <1>7, <2>2
  <2> QED
    BY <2>1, <2>2, <2>3
<1> HIDE DEF iter, h
<1> QED
  BY <1>1, <1>2, <1>8, <1>9

-----------------------------------------------------------------------------
(* The cursor and the text memory.                                         *)

\* Each operation's steps have that operation's locals; the row putch scrolls from is the
\* last or the one after, whatever is printed in between.
ConsoleTypes ==
    /\ pc = "idle" => loc = NoLocals
    /\ pc \in KeyboardStepsAt => loc \in KeyboardLocals
    /\ pc \in PutchStepsAt => loc \in PutchLocals
    /\ console \in ConsoleState /\ torn \subseteq Char
    /\ pc = "temp" => console.csr_y >= ROWS - 1
    /\ pc \in {"copy", "clear"} => loc.reg \in Nat
    /\ pc \in {"where", "ink"} => loc.char \in Printable

\* On the screen, or a column or a row beyond it, as in the midst of putch.
OnScreen(c) == c.csr_x \in 0..COLS - 1 /\ c.csr_y \in 0..ROWS - 1
ColumnBeyond(c) == c.csr_x \in 0..COLS /\ c.csr_y \in 0..ROWS - 1
RowBeyond(c) == c.csr_x \in 0..COLS - 1 /\ c.csr_y \in 0..ROWS

\* Nothing is stored before the screen or more than a row after it.
Untouched(text) == \A i \in Cell \ RowsFrom(0, ROWS + 1) : text[i] = Elsewhere

ScrollStepsAt == {"scroll", "temp", "copy", "clear", "last_row"}

\* Where the cursor is, and what putch has read of it, by the step that comes next.
Placed ==
    /\ pc = "wrap" => ColumnBeyond(console) \/ RowBeyond(console)
    /\ pc = "margin" => ColumnBeyond(console)
    /\ pc \in ScrollStepsAt => RowBeyond(console)
    /\ pc \notin {"wrap", "margin"} \cup ScrollStepsAt => OnScreen(console)
    /\ pc = "where" => \E row \in 0..ROWS - 1 : loc.reg = row * COLS
    /\ pc = "ink" => loc.reg \in RowsFrom(0, ROWS)
    /\ pc = "load_x" => (loc.char = "backspace" => console.csr_x >= 1)
    /\ pc = "store_x" => loc.reg \in 0..COLS - 1 /\ (loc.char = "backspace" => loc.reg >= 1)
    /\ pc = "store_row" => loc.reg \in 0..ROWS - 1
    /\ pc \in {"copy", "clear"} => loc.reg \in {0, 1}
    /\ Untouched(console.text)

Contained == "backspace" \notin torn => Placed

\* A printed character is stored on the screen or in the row after it.
LEMMA CellOfCursor ==
    ASSUME NEW c \in ConsoleState, ColumnBeyond(c) \/ RowBeyond(c)
    PROVE  c.csr_y * COLS + c.csr_x \in RowsFrom(0, ROWS + 1)
<1> DEFINE x == c.csr_x
           y == c.csr_y
<1>1. x \in Nat /\ y \in Nat /\ ((y <= ROWS - 1 /\ x <= COLS) \/ (y <= ROWS /\ x <= COLS - 1))
  BY ScreenSize DEF ColumnBeyond, RowBeyond
<1> HIDE DEF x, y
<1>2. /\ 0 <= y * COLS /\ y * COLS \in Int
      /\ y <= ROWS - 1 => y * COLS <= (ROWS - 1) * COLS
      /\ y <= ROWS => y * COLS <= ROWS * COLS
  BY <1>1, ScreenSize
<1>3. /\ (ROWS - 1) * COLS = ROWS * COLS - COLS /\ (ROWS + 1) * COLS = ROWS * COLS + COLS
      /\ ROWS * COLS \in Int
  BY ScreenSize
<1>4. y * COLS + x \in 0..(ROWS + 1) * COLS - 1
  BY <1>1, <1>2, <1>3, ScreenSize
<1> QED
  BY <1>4, ScreenSize DEF RowsFrom, x, y

\* Scrolling leaves what is before the screen and after the row behind it.
LEMMA ScrollUntouched ==
    ASSUME NEW text, NEW temp \in 0..ROWS, Untouched(text)
    PROVE  Untouched(Copied(text, temp)) /\ Untouched(Cleared(text, temp))
<1>1. /\ RowsFrom(0, ROWS - temp) \subseteq RowsFrom(0, ROWS + 1)
      /\ RowsFrom(ROWS - temp, 1) \subseteq RowsFrom(0, ROWS + 1)
  <2>1. /\ (ROWS - temp) * COLS \in Int /\ (ROWS + 1) * COLS \in Int
        /\ (ROWS - temp) * COLS <= (ROWS + 1) * COLS
        /\ 0 <= (ROWS - temp) * COLS /\ ((ROWS - temp) + 1) * COLS <= (ROWS + 1) * COLS
        /\ ((ROWS - temp) + 1) * COLS \in Int
    <3>1. ROWS - temp \in Nat /\ ROWS - temp <= ROWS + 1 /\ (ROWS - temp) + 1 <= ROWS + 1
      BY ScreenSize
    <3> DEFINE r == ROWS - temp
    <3>2. r \in Nat /\ r + 1 \in Nat /\ ROWS + 1 \in Nat /\ r <= ROWS + 1 /\ r + 1 <= ROWS + 1
      BY <3>1, ScreenSize
    <3> HIDE DEF r
    <3>3. r * COLS \in Int /\ (ROWS + 1) * COLS \in Int /\ r * COLS <= (ROWS + 1) * COLS
      BY <3>2, ScreenSize
    <3>4. (r + 1) * COLS <= (ROWS + 1) * COLS /\ (r + 1) * COLS \in Int /\ 0 <= r * COLS
      BY <3>2, ScreenSize
    <3> QED
      BY <3>3, <3>4 DEF r
  <2> QED
    BY <2>1, ScreenSize DEF RowsFrom
<1> QED
  BY <1>1 DEF Untouched, Copied, Cleared

\* A printed character moves the cursor to the screen, wherever it has been left for it.
LEMMA PutMoves ==
    ASSUME NEW c \in ConsoleState, NEW char \in Output
    PROVE  /\ c.csr_y >= ROWS - 1 => Put(c, char).csr_y >= ROWS - 1
           /\ ROWS >= 2 /\ (ColumnBeyond(c) \/ RowBeyond(c)) /\ Untouched(c.text)
                  => OnScreen(Put(c, char)) /\ Untouched(Put(c, char).text)
<1> DEFINE d == Wrapped(Moved(c, char))
<1>1. c.csr_x \in Int /\ c.csr_y \in Int /\ c.text \in [Cell -> Contents]
  BY DEF ConsoleState
<1>2. /\ d.csr_x \in Int /\ d.csr_y \in {c.csr_y, c.csr_y + 1}
      /\ c.csr_x \in 0..COLS => d.csr_x \in 0..COLS - 1
      /\ c.csr_x >= COLS => d.csr_y = c.csr_y + 1 \/ char = "newline"
  BY <1>1, ScreenSize DEF Moved, Wrapped
<1>3. (ColumnBeyond(c) \/ RowBeyond(c)) /\ Untouched(c.text) => Untouched(d.text)
  <2>1. d.text = c.text \/ d.text = [c.text EXCEPT ![c.csr_y * COLS + c.csr_x] = char]
    BY DEF Moved, Wrapped
  <2> QED
    BY <1>1, <2>1, CellOfCursor DEF Untouched
<1>4. Put(c, char) = IF d.csr_y >= ROWS
                     THEN [csr_x |-> d.csr_x, csr_y |-> ROWS - 1,
                           text |-> Cleared(Copied(d.text, d.csr_y - ROWS + 1), d.csr_y - ROWS + 1)]
                     ELSE d
  BY DEF Put, Scrolled, ScrollNeeded
<1> HIDE DEF d
<1>5. c.csr_y >= ROWS - 1 => Put(c, char).csr_y >= ROWS - 1
  BY <1>1, <1>2, <1>4, ScreenSize
<1>6. ASSUME ROWS >= 2, ColumnBeyond(c) \/ RowBeyond(c), Untouched(c.text)
      PROVE  OnScreen(Put(c, char)) /\ Untouched(Put(c, char).text)
  <2>1. d.csr_x \in 0..COLS - 1 /\ d.csr_y \in 0..ROWS + 1
    BY <1>2, <1>6, ScreenSize DEF ColumnBeyond, RowBeyond
  <2>2. Untouched(d.text)
    BY <1>3, <1>6
  <2>3. CASE d.csr_y >= ROWS
    <3> DEFINE temp == d.csr_y - ROWS + 1
    <3>1. temp \in 0..ROWS
      BY <2>1, <2>3, <1>6, ScreenSize
    <3> HIDE DEF temp
    <3>2. Untouched(Cleared(Copied(d.text, temp), temp))
      BY <2>2, <3>1, ScrollUntouched
    <3>3. Put(c, char) = [csr_x |-> d.csr_x, csr_y |-> ROWS - 1,
                          text |-> Cleared(Copied(d.text, temp), temp)]
      BY <1>4, <2>3 DEF temp
    <3> QED
      BY <2>1, <3>2, <3>3, ScreenSize DEF OnScreen
  <2>4. CASE ~(d.csr_y >= ROWS)
    BY <1>4, <2>1, <2>2, <2>4, ScreenSize DEF OnScreen
  <2> QED
    BY <2>3, <2>4
<1> QED
  BY <1>5, <1>6

\* Whatever a handler prints, its cursor ends on the screen, and in the last row if it was
\* there or beyond.
LEMMA PutsMove ==
    ASSUME NEW c \in ConsoleState, NEW s \in Seq(Output)
    PROVE  /\ FoldLeft(Put, c, s) \in ConsoleState
           /\ s = <<>> => FoldLeft(Put, c, s) = c
           /\ c.csr_y >= ROWS - 1 => FoldLeft(Put, c, s).csr_y >= ROWS - 1
           /\ /\ ROWS >= 2 /\ (ColumnBeyond(c) \/ RowBeyond(c)) /\ Untouched(c.text)
              /\ s # <<>>
              => OnScreen(FoldLeft(Put, c, s)) /\ Untouched(FoldLeft(Put, c, s).text)
<1> DEFINE n == Len(s)
<1>1. n \in Nat /\ (n = 0 <=> s = <<>>) /\ \A i \in 1..n : s[i] \in Output
  OBVIOUS
<1>2. PICK h : /\ h[0] = c /\ h[n] = FoldLeft(Put, c, s)
               /\ \A i \in 1..n : h[i] = Put(h[i - 1], s[i])
  BY PutsOneByOne
<1> HIDE DEF n
<1>3. h[n] \in ConsoleState
  <2>1. \A i \in 1..n : h[i - 1] \in ConsoleState => h[i] \in ConsoleState
    BY <1>1, <1>2, PutCloses
  <2> QED
    BY <1>1, <1>2, <2>1, PassedOn
<1>4. ASSUME c.csr_y >= ROWS - 1 PROVE h[n].csr_y >= ROWS - 1
  <2> DEFINE Good == {d \in ConsoleState : d.csr_y >= ROWS - 1}
  <2>1. h[0] \in Good
    BY <1>2, <1>4
  <2>2. \A i \in 1..n : h[i - 1] \in Good => h[i] \in Good
    BY <1>1, <1>2, PutCloses, PutMoves
  <2>3. h[n] \in Good
    <3> HIDE DEF Good
    <3> QED
      BY <1>1, <2>1, <2>2, PassedOn
  <2> QED
    BY <2>3
<1>5. ASSUME ROWS >= 2, ColumnBeyond(c) \/ RowBeyond(c), Untouched(c.text), n # 0
      PROVE  OnScreen(h[n]) /\ Untouched(h[n].text)
  <2> DEFINE Good == {d \in ConsoleState : (ColumnBeyond(d) \/ RowBeyond(d)) /\ Untouched(d.text)}
  <2>1. h[0] \in Good
    BY <1>2, <1>5
  <2>2. \A d \in ConsoleState : OnScreen(d) => ColumnBeyond(d)
    BY ScreenSize DEF OnScreen, ColumnBeyond
  <2>3. \A i \in 1..n : h[i - 1] \in Good => h[i] \in Good
    BY <1>1, <1>2, <1>5, <2>2, PutCloses, PutMoves
  <2>4. n - 1 \in Nat /\ n \in 1..n /\ \A i \in 1..n - 1 : i \in 1..n
    BY <1>1, <1>5
  <2>5. h[n - 1] \in Good
    <3>1. \A i \in 1..n - 1 : h[i - 1] \in Good => h[i] \in Good
      <4> HIDE DEF Good
      <4> QED
        BY <2>3, <2>4
    <3> HIDE DEF Good
    <3> QED
      BY <2>1, <2>4, <3>1, PassedOn
  <2>6. h[n] = Put(h[n - 1], s[n]) /\ s[n] \in Output
    BY <1>1, <1>2, <2>4
  <2> QED
    BY <1>5, <2>5, <2>6, PutMoves
<1>6. n = 0 => h[n] = c
  BY <1>2
<1> QED
  BY <1>1, <1>2, <1>3, <1>4, <1>5, <1>6

\* The steps of putch keep the types, the steps' operands with them.
LEMMA PutchTypes == ConsoleTypes /\ PutchStep => ConsoleTypes'
<1> SUFFICES ASSUME ConsoleTypes, PutchStep PROVE ConsoleTypes'
  OBVIOUS
<1> USE DEF Go, Step, Return, Printing
<1>1. /\ pc \in PutchStepsAt
      /\ torn' = torn
      /\ pc' \in PutchStepsAt \cup {"idle"}
      /\ pc' = "idle" => loc' = NoLocals
  BY DEF PutchStep, Backspace, Tab, CarriageReturn, Newline, WhereRow, WhereColumn, Ink, LoadX,
         StoreX, Wrap, Margin, LoadRow, StoreRow, NoScroll, Scroll, Temp, Copy, Clear, LastRow,
         PutchStepsAt, Load, SetX, SetY, SetText, ConsoleTypes, PutchLocals, consoleVars
<1>2. pc' \notin KeyboardStepsAt
  BY <1>1 DEF PutchStepsAt, KeyboardStepsAt
<1>3. /\ loc \in PutchLocals /\ loc.reg \in Int /\ loc.char \in Char
      /\ console.csr_x \in Int /\ console.csr_y \in Int /\ console.text \in [Cell -> Contents]
      /\ console = [csr_x |-> console.csr_x, csr_y |-> console.csr_y, text |-> console.text]
      /\ console \in ConsoleState
  BY <1>1 DEF ConsoleTypes, PutchLocals, ConsoleState
<1>4. \A v \in Int : /\ [loc EXCEPT !.reg = v] \in PutchLocals
                     /\ [loc EXCEPT !.reg = v].reg = v /\ [loc EXCEPT !.reg = v].char = loc.char
  BY <1>3 DEF PutchLocals
<1>5. /\ \A v \in Int : [console EXCEPT !.csr_x = v] \in ConsoleState
      /\ \A v \in Int : [console EXCEPT !.csr_y = v] \in ConsoleState
      /\ \A t \in [Cell -> Contents] : [console EXCEPT !.text = t] \in ConsoleState
  BY <1>3 DEF ConsoleState
<1>6. ASSUME loc' \in PutchLocals \cup {NoLocals}, pc' = "idle" \/ loc' \in PutchLocals,
             console' \in ConsoleState,
             pc' = "temp" => console'.csr_y >= ROWS - 1,
             pc' \in {"copy", "clear"} => loc'.reg \in Nat,
             pc' \in {"where", "ink"} => loc'.char \in Printable
      PROVE  ConsoleTypes'
  <2>1. pc' \in PutchStepsAt => loc' \in PutchLocals
    BY <1>6 DEF PutchStepsAt
  <2>2. torn' \subseteq Char
    BY <1>1 DEF ConsoleTypes
  <2> QED
    BY <1>1, <1>2, <1>6, <2>1, <2>2 DEF ConsoleTypes
<1>7. CASE Backspace \/ Tab \/ Wrap \/ NoScroll
  <2>1. /\ console' = console /\ loc' \in {loc, NoLocals}
        /\ pc' \in {"load_x", "wrap", "margin", "scroll", "idle"}
        /\ pc' = "idle" \/ loc' = loc
    BY <1>7 DEF Backspace, Tab, Wrap, NoScroll, consoleVars
  <2> QED
    BY <1>3, <1>6, <2>1
<1>8. CASE CarriageReturn \/ Newline \/ StoreX
  <2>1. TabStop(loc.reg) \in Int
    BY <1>3, ConsoleAssumption DEF TabStop
  <2>2. \E v \in Int : console' = [console EXCEPT !.csr_x = v]
    BY <1>3, <1>8, <2>1 DEF CarriageReturn, Newline, StoreX, SetX
  <2> QED
    BY <1>3, <1>5, <1>6, <1>8, <2>2 DEF CarriageReturn, Newline, StoreX, SetX
<1>9. CASE WhereRow \/ WhereColumn \/ LoadX \/ LoadRow
  <2>1. console.csr_y * COLS \in Int /\ loc.reg + console.csr_x \in Int
    BY <1>3, ScreenSize
  <2>2. \E v \in Int : loc' = [loc EXCEPT !.reg = v]
    BY <1>3, <1>9, <2>1 DEF WhereRow, WhereColumn, LoadX, LoadRow, Load
  <2>3. console' = console /\ pc' \in {"where", "ink", "store_x", "store_row"}
    BY <1>9 DEF WhereRow, WhereColumn, LoadX, LoadRow, Load, consoleVars
  <2>4. pc' \in {"where", "ink"} => loc.char \in Printable
    BY <1>9 DEF WhereRow, WhereColumn, LoadX, LoadRow, Load, ConsoleTypes
  <2> QED
    BY <1>3, <1>4, <1>6, <2>2, <2>3, <2>4
<1>10. CASE Ink
  <2>1. pc = "ink" /\ pc' = "load_x" /\ loc' = loc
    BY <1>10 DEF Ink
  <2>2. loc.char \in Contents
    BY <2>1 DEF ConsoleTypes, Contents
  <2>3. [console.text EXCEPT ![loc.reg] = loc.char] \in [Cell -> Contents]
    BY <1>3, <2>2
  <2>4. console' = [console EXCEPT !.text = [console.text EXCEPT ![loc.reg] = loc.char]]
    BY <1>10 DEF Ink, SetText
  <2> QED
    BY <1>3, <1>5, <1>6, <2>1, <2>3, <2>4
<1>11. CASE Margin
  <2>1. /\ pc' = "load_row" /\ loc' = [loc EXCEPT !.next = "scroll"]
        /\ console' = [console EXCEPT !.csr_x = 0]
    BY <1>11 DEF Margin
  <2>2. loc' \in PutchLocals
    BY <1>3, <2>1 DEF PutchLocals
  <2> QED
    BY <1>5, <1>6, <2>1, <2>2
<1>12. CASE StoreRow \/ LastRow
  <2>1. loc.reg + 1 \in Int /\ ROWS - 1 \in Int /\ loc.next \in {"wrap", "scroll"}
    BY <1>3, ScreenSize DEF PutchLocals
  <2>2. \E v \in Int : console' = [console EXCEPT !.csr_y = v]
    BY <1>12, <2>1 DEF StoreRow, LastRow, SetY
  <2>3. /\ loc' \in {loc, NoLocals} /\ pc' \in {"wrap", "scroll", "idle"}
        /\ pc' = "idle" \/ loc' = loc
    BY <1>12, <2>1 DEF StoreRow, LastRow
  <2> QED
    BY <1>3, <1>5, <1>6, <2>2, <2>3
<1>13. CASE Scroll
  <2>1. console' = console /\ loc' = loc /\ pc' = "temp" /\ console.csr_y >= ROWS
    BY <1>13 DEF Scroll, ScrollNeeded, consoleVars
  <2>2. console.csr_y >= ROWS - 1
    BY <1>3, <2>1, ScreenSize
  <2> QED
    BY <1>3, <1>6, <2>1, <2>2
<1>14. CASE Temp
  <2> DEFINE v == console.csr_y - ROWS + 1
  <2>1. pc = "temp" /\ pc' = "copy" /\ loc' = [loc EXCEPT !.reg = v] /\ console' = console
    BY <1>14 DEF Temp, Load, consoleVars
  <2>2. console.csr_y >= ROWS - 1
    BY <2>1 DEF ConsoleTypes
  <2>3. v \in Nat
    BY <1>3, <2>2, ScreenSize
  <2> HIDE DEF v
  <2> QED
    BY <1>3, <1>4, <1>6, <2>1, <2>3
<1>15. CASE Copy \/ Clear
  <2>1. /\ pc \in {"copy", "clear"} /\ pc' \in {"clear", "last_row"} /\ loc' = loc
        /\ \/ console' = [console EXCEPT !.text = Copied(console.text, loc.reg)]
           \/ console' = [console EXCEPT !.text = Cleared(console.text, loc.reg)]
    BY <1>15 DEF Copy, Clear, SetText
  <2>2. loc.reg \in Nat
    BY <2>1 DEF ConsoleTypes
  <2>3. /\ Copied(console.text, loc.reg) \in [Cell -> Contents]
        /\ Cleared(console.text, loc.reg) \in [Cell -> Contents]
    BY <1>3, <2>2, ScrollTypes
  <2> QED
    BY <1>3, <1>5, <1>6, <2>1, <2>2, <2>3
<1> QED
  BY <1>7, <1>8, <1>9, <1>10, <1>11, <1>12, <1>13, <1>14, <1>15 DEF PutchStep

\* So do the steps of every other operation, and what handlers print.
LEMMA PutsTypes ==
    ASSUME InOneCall, ConsoleTypes, UNCHANGED callerVars, NEW s \in Seq(Output), puts(s)
    PROVE  /\ ConsoleTypes'
           /\ console' = FoldLeft(Put, console, s)
           /\ torn' = IF pc \in PutchStepsAt /\ s # <<>> THEN torn \cup {loc.char} ELSE torn
<1>1. pc' = pc /\ loc' = loc
  BY DEF callerVars
<1>2. /\ console' \in ConsoleState
      /\ console.csr_y >= ROWS - 1 => console'.csr_y >= ROWS - 1
      /\ console' = FoldLeft(Put, console, s)
  BY PutsMove DEF puts, ConsoleTypes
<1>3. torn' = IF InPutch /\ s # <<>> THEN torn \cup {loc.char} ELSE torn
  BY DEF puts
<1>4. pc \in PutchStepsAt => InPutch /\ loc.char \in Char
  BY DEF ConsoleTypes, PutchLocals, InPutch
<1>5. pc \notin PutchStepsAt => ~InPutch
  BY DEF InOneCall, ConsoleTypes, InPutch, NoLocals, TimerLocals, KeyboardLocals
<1> QED
  BY <1>1, <1>2, <1>3, <1>4, <1>5 DEF ConsoleTypes

\* The lines handlers and main print.
LEMMA Lines ==
    /\ <<>> \in Seq(Output) /\ Message \in Seq(Output) /\ Message \o Message \in Seq(Output)
  BY DevicesAssumption DEF Output

\* Start-up and interrupts print, and leave the caller where it is.
LEMMA PrintsOnly ==
    ASSUME Boot \/ \E n \in Line : Interrupt(n)
    PROVE  UNCHANGED callerVars /\ \E s \in Seq(Output) : puts(s)
<1>1. CASE Boot
  BY <1>1, Lines DEF Boot
<1>2. ASSUME NEW n \in Line, Interrupt(n) PROVE UNCHANGED callerVars /\ \E s \in Seq(Output) : puts(s)
  <2>1. CASE TimerInterrupt(n)
    <3>1. (IF SecondOver THEN Message ELSE <<>>) \in Seq(Output)
      BY Lines
    <3> QED
      BY <2>1, <3>1 DEF TimerInterrupt
  <2>2. CASE KeyboardInterrupt(n) \/ UncapturedInterrupt(n)
    BY <2>2, Lines DEF KeyboardInterrupt, UncapturedInterrupt
  <2> QED
    BY <1>2, <2>1, <2>2 DEF Interrupt
<1> QED
  BY <1>1, <1>2

LEMMA NextConsoleTypes ==
    InOneCall /\ Counting /\ ConsoleTypes /\ [Next]_vars => ConsoleTypes'
<1> SUFFICES ASSUME InOneCall, Counting, ConsoleTypes, [Next]_vars PROVE ConsoleTypes'
  OBVIOUS
<1>1. CASE Boot \/ \E n \in Line : Interrupt(n)
  BY <1>1, PrintsOnly, PutsTypes
<1>2. CASE UNCHANGED <<callerVars, consoleVars>>
  BY <1>2 DEF callerVars, consoleVars, ConsoleTypes
<1>3. CASE CallSome
  <2>1. pc = "idle"
    BY <1>3 DEF CallSome, CallPutch, TimerCall, CallCurrent, CallWait, CallTimer, CallKeyboard, Call, Go
  <2>2. CASE CallPutch
    <3>1. PICK c \in Char : pc' = "putch" /\ loc' = [op |-> "putch", char |-> c, reg |-> 0, next |-> "wrap"]
      BY <2>2 DEF CallPutch, Call, Go
    <3>2. loc' \in PutchLocals
      BY <3>1 DEF PutchLocals
    <3> QED
      BY <2>2, <3>1, <3>2 DEF CallPutch, ConsoleTypes, KeyboardStepsAt
  <2>3. CASE TimerCall /\ UNCHANGED consoleVars
    BY <2>3, TimerCallStarts DEF ConsoleTypes, consoleVars, KeyboardStepsAt, PutchStepsAt
  <2>4. CASE CallKeyboard /\ UNCHANGED consoleVars
    BY <2>4 DEF CallKeyboard, Call, Go, KeyboardLocals, ConsoleTypes, consoleVars, PutchStepsAt
  <2> QED
    BY <1>3, <2>2, <2>3, <2>4 DEF CallSome
<1>4. CASE CallGoesOn
  <2>1. CASE PutchStep
    BY <2>1, PutchTypes
  <2>2. CASE TimerStep /\ UNCHANGED consoleVars
    <3>1. pc' \in TimerStepsAt \cup {"idle"} /\ (pc' = "idle" => loc' = NoLocals)
      BY <2>2, TimerStepStays
         DEF TimerStep, ReadSeconds, ReadTicks, TestSeconds, TestTicks, Go, Step, Return
    <3> QED
      BY <2>2, <3>1 DEF ConsoleTypes, consoleVars, TimerStepsAt, KeyboardStepsAt, PutchStepsAt
  <2>3. CASE KeyboardStep /\ UNCHANGED consoleVars
    <3>1. /\ pc' \in KeyboardStepsAt \cup {"idle"} /\ (pc' = "idle" => loc' = NoLocals)
          /\ pc \in KeyboardStepsAt /\ (pc' # "idle" => loc' = loc)
      BY <2>3, KeyboardStepStays
         DEF KeyboardStep, ClearKey, PollKey, ReadCode, Go, Step, Return
    <3> QED
      BY <2>3, <3>1 DEF ConsoleTypes, consoleVars, KeyboardStepsAt, PutchStepsAt
  <2> QED
    BY <1>4, <2>1, <2>2, <2>3 DEF CallGoesOn
<1> QED
  BY <1>1, <1>2, <1>3, <1>4
     DEF Next, TimerFires, KeyArrives, OtherRaises, Requests, Spin, vars

LEMMA InitConsoleTypes == Init => ConsoleTypes
<1> SUFFICES ASSUME Init PROVE ConsoleTypes
  OBVIOUS
<1>1. console \in ConsoleState
  <2>1. console = [csr_x |-> 0, csr_y |-> 0,
                   text |-> [i \in Cell |-> IF i \in RowsFrom(0, ROWS) THEN Blank ELSE Elsewhere]]
    BY DEF Init, ConsoleInit
  <2> QED
    BY <2>1 DEF ConsoleState, Contents
<1> QED
  BY <1>1 DEF Init, CallerInit, ConsoleInit, ConsoleTypes, KeyboardStepsAt, PutchStepsAt

\* In every reachable state, whatever is printed by whom.
THEOREM AlwaysConsoleTypes == Spec => []ConsoleTypes
<1>1. Clock => InOneCall /\ Counting
  BY DEF Clock
<1> QED
  BY <1>1, InitConsoleTypes, NextConsoleTypes, AlwaysClock, PTL DEF Spec

\* What the keyboard's handler keeps is what keys send.
KeyTypes ==
    /\ key_pressed \in BOOLEAN /\ key_code \in Key \cup {0}
    /\ buffer \in Codes \cup {NoByte} /\ typed \subseteq Key

LEMMA InitKeyTypes == Init => KeyTypes
  BY DEF Init, KeyboardInit, KeyTypes

LEMMA NextKeyTypes == KeyTypes /\ [Next]_vars => KeyTypes'
<1> SUFFICES ASSUME KeyTypes, [Next]_vars PROVE KeyTypes'
  OBVIOUS
<1>1. CASE KeyboardSends
  BY <1>1 DEF KeyboardSends, KeyTypes
<1>2. CASE KeyboardHandler
  <2>1. \A k \in Key : k \in Nat /\ k # 0 /\ ~(-k >= 0)
    BY KeyAssumption
  <2>2. buffer # NoByte => buffer \in Key \/ \E k \in Key : buffer = -k
    BY DEF KeyTypes, Codes
  <2>3. buffer # NoByte /\ buffer >= 0 => buffer \in Key
    BY <2>1, <2>2
  <2> QED
    BY ZenonT(30), <1>2, <2>3 DEF KeyboardHandler, KeyTypes
<1>3. CASE CallKeyboard \/ KeyboardStep
  BY <1>3 DEF CallKeyboard, KeyboardStep, ClearKey, PollKey, ReadCode, keyboardVars, KeyTypes
<1>4. CASE UNCHANGED keyboardVars
  BY <1>4 DEF keyboardVars, KeyTypes
<1> QED
  BY <1>1, <1>2, <1>3, <1>4
     DEF Next, Boot, TimerFires, KeyArrives, OtherRaises, Requests, Interrupt, TimerInterrupt,
         KeyboardInterrupt, UncapturedInterrupt, CallSome, CallGoesOn, Spin, vars

\* The dispatcher, the timer, the keyboard and the console stay in their types, however
\* handlers and calls interleave (irq.C, simple_timer.C, simple_keyboard.C, console.C).
THEOREM DevicesTypeCorrect == Spec => []TypeOK
<1>1. Dispatching /\ Clock /\ ConsoleTypes /\ KeyTypes => TypeOK
  BY DEF Dispatching, Clock, InOneCall, Counting, ConsoleTypes, KeyTypes, TypeOK
<1>2. Spec => []KeyTypes
  BY InitKeyTypes, NextKeyTypes, PTL DEF Spec
<1> QED
  BY <1>1, <1>2, AlwaysDispatching, AlwaysClock, AlwaysConsoleTypes, PTL

-----------------------------------------------------------------------------
(* The cursor comes back to the screen.                                    *)

\* A tab stop is at most the end of the row.
LEMMA TabStopInRow == \A x \in 0..COLS - 1 : TabStop(x) \in 0..COLS
<1> TAKE x \in 0..COLS - 1
<1> DEFINE q == (x + TAB) \div TAB
<1>1. TAB \in Nat \ {0} /\ COLS \in Nat \ {0} /\ COLS % TAB = 0
  BY ConsoleAssumption
<1>2. q \in Nat /\ q * TAB <= x + TAB
  BY <1>1
<1>3. COLS = (COLS \div TAB) * TAB /\ COLS \div TAB \in Nat
  BY <1>1
<1> DEFINE k == COLS \div TAB
<1>4. q <= k
  <2> SUFFICES ASSUME q >= k + 1 PROVE FALSE
    BY <1>2, <1>3
  <2>1. q * TAB >= (k + 1) * TAB /\ (k + 1) * TAB = k * TAB + TAB
    BY <1>1, <1>2, <1>3
  <2>2. x + TAB >= COLS + TAB
    BY <1>1, <1>2, <1>3, <2>1
  <2> QED
    BY <1>1, <2>2
<1>5. q * TAB \in Nat /\ q * TAB <= k * TAB
  BY <1>1, <1>2, <1>3, <1>4
<1> QED
  BY <1>3, <1>5 DEF TabStop

\* The cell of a cursor on the screen is on the screen.
LEMMA CellOnScreen ==
    ASSUME NEW row \in 0..ROWS - 1, NEW x \in 0..COLS - 1
    PROVE  row * COLS + x \in RowsFrom(0, ROWS)
<1>1. row * COLS \in Int /\ 0 <= row * COLS /\ row * COLS <= (ROWS - 1) * COLS
  BY ScreenSize
<1>2. (ROWS - 1) * COLS = ROWS * COLS - COLS /\ ROWS * COLS \in Int
  BY ScreenSize
<1>3. row * COLS + x \in 0..ROWS * COLS - 1
  BY <1>1, <1>2, ScreenSize
<1> QED
  BY <1>3, ScreenSize DEF RowsFrom

\* Every step of putch leaves the cursor where the next one relies on it, if nothing has
\* been printed since a backspace's test.
LEMMA PutchPlaced == ConsoleTypes /\ Placed /\ PutchStep => Placed'
<1> SUFFICES ASSUME ConsoleTypes, Placed, PutchStep PROVE Placed'
  OBVIOUS
<1> DEFINE x == console.csr_x
           y == console.csr_y
<1> USE DEF Go, Step, Return, Printing
<1>1. pc \in PutchStepsAt
  BY DEF PutchStep, Backspace, Tab, CarriageReturn, Newline, WhereRow, WhereColumn, Ink, LoadX,
         StoreX, Wrap, Margin, LoadRow, StoreRow, NoScroll, Scroll, Temp, Copy, Clear, LastRow,
         PutchStepsAt, Load, SetX, SetY, SetText, ConsoleTypes, PutchLocals, consoleVars
<1>3. /\ loc \in PutchLocals /\ loc.reg \in Int /\ loc.char \in Char
      /\ loc.next \in {"wrap", "scroll"}
      /\ console.csr_x \in Int /\ console.csr_y \in Int /\ console.text \in [Cell -> Contents]
      /\ console = [csr_x |-> console.csr_x, csr_y |-> console.csr_y, text |-> console.text]
  BY <1>1 DEF ConsoleTypes, PutchLocals, ConsoleState
<1>4. /\ ROWS \in Nat \ {0} /\ COLS \in Nat \ {0}
      /\ Untouched(console.text)
      /\ OnScreen(console) => ColumnBeyond(console) /\ RowBeyond(console)
  BY ScreenSize DEF Placed, OnScreen, ColumnBeyond, RowBeyond
<1>7. CASE Backspace \/ Tab
  <2>1. console' = console /\ loc' = loc /\ OnScreen(console)
    BY <1>7 DEF Backspace, Tab, consoleVars, Placed, ScrollStepsAt
  <2>2. \/ pc' = "wrap"
        \/ pc' = "load_x" /\ (loc.char = "backspace" => x # 0)
    BY <1>7 DEF Backspace, Tab
  <2> QED
    BY <1>3, <1>4, <2>1, <2>2 DEF Placed, ScrollStepsAt, OnScreen
<1>8. CASE CarriageReturn \/ Newline
  <2>1. /\ console' = [console EXCEPT !.csr_x = 0] /\ loc' = loc /\ OnScreen(console)
        /\ pc' \in {"wrap", "load_row"}
    BY <1>8 DEF CarriageReturn, Newline, SetX, Placed, ScrollStepsAt
  <2>2. OnScreen(console') /\ ColumnBeyond(console') /\ Untouched(console'.text)
    BY <1>3, <1>4, <2>1 DEF OnScreen, ColumnBeyond
  <2> QED
    BY <2>1, <2>2 DEF Placed, ScrollStepsAt
<1>9. CASE StoreX
  <2>1. /\ pc = "store_x" /\ pc' = "wrap" /\ loc' = loc
        /\ OnScreen(console) /\ loc.reg \in 0..COLS - 1 /\ (loc.char = "backspace" => loc.reg >= 1)
    BY <1>9 DEF StoreX, SetX, Placed, ScrollStepsAt
  <2>2. TabStop(loc.reg) \in 0..COLS
    BY <2>1, TabStopInRow
  <2>3. PICK v \in 0..COLS : console' = [console EXCEPT !.csr_x = v]
    <3>1. loc.reg + 1 \in 0..COLS /\ (loc.char = "backspace" => loc.reg - 1 \in 0..COLS)
      BY <1>4, <2>1
    <3> QED
      BY <1>9, <2>2, <3>1 DEF StoreX, SetX
  <2>4. ColumnBeyond(console') /\ Untouched(console'.text)
    BY <1>3, <1>4, <2>1, <2>3 DEF OnScreen, ColumnBeyond
  <2> QED
    BY <2>1, <2>4 DEF Placed, ScrollStepsAt
<1>10. CASE WhereRow \/ LoadX \/ LoadRow
  <2>1. /\ pc \in {"putch", "load_x", "load_row"}
        /\ console' = console /\ OnScreen(console)
        /\ pc = "load_x" => (loc.char = "backspace" => x >= 1)
    BY <1>10 DEF WhereRow, LoadX, LoadRow, Load, consoleVars, Placed, ScrollStepsAt
  <2>2. \/ pc' = "where" /\ loc' = [loc EXCEPT !.reg = y * COLS]
        \/ pc = "load_x" /\ pc' = "store_x" /\ loc' = [loc EXCEPT !.reg = x]
        \/ pc' = "store_row" /\ loc' = [loc EXCEPT !.reg = y]
    BY <1>10 DEF WhereRow, LoadX, LoadRow, Load
  <2>3. x \in 0..COLS - 1 /\ y \in 0..ROWS - 1
    BY <2>1 DEF OnScreen
  <2>4. \A v : [loc EXCEPT !.reg = v].reg = v /\ [loc EXCEPT !.reg = v].char = loc.char
    BY <1>3 DEF PutchLocals
  <2> HIDE DEF x, y
  <2>5. CASE pc' = "where" /\ loc' = [loc EXCEPT !.reg = y * COLS]
    <3>1. loc'.reg = y * COLS
      BY <2>4, <2>5
    <3> QED
      BY <1>4, <2>1, <2>3, <2>5, <3>1 DEF Placed, ScrollStepsAt
  <2>6. CASE pc = "load_x" /\ pc' = "store_x" /\ loc' = [loc EXCEPT !.reg = x]
    <3>1. loc'.reg = x /\ loc'.char = loc.char
      BY <2>4, <2>6
    <3> QED
      BY <1>4, <2>1, <2>3, <2>6, <3>1 DEF Placed, ScrollStepsAt
  <2>7. CASE pc' = "store_row" /\ loc' = [loc EXCEPT !.reg = y]
    <3>1. loc'.reg = y
      BY <2>4, <2>7
    <3> QED
      BY <1>4, <2>1, <2>3, <2>7, <3>1 DEF Placed, ScrollStepsAt
  <2> QED
    BY <2>2, <2>5, <2>6, <2>7
<1>11. CASE WhereColumn
  <2>1. /\ pc = "where" /\ pc' = "ink" /\ loc' = [loc EXCEPT !.reg = loc.reg + x]
        /\ console' = console /\ OnScreen(console)
    BY <1>11 DEF WhereColumn, Load, consoleVars, Placed, ScrollStepsAt
  <2>2. PICK row \in 0..ROWS - 1 : loc.reg = row * COLS
    BY <2>1 DEF Placed
  <2>3. loc.reg + x \in RowsFrom(0, ROWS)
    BY <2>1, <2>2, CellOnScreen DEF OnScreen
  <2>4. loc'.reg = loc.reg + x
    BY <1>3, <2>1 DEF PutchLocals
  <2> QED
    BY <1>4, <2>1, <2>3, <2>4 DEF Placed, ScrollStepsAt
<1>12. CASE Ink
  <2>1. /\ pc = "ink" /\ pc' = "load_x" /\ loc' = loc /\ OnScreen(console)
        /\ console' = [console EXCEPT !.text = [console.text EXCEPT ![loc.reg] = loc.char]]
    BY <1>12 DEF Ink, SetText, Placed, ScrollStepsAt
  <2>2. loc.reg \in RowsFrom(0, ROWS) /\ loc.char # "backspace"
    <3>1. loc.char \in Printable
      BY <2>1 DEF ConsoleTypes
    <3> QED
      BY <2>1, <3>1, ConsoleAssumption DEF Placed, Control
  <2>3. RowsFrom(0, ROWS) \subseteq RowsFrom(0, ROWS + 1)
    BY ScreenSize DEF RowsFrom
  <2>4. Untouched(console'.text) /\ OnScreen(console')
    <3>1. /\ console'.text = [console.text EXCEPT ![loc.reg] = loc.char]
          /\ console'.csr_x = x /\ console'.csr_y = y
      BY <1>3, <2>1
    <3>2. Untouched(console'.text)
      BY <1>3, <1>4, <2>2, <2>3, <3>1 DEF Untouched
    <3> QED
      BY <2>1, <3>1, <3>2 DEF OnScreen
  <2> QED
    BY <2>1, <2>2, <2>4 DEF Placed, ScrollStepsAt
<1>13. CASE Wrap
  <2>1. /\ pc = "wrap" /\ console' = console /\ loc' = loc
        /\ ColumnBeyond(console) \/ RowBeyond(console)
        /\ pc' = IF x >= COLS THEN "margin" ELSE "scroll"
    BY <1>13 DEF Wrap, consoleVars, Placed
  <2>2. IF x >= COLS THEN ColumnBeyond(console) ELSE RowBeyond(console)
    BY <1>3, <1>4, <2>1 DEF ColumnBeyond, RowBeyond
  <2> QED
    BY <1>4, <2>1, <2>2 DEF Placed, ScrollStepsAt
<1>14. CASE Margin
  <2>1. /\ pc' = "load_row" /\ ColumnBeyond(console)
        /\ console' = [console EXCEPT !.csr_x = 0]
    BY <1>14 DEF Margin, Placed
  <2>2. OnScreen(console') /\ Untouched(console'.text)
    BY <1>3, <1>4, <2>1 DEF OnScreen, ColumnBeyond
  <2> QED
    BY <2>1, <2>2 DEF Placed, ScrollStepsAt
<1>15. CASE StoreRow
  <2>1. /\ pc = "store_row" /\ pc' \in {"wrap", "scroll"} /\ loc' = loc
        /\ OnScreen(console) /\ loc.reg \in 0..ROWS - 1
        /\ console' = [console EXCEPT !.csr_y = loc.reg + 1]
    BY <1>3, <1>15 DEF StoreRow, SetY, Placed, ScrollStepsAt
  <2>2. RowBeyond(console') /\ Untouched(console'.text)
    BY <1>3, <1>4, <2>1 DEF OnScreen, RowBeyond
  <2> QED
    BY <2>1, <2>2 DEF Placed, ScrollStepsAt
<1>16. CASE NoScroll \/ Scroll
  <2>1. /\ console' = console /\ RowBeyond(console)
        /\ \/ pc' = "idle" /\ ~(y >= ROWS)
           \/ pc' = "temp"
    BY <1>16 DEF NoScroll, Scroll, ScrollNeeded, consoleVars, Placed, ScrollStepsAt
  <2>2. ~(y >= ROWS) => OnScreen(console)
    BY <1>4, <2>1 DEF RowBeyond, OnScreen
  <2> QED
    BY <1>4, <2>1, <2>2 DEF Placed, ScrollStepsAt
<1>17. CASE Temp
  <2>1. /\ pc = "temp" /\ pc' = "copy" /\ console' = console /\ RowBeyond(console)
        /\ loc' = [loc EXCEPT !.reg = y - ROWS + 1]
    BY <1>17 DEF Temp, Load, consoleVars, Placed, ScrollStepsAt
  <2>2. y - ROWS + 1 \in {0, 1}
    BY <1>3, <1>4, <2>1 DEF ConsoleTypes, RowBeyond
  <2>3. loc'.reg = y - ROWS + 1
    BY <1>3, <2>1 DEF PutchLocals
  <2> QED
    BY <1>4, <2>1, <2>2, <2>3 DEF Placed, ScrollStepsAt
<1>18. CASE Copy \/ Clear
  <2>1. /\ pc \in {"copy", "clear"} /\ pc' \in {"clear", "last_row"} /\ loc' = loc
        /\ RowBeyond(console) /\ loc.reg \in {0, 1}
        /\ \/ console' = [console EXCEPT !.text = Copied(console.text, loc.reg)]
           \/ console' = [console EXCEPT !.text = Cleared(console.text, loc.reg)]
    BY <1>18 DEF Copy, Clear, SetText, Placed, ScrollStepsAt
  <2>2. loc.reg \in 0..ROWS
    BY <1>4, <2>1
  <2>3. /\ Untouched(Copied(console.text, loc.reg))
        /\ Untouched(Cleared(console.text, loc.reg))
    BY <1>4, <2>2, ScrollUntouched
  <2>4. RowBeyond(console') /\ Untouched(console'.text)
    BY <1>3, <2>1, <2>3 DEF RowBeyond
  <2> QED
    BY <2>1, <2>4 DEF Placed, ScrollStepsAt
<1>19. CASE LastRow
  <2>1. /\ pc' = "idle" /\ RowBeyond(console)
        /\ console' = [console EXCEPT !.csr_y = ROWS - 1]
    BY <1>19 DEF LastRow, SetY, Placed, ScrollStepsAt
  <2>2. OnScreen(console') /\ Untouched(console'.text)
    BY <1>3, <1>4, <2>1 DEF OnScreen, RowBeyond
  <2> QED
    BY <2>1, <2>2 DEF Placed, ScrollStepsAt
<1> QED
  BY <1>7, <1>8, <1>9, <1>10, <1>11, <1>12, <1>13, <1>14, <1>15, <1>16, <1>17, <1>18, <1>19
     DEF PutchStep

\* What is printed in the midst of a call brings the cursor to the screen, where every
\* step finds it good; the torn backspace is the exception.
LEMMA PutsPlaced ==
    ASSUME ROWS >= 2, InOneCall, ConsoleTypes, Contained,
           UNCHANGED callerVars, NEW s \in Seq(Output), puts(s)
    PROVE  Contained'
<1> SUFFICES ASSUME "backspace" \notin torn' PROVE Placed'
  BY DEF Contained
<1>1. pc' = pc /\ loc' = loc
  BY DEF callerVars
<1>2. /\ console' = FoldLeft(Put, console, s)
      /\ torn' = IF pc \in PutchStepsAt /\ s # <<>> THEN torn \cup {loc.char} ELSE torn
      /\ console \in ConsoleState
  BY PutsTypes DEF ConsoleTypes
<1>3. Placed
  BY <1>2 DEF Contained
<1>4. CASE s = <<>>
  <2>1. console' = console
    BY <1>2, <1>4, PutsMove
  <2> QED
    BY <1>1, <1>3, <2>1 DEF Placed
<1>5. CASE s # <<>>
  <2>1. (ColumnBeyond(console) \/ RowBeyond(console)) /\ Untouched(console.text)
    BY <1>3, ScreenSize DEF Placed, OnScreen, ColumnBeyond, RowBeyond, ScrollStepsAt
  <2>2. OnScreen(console') /\ Untouched(console'.text)
    BY <1>2, <1>5, <2>1, PutsMove
  <2>3. ColumnBeyond(console') /\ RowBeyond(console')
    BY <2>2, ScreenSize DEF OnScreen, ColumnBeyond, RowBeyond
  <2>4. pc = "load_x" => loc.char # "backspace"
    BY <1>2, <1>5 DEF PutchStepsAt
  <2> QED
    BY <1>1, <1>3, <2>2, <2>3, <2>4 DEF Placed
<1> QED
  BY <1>4, <1>5

\* Calls start, and the other devices' go on, with the cursor on the screen.
LEMMA NextContained ==
    ASSUME ROWS >= 2
    PROVE  InOneCall /\ Counting /\ ConsoleTypes /\ Contained /\ [Next]_vars => Contained'
<1> SUFFICES ASSUME InOneCall, Counting, ConsoleTypes, Contained, [Next]_vars PROVE Contained'
  OBVIOUS
<1>1. CASE Boot \/ \E n \in Line : Interrupt(n)
  BY <1>1, PrintsOnly, PutsPlaced
<1>2. CASE UNCHANGED <<callerVars, consoleVars>>
  BY <1>2 DEF callerVars, consoleVars, Contained, Placed
<1> DEFINE Elsewhen == TimerStepsAt \cup KeyboardStepsAt \cup {"idle", "putch"}
<1>3. ASSUME console' = console, torn' = torn, pc \in Elsewhen, pc' \in Elsewhen PROVE Contained'
  BY <1>3 DEF Contained, Placed, ScrollStepsAt, TimerStepsAt, KeyboardStepsAt
<1>4. CASE CallSome
  <2>1. pc = "idle" /\ pc' \in {"putch", "read_seconds", "clear_key"} /\ UNCHANGED <<console, torn>>
    BY <1>4 DEF CallSome, CallPutch, TimerCall, CallCurrent, CallWait, CallTimer, CallKeyboard,
                Call, Go, consoleVars
  <2> QED
    BY <1>3, <2>1 DEF TimerStepsAt, KeyboardStepsAt
<1>5. CASE CallGoesOn
  <2>1. CASE PutchStep
    <3>1. torn' = torn
      BY <2>1
         DEF PutchStep, Backspace, Tab, CarriageReturn, Newline, WhereRow, WhereColumn, Ink,
             LoadX, StoreX, Wrap, Margin, LoadRow, StoreRow, NoScroll, Scroll, Temp, Copy,
             Clear, LastRow, Load, SetX, SetY, SetText, consoleVars
    <3> QED
      BY <2>1, <3>1, PutchPlaced DEF Contained
  <2>2. CASE TimerStep /\ UNCHANGED consoleVars
    <3>1. pc \in TimerStepsAt /\ pc' \in TimerStepsAt \cup {"idle"}
      BY <2>2, TimerStepStays
    <3> QED
      BY <1>3, <2>2, <3>1 DEF consoleVars
  <2>3. CASE KeyboardStep /\ UNCHANGED consoleVars
    <3>1. pc \in KeyboardStepsAt /\ pc' \in KeyboardStepsAt \cup {"idle"}
      BY <2>3, KeyboardStepStays
    <3> QED
      BY <1>3, <2>3, <3>1 DEF consoleVars
  <2> QED
    BY <1>5, <2>1, <2>2, <2>3 DEF CallGoesOn
<1> QED
  BY <1>1, <1>2, <1>4, <1>5
     DEF Next, TimerFires, KeyArrives, OtherRaises, Requests, Spin, vars

LEMMA InitContained == Init => Contained
<1> SUFFICES ASSUME Init PROVE Placed
  BY DEF Contained
<1>1. /\ pc = "idle"
      /\ console = [csr_x |-> 0, csr_y |-> 0,
                    text |-> [i \in Cell |-> IF i \in RowsFrom(0, ROWS) THEN Blank ELSE Elsewhere]]
  BY DEF Init, CallerInit, ConsoleInit
<1>2. OnScreen(console)
  BY <1>1, ScreenSize DEF OnScreen
<1>3. RowsFrom(0, ROWS) \subseteq RowsFrom(0, ROWS + 1)
  BY ScreenSize DEF RowsFrom
<1>4. Untouched(console.text)
  BY <1>1, <1>3 DEF Untouched
<1> QED
  BY <1>1, <1>2, <1>4 DEF Placed, ScrollStepsAt

THEOREM AlwaysContained == ASSUME ROWS >= 2 PROVE Spec => []Contained
<1>1. Clock => InOneCall /\ Counting
  BY DEF Clock
<1>2. InOneCall /\ Counting /\ ConsoleTypes /\ Contained /\ [Next]_vars => Contained'
  BY NextContained
<1> QED
  BY <1>1, <1>2, InitContained, AlwaysConsoleTypes, AlwaysClock, PTL DEF Spec

\* Whatever the handlers print between the steps of putch, on a screen of at least two
\* rows the cursor comes back to it, and nothing is stored before it or more than a row
\* after it (putch and scroll of console.C, without locks).
THEOREM CursorComesBack == ASSUME ROWS >= 2 PROVE Spec => []ConsoleContained
<1>1. Contained => ConsoleContained
  BY DEF Contained, Placed, ConsoleContained, OnScreen, Untouched, ScrollStepsAt
<1> QED
  BY <1>1, AlwaysContained, PTL

-----------------------------------------------------------------------------
(* The screen shows the end of the page.                                   *)

\* The cursor and the screen are those of page p, of which row top is the first shown.
InkAt(p, r, k) == IF <<r, k>> \in DOMAIN p.ink THEN p.ink[<<r, k>>] ELSE Blank

PageFrom(p, top) ==
    /\ top \in Nat /\ p.row \in Nat /\ p.col \in Nat /\ top <= p.row
    /\ DOMAIN p.ink \subseteq (0..top + ROWS - 1) \X (0..COLS - 1)

ScreenFrom(c, p, top) ==
    /\ c.csr_x = p.col /\ c.csr_y = p.row - top
    /\ \A r \in 0..ROWS - 1, k \in 0..COLS - 1 : c.text[r * COLS + k] = InkAt(p, top + r, k)

Top(p) == IF p.row < ROWS THEN 0 ELSE p.row - ROWS + 1

Shows(c, p) ==
    /\ p = [row |-> p.row, col |-> p.col, ink |-> p.ink]
    /\ p.col < COLS
    /\ PageFrom(p, Top(p)) /\ ScreenFrom(c, p, Top(p))

\* putch as one step, for every character.
MovedBy(c, char) ==
    CASE char = "return" -> [c EXCEPT !.csr_x = 0]
      [] char = "backspace" -> [c EXCEPT !.csr_x = IF @ = 0 THEN 0 ELSE @ - 1]
      [] char = "tab" -> [c EXCEPT !.csr_x = TabStop(@)]
      [] OTHER -> Moved(c, char)

PutAny(c, char) == Scrolled(Wrapped(MovedBy(c, char)))

\* No two places of the screen share a cell.
LEMMA OneCellEach ==
    ASSUME NEW r \in Nat, NEW k \in 0..COLS - 1, NEW q \in Nat, NEW l \in 0..COLS - 1,
           r * COLS + k = q * COLS + l
    PROVE  r = q /\ k = l
<1>1. \A a, b \in Nat : a < b => a * COLS \in Nat /\ b * COLS \in Nat /\ a * COLS + COLS <= b * COLS
  <2> TAKE a, b \in Nat
  <2> HAVE a < b
  <2>1. a + 1 <= b /\ a + 1 \in Int
    OBVIOUS
  <2>2. (a + 1) * COLS <= b * COLS /\ (a + 1) * COLS = a * COLS + COLS
    BY <2>1, ScreenSize
  <2> QED
    BY <2>2, ScreenSize
<1>2. r * COLS \in Nat /\ q * COLS \in Nat /\ COLS \in Nat
  BY ScreenSize
<1>3. ~(r < q) /\ ~(q < r)
  BY <1>1, <1>2
<1> QED
  BY <1>2, <1>3

LEMMA ScreenCells == \A r \in 0..ROWS - 1, k \in 0..COLS - 1 : r * COLS + k \in Cell
<1>1. RowsFrom(0, ROWS) \subseteq Cell
  BY ScreenSize DEF RowsFrom, Cell
<1> QED
  BY <1>1, CellOnScreen

\* The first step of putch: the cursor moves on the screen as on the page.
LEMMA MovesAlike ==
    ASSUME NEW c \in ConsoleState, NEW p, Shows(c, p), NEW char \in Printable \cup Control
    PROVE  LET d == MovedBy(c, char)
               at == Inked(p, char)
           IN  /\ PageFrom(at, Top(p)) /\ ScreenFrom(d, at, Top(p))
               /\ at = [row |-> at.row, col |-> at.col, ink |-> at.ink]
               /\ d \in ConsoleState
               /\ at.col <= COLS
               /\ at.row = p.row \/ (at.row = p.row + 1 /\ at.col = 0)
<1> DEFINE top == Top(p)
           x == c.csr_x
           y == c.csr_y
<1>1. /\ c = [csr_x |-> x, csr_y |-> y, text |-> c.text]
      /\ x \in Int /\ y \in Int /\ c.text \in [Cell -> Contents]
  BY DEF ConsoleState
<1>2. /\ p = [row |-> p.row, col |-> p.col, ink |-> p.ink]
      /\ p.row \in Nat /\ p.col \in 0..COLS - 1
      /\ x = p.col /\ y = p.row - top /\ top \in Nat /\ top <= p.row
      /\ PageFrom(p, top) /\ ScreenFrom(c, p, top)
  BY ScreenSize DEF Shows, PageFrom, ScreenFrom
<1>3. y \in 0..ROWS - 1
  BY <1>2, ScreenSize DEF Top
<1>4. COLS \in Nat \ {0}
  BY ScreenSize
<1> HIDE DEF top, x, y
<1>5. CASE char = "newline"
  <2>1. MovedBy(c, char) = [csr_x |-> 0, csr_y |-> y + 1, text |-> c.text]
    BY <1>5 DEF MovedBy, Moved, y
  <2>2. Inked(p, char) = [row |-> p.row + 1, col |-> 0, ink |-> p.ink]
    BY <1>5 DEF Inked
  <2>3. [csr_x |-> 0, csr_y |-> y + 1, text |-> c.text] \in ConsoleState
    BY <1>1 DEF ConsoleState
  <2>4. y + 1 = p.row + 1 - top
    BY <1>2
  <2> QED
    BY <1>2, <1>4, <2>1, <2>2, <2>3, <2>4 DEF PageFrom, ScreenFrom, InkAt, top
<1>6. CASE char \in {"return", "backspace", "tab"}
  <2>1. PICK v \in 0..COLS : /\ MovedBy(c, char) = [c EXCEPT !.csr_x = v]
                             /\ Inked(p, char) = [p EXCEPT !.col = v]
    <3>1. TabStop(x) \in 0..COLS /\ x \in 0..COLS /\ (x # 0 => x - 1 \in 0..COLS) /\ 0 \in 0..COLS
      BY <1>2, <1>4, TabStopInRow
    <3> QED
      BY <1>2, <1>6, <3>1 DEF MovedBy, Inked, x
  <2>2. MovedBy(c, char) = [csr_x |-> v, csr_y |-> y, text |-> c.text]
    BY <1>1, <2>1
  <2>3. Inked(p, char) = [row |-> p.row, col |-> v, ink |-> p.ink]
    BY <1>2, <2>1
  <2>4. [csr_x |-> v, csr_y |-> y, text |-> c.text] \in ConsoleState
    BY <1>1, <1>4 DEF ConsoleState
  <2> QED
    BY <1>2, <1>4, <2>2, <2>3, <2>4 DEF PageFrom, ScreenFrom, InkAt, top
<1>7. CASE char \in Printable
  <2>1. char \notin Control
    BY <1>7, ConsoleAssumption
  <2> DEFINE text == [c.text EXCEPT ![y * COLS + x] = char]
             ink == Added(p.ink, <<p.row, p.col>>, char)
  <2>2. MovedBy(c, char) = [csr_x |-> x + 1, csr_y |-> y, text |-> text]
    BY <2>1 DEF MovedBy, Moved, Control, x, y
  <2>3. Inked(p, char) = [row |-> p.row, col |-> p.col + 1, ink |-> ink]
    BY <2>1 DEF Inked, Control
  <2>4. text \in [Cell -> Contents]
    BY <1>1, <1>7 DEF Contents
  <2>5. /\ DOMAIN ink = {<<p.row, p.col>>} \cup DOMAIN p.ink
        /\ ink[<<p.row, p.col>>] = char
        /\ \A q \in DOMAIN p.ink : q # <<p.row, p.col>> => ink[q] = p.ink[q]
    BY DEF Added
  <2> HIDE DEF ink
  <2>6. DOMAIN ink \subseteq (0..top + ROWS - 1) \X (0..COLS - 1)
    <3>1. p.row \in 0..top + ROWS - 1
      BY <1>2, <1>3, ScreenSize
    <3> QED
      BY <1>2, <2>5, <3>1 DEF PageFrom
  <2> DEFINE Shown1(r, k) == IF <<top + r, k>> \in DOMAIN ink THEN ink[<<top + r, k>>] ELSE Blank
  <2>7. ASSUME NEW r \in 0..ROWS - 1, NEW k \in 0..COLS - 1
        PROVE  text[r * COLS + k] = Shown1(r, k)
    <3>1. r * COLS + k \in Cell
      BY ScreenCells
    <3>2. c.text[r * COLS + k] =
              IF <<top + r, k>> \in DOMAIN p.ink THEN p.ink[<<top + r, k>>] ELSE Blank
      BY <1>2 DEF ScreenFrom, InkAt
    <3>3. <<top + r, k>> = <<p.row, p.col>> <=> r = y /\ k = x
      BY <1>2, <1>3
    <3>4. CASE r = y /\ k = x
      BY <1>1, <2>5, <3>1, <3>3, <3>4
    <3>5. CASE ~(r = y /\ k = x)
      <4>1. r * COLS + k # y * COLS + x
        BY <1>2, <1>3, <3>5, OneCellEach
      <4>2. text[r * COLS + k] = c.text[r * COLS + k]
        BY <1>1, <3>1, <4>1
      <4> QED
        BY <2>5, <3>2, <3>3, <3>5, <4>2
    <3> QED
      BY <3>4, <3>5
  <2>8. x + 1 = p.col + 1 /\ p.col + 1 \in Nat /\ p.col + 1 <= COLS
    BY <1>2, <1>4
  <2> HIDE DEF text
  <2>9. [csr_x |-> x + 1, csr_y |-> y, text |-> text] \in ConsoleState
    BY <1>1, <2>4 DEF ConsoleState
  <2> QED
    BY <1>2, <2>2, <2>3, <2>6, <2>7, <2>8, <2>9 DEF PageFrom, ScreenFrom, InkAt, top
<1> QED
  BY <1>5, <1>6, <1>7 DEF Control

\* Scrolling by one row shows the page from its next row.
LEMMA ScrollsAlike ==
    ASSUME NEW e \in ConsoleState, NEW t, NEW top \in Nat,
           PageFrom(t, top), ScreenFrom(e, t, top), e.csr_y = ROWS, t.col \in 0..COLS - 1
    PROVE  PageFrom(t, top + 1) /\ ScreenFrom(Scrolled(e), t, top + 1)
           /\ Scrolled(e) \in ConsoleState
<1>1. ROWS \in Nat \ {0} /\ COLS \in Nat \ {0} /\ ROWS * COLS \in Int
  BY ScreenSize
<1>2. e.text \in [Cell -> Contents] /\ e.csr_x \in Int /\ e.csr_x = t.col
  BY DEF ConsoleState, ScreenFrom
<1> DEFINE text == Cleared(Copied(e.text, 1), 1)
<1>3. Scrolled(e) = [csr_x |-> e.csr_x, csr_y |-> ROWS - 1, text |-> text]
  BY <1>1 DEF Scrolled, ScrollNeeded
<1>4. t.row = top + ROWS
  BY <1>1 DEF ScreenFrom, PageFrom
<1>5. text \in [Cell -> Contents]
  BY <1>2, ScrollTypes
<1>6. Scrolled(e) \in ConsoleState
  BY <1>1, <1>2, <1>3, <1>5 DEF ConsoleState
<1>7. ASSUME NEW r \in 0..ROWS - 1, NEW k \in 0..COLS - 1
      PROVE  text[r * COLS + k] = InkAt(t, top + 1 + r, k)
  <2> DEFINE i == r * COLS + k
  <2>1. i \in Cell /\ r * COLS \in Nat /\ i \in Int
    <3>1. i \in Cell
      BY ScreenCells
    <3>2. r * COLS \in Int /\ 0 * COLS <= r * COLS
      BY <1>1, ScreenSize
    <3> QED
      BY <1>1, <3>1, <3>2
  <2>2. (ROWS - 1) * COLS = ROWS * COLS - COLS /\ (ROWS - 1 + 1) * COLS = ROWS * COLS
    BY <1>1, ScreenSize
  <2>3. CASE r = ROWS - 1
    <3>1. i \in RowsFrom(ROWS - 1, 1)
      BY <1>1, <2>1, <2>2, <2>3 DEF RowsFrom
    <3>2. text[i] = Blank
      BY <2>1, <3>1 DEF Cleared
    <3>3. <<top + 1 + r, k>> \notin DOMAIN t.ink
      BY <1>1, <2>3 DEF PageFrom
    <3> QED
      BY <3>2, <3>3 DEF InkAt
  <2>4. CASE r # ROWS - 1
    <3>1. r + 1 \in 0..ROWS - 1
      BY <1>1, <2>4
    <3>2. (r + 1) * COLS = r * COLS + COLS /\ (r + 1) * COLS <= (ROWS - 1) * COLS
      BY <1>1, <3>1, ScreenSize
    <3>3. i \notin RowsFrom(ROWS - 1, 1) /\ i \in RowsFrom(0, ROWS - 1)
      BY <1>1, <2>1, <2>2, <3>2 DEF RowsFrom
    <3>4. text[i] = Copied(e.text, 1)[i]
      BY <2>1, <3>3 DEF Cleared
    <3>5. Copied(e.text, 1)[i] = e.text[i + 1 * COLS]
      BY <2>1, <3>3 DEF Copied
    <3>6. i + 1 * COLS = (r + 1) * COLS + k
      BY <1>1, <2>1, <3>2
    <3>7. e.text[(r + 1) * COLS + k] = InkAt(t, top + (r + 1), k)
      BY <3>1 DEF ScreenFrom
    <3>8. top + (r + 1) = top + 1 + r
      OBVIOUS
    <3> QED
      BY <3>4, <3>5, <3>6, <3>7, <3>8
  <2> QED
    BY <2>3, <2>4
<1>8. PageFrom(t, top + 1)
  <2>1. (0..top + ROWS - 1) \X (0..COLS - 1) \subseteq (0..(top + 1) + ROWS - 1) \X (0..COLS - 1)
    BY <1>1
  <2> QED
    BY <1>1, <1>4, <2>1 DEF PageFrom
<1> HIDE DEF text
<1>9. ScreenFrom(Scrolled(e), t, top + 1)
  BY <1>1, <1>2, <1>3, <1>4, <1>7 DEF ScreenFrom
<1> QED
  BY <1>6, <1>8, <1>9

\* putch as one step prints on the screen what it prints on the page.
LEMMA TypesAlike ==
    ASSUME NEW c \in ConsoleState, NEW p, Shows(c, p), NEW char \in Printable \cup Control
    PROVE  PutAny(c, char) \in ConsoleState /\ Shows(PutAny(c, char), Typed(p, char))
<1> DEFINE top == Top(p)
           d == MovedBy(c, char)
           at == Inked(p, char)
           e == Wrapped(d)
           t == Turned(at)
<1>1. /\ PageFrom(at, top) /\ ScreenFrom(d, at, top)
      /\ at = [row |-> at.row, col |-> at.col, ink |-> at.ink]
      /\ d \in ConsoleState
      /\ at.col <= COLS
      /\ at.row = p.row \/ (at.row = p.row + 1 /\ at.col = 0)
  BY MovesAlike
<1>2. PutAny(c, char) = Scrolled(e) /\ Typed(p, char) = t
  BY DEF PutAny, Typed
<1>3. /\ p.row \in Nat /\ top = (IF p.row < ROWS THEN 0 ELSE p.row - ROWS + 1)
      /\ top \in Nat /\ ROWS \in Nat \ {0} /\ COLS \in Nat \ {0}
  BY ScreenSize DEF Shows, PageFrom, Top
<1> HIDE DEF top, d, at
<1>4. /\ at.row \in Nat /\ at.col \in Nat /\ top <= at.row
      /\ DOMAIN at.ink \subseteq (0..top + ROWS - 1) \X (0..COLS - 1)
      /\ d.csr_x = at.col /\ d.csr_y = at.row - top
      /\ d.text \in [Cell -> Contents]
      /\ \A r \in 0..ROWS - 1, k \in 0..COLS - 1 : d.text[r * COLS + k] = InkAt(at, top + r, k)
  BY <1>1 DEF PageFrom, ScreenFrom, ConsoleState
<1>5. /\ e.text = d.text /\ t.ink = at.ink
      /\ e.csr_x = t.col /\ e.csr_y = t.row - top
      /\ t.row \in {p.row, p.row + 1} /\ top <= t.row
      /\ t.col \in 0..COLS - 1
      /\ t = [row |-> t.row, col |-> t.col, ink |-> t.ink]
      /\ e \in ConsoleState
  <2>1. CASE at.col >= COLS
    <3>1. e = [csr_x |-> 0, csr_y |-> d.csr_y + 1, text |-> d.text]
      BY <1>4, <2>1 DEF Wrapped
    <3>2. t = [row |-> at.row + 1, col |-> 0, ink |-> at.ink]
      BY <2>1 DEF Turned
    <3>3. at.row = p.row
      BY <1>1, <1>3, <2>1
    <3>4. e \in ConsoleState
      BY <1>3, <1>4, <3>1 DEF ConsoleState
    <3> QED
      BY <1>3, <1>4, <3>1, <3>2, <3>3, <3>4
  <2>2. CASE at.col < COLS
    <3>1. e = d /\ t = at
      BY <1>3, <1>4, <2>2 DEF Wrapped, Turned
    <3> QED
      BY <1>1, <1>3, <1>4, <2>2, <3>1
  <2> QED
    BY <1>3, <1>4, <2>1, <2>2
<1> HIDE DEF e, t
<1>7. PageFrom(t, top) /\ ScreenFrom(e, t, top)
  BY <1>3, <1>4, <1>5 DEF PageFrom, ScreenFrom, InkAt
<1>8. CASE e.csr_y < ROWS
  <2>1. Scrolled(e) = e
    BY <1>3, <1>5, <1>8 DEF Scrolled, ScrollNeeded
  <2>2. Top(t) = top
    BY <1>3, <1>5, <1>8 DEF Top
  <2> QED
    BY <1>2, <1>3, <1>5, <1>7, <2>1, <2>2 DEF Shows
<1>9. CASE e.csr_y >= ROWS
  <2>1. e.csr_y = ROWS /\ t.row = top + ROWS
    BY <1>3, <1>5, <1>9
  <2>2. Top(t) = top + 1
    BY <1>3, <2>1 DEF Top
  <2>3. /\ PageFrom(t, top + 1) /\ ScreenFrom(Scrolled(e), t, top + 1)
        /\ Scrolled(e) \in ConsoleState
    BY <1>3, <1>5, <1>7, <2>1, ScrollsAlike
  <2> QED
    BY <1>2, <1>3, <1>5, <2>2, <2>3 DEF Shows
<1> QED
  BY <1>3, <1>5, <1>8, <1>9

-----------------------------------------------------------------------------
(* Lines of a handler on the page.                                         *)

Inks == UNION {[D -> Printable \cup Control] : D \in SUBSET (Nat \X Nat)}

Page == [row : Nat, col : Nat, ink : Inks]

\* Every character brings the page from one state to another.
LEMMA TypedCloses ==
    ASSUME NEW p \in Page, NEW char \in Printable \cup Control, char = "tab" => p.col < COLS
    PROVE  Typed(p, char) \in Page
<1>1. /\ p.row \in Nat /\ p.col \in Nat /\ p.ink \in Inks
      /\ p = [row |-> p.row, col |-> p.col, ink |-> p.ink]
  BY DEF Page
<1>2. Inked(p, char) \in Page
  <2>1. CASE char = "newline"
    BY <1>1, <2>1 DEF Inked, Page
  <2>2. CASE char \in {"return", "backspace", "tab"}
    <3>1. PICK v \in Nat : Inked(p, char) = [p EXCEPT !.col = v]
      <4>1. char = "tab" => TabStop(p.col) \in Nat
        BY <1>1, ScreenSize, TabStopInRow
      <4>2. p.col # 0 => p.col - 1 \in Nat
        BY <1>1
      <4> QED
        BY <1>1, <2>2, <4>1, <4>2 DEF Inked
    <3>2. Inked(p, char) = [row |-> p.row, col |-> v, ink |-> p.ink]
      BY <1>1, <3>1
    <3> QED
      BY <1>1, <3>2 DEF Page
  <2>3. CASE char \in Printable
    <3>1. char \notin Control
      BY <2>3, ConsoleAssumption
    <3> DEFINE ink == Added(p.ink, <<p.row, p.col>>, char)
    <3>2. Inked(p, char) = [row |-> p.row, col |-> p.col + 1, ink |-> ink]
      BY <3>1 DEF Inked, Control
    <3>3. PICK D \in SUBSET (Nat \X Nat) : p.ink \in [D -> Printable \cup Control]
      BY <1>1 DEF Inks
    <3>4. {<<p.row, p.col>>} \cup D \in SUBSET (Nat \X Nat)
      BY <1>1
    <3>5. ink \in [{<<p.row, p.col>>} \cup D -> Printable \cup Control]
      BY <3>3 DEF Added
    <3> HIDE DEF ink
    <3>6. ink \in Inks
      BY <3>4, <3>5 DEF Inks
    <3> QED
      BY <1>1, <3>2, <3>6 DEF Page
  <2> QED
    BY <2>1, <2>2, <2>3 DEF Control
<1> QED
  BY <1>2 DEF Typed, Turned, Page

LEMMA OutputTyped == \A p \in Page, char \in Output : Typed(p, char) \in Page
<1> TAKE p \in Page, char \in Output
<1>1. char \in Printable \cup Control /\ char # "tab"
  BY ConsoleAssumption DEF Output, Control
<1> QED
  BY <1>1, TypedCloses

\* The fold of Typed, page by page.
LEMMA TypedOneByOne ==
    ASSUME NEW c \in Page, NEW s \in Seq(Output)
    PROVE  \E h : /\ h[0] = c /\ h[Len(s)] = FoldLeft(Typed, c, s)
                  /\ \A i \in 1..Len(s) : h[i] = Typed(h[i - 1], s[i])
<1> DEFINE n == Len(s)
           step == [p \in Page \X Output |-> Typed(p[1], p[2])]
           Eq(g) == g = [t \in SUBSET DOMAIN s |->
                          IF t = {} THEN c ELSE Typed(g[t \ {Max(t)}], s[Max(t)])]
           iter == CHOOSE g : Eq(g)
           h == [i \in 0..n |-> iter[1..i]]
<1>1. n \in Nat /\ DOMAIN s = 1..n /\ \A i \in 1..n : s[i] \in Output
  OBVIOUS
<1>2. FoldLeft(Typed, c, s) = iter[DOMAIN s]
  BY DEF FoldLeft, MapThenFoldSet
<1>3. \A a \in Page, b \in Output : step[<<a, b>>] = Typed(a, b)
  OBVIOUS
<1>10. \A a \in Page, b \in Output : step[<<a, b>>] \in Page
  BY <1>3, OutputTyped
<1>4. PICK g \in [SUBSET (1..n) -> Page] : FoldsFrom(g, c, step, s, n)
  <2>1. \A i \in 1..n : s[i] \in Output
    BY <1>1
  <2> HIDE DEF step, n, iter, h, Eq
  <2> QED
    BY <1>1, <2>1, <1>10, FoldExists
<1>5. Eq(g)
  <2> SUFFICES ASSUME NEW t \in SUBSET (1..n)
               PROVE  g[t] = IF t = {} THEN c ELSE Typed(g[t \ {Max(t)}], s[Max(t)])
    BY <1>1
  <2>1. CASE t = {}
    BY <1>4, <2>1 DEF FoldsFrom
  <2>2. CASE t # {}
    <3>1. Max(t) \in t /\ t \ {Max(t)} \in SUBSET (1..n)
      BY <1>1, <2>2, MaxIn
    <3>2. g[t \ {Max(t)}] \in Page /\ s[Max(t)] \in Output
      BY <1>1, <1>4, <3>1
    <3>3. g[t] = step[<<g[t \ {Max(t)}], s[Max(t)]>>]
      BY <1>4, <2>2 DEF FoldsFrom
    <3> QED
      BY <1>3, <2>2, <3>2, <3>3
  <2> QED
    BY <2>1, <2>2
<1>6. Eq(iter)
  BY <1>5
<1>7. /\ iter[{}] = c
      /\ \A t \in SUBSET (1..n) : t # {} => iter[t] = Typed(iter[t \ {Max(t)}], s[Max(t)])
  <2> HIDE DEF iter
  <2> QED
    BY <1>1, <1>6
<1>8. h[0] = c /\ h[n] = iter[1..n]
  <2>1. 1..0 = {}
    OBVIOUS
  <2> HIDE DEF iter
  <2> QED
    BY <1>1, <1>7, <2>1
<1>9. ASSUME NEW i \in 1..n PROVE h[i] = Typed(h[i - 1], s[i])
  <2>1. h[i] = iter[1..i] /\ h[i - 1] = iter[1..i - 1]
    <3>1. i \in 0..n /\ i - 1 \in 0..n
      BY <1>1
    <3> HIDE DEF iter, n
    <3> QED
      BY <3>1
  <2>2. 1..i \in SUBSET (1..n) /\ 1..i # {} /\ Max(1..i) = i /\ (1..i) \ {i} = 1..i - 1
    <3> HIDE DEF n
    <3> QED
      BY <1>1, FirstPositions
  <2> HIDE DEF iter, n, h
  <2>3. iter[1..i] = Typed(iter[(1..i) \ {Max(1..i)}], s[Max(1..i)])
    BY <1>7, <2>2
  <2> QED
    BY <2>1, <2>2, <2>3
<1> HIDE DEF iter, h
<1> QED
  BY <1>1, <1>2, <1>8, <1>9

\* A line of output leaves the screen showing the page.
LEMMA PutsShow ==
    ASSUME NEW c \in ConsoleState, NEW p \in Page, Shows(c, p), NEW s \in Seq(Output)
    PROVE  FoldLeft(Typed, p, s) \in Page /\ Shows(FoldLeft(Put, c, s), FoldLeft(Typed, p, s))
<1> DEFINE n == Len(s)
<1>1. n \in Nat /\ \A i \in 1..n : s[i] \in Output
  OBVIOUS
<1>2. \A char \in Output : char \in Printable \cup Control /\ char \notin {"return", "backspace", "tab"}
  BY ConsoleAssumption DEF Output, Control
<1>3. \A d \in ConsoleState, char \in Output : Put(d, char) = PutAny(d, char)
  BY <1>2 DEF Put, PutAny, MovedBy
<1>4. PICK h : /\ h[0] = c /\ h[n] = FoldLeft(Put, c, s)
               /\ \A i \in 1..n : h[i] = Put(h[i - 1], s[i])
  BY PutsOneByOne
<1>5. PICK k : /\ k[0] = p /\ k[n] = FoldLeft(Typed, p, s)
               /\ \A i \in 1..n : k[i] = Typed(k[i - 1], s[i])
  BY TypedOneByOne
<1> HIDE DEF n
<1> DEFINE both == [i \in 0..n |-> <<h[i], k[i]>>]
           Good == {q \in ConsoleState \X Page : Shows(q[1], q[2])}
<1>6. \A d \in ConsoleState, t \in Page : <<d, t>> \in Good <=> Shows(d, t)
  OBVIOUS
<1>7. \A i \in 0..n : both[i] = <<h[i], k[i]>>
  OBVIOUS
<1>8. 0 \in 0..n /\ n \in 0..n /\ \A i \in 1..n : i \in 0..n /\ i - 1 \in 0..n
  BY <1>1
<1>9. \A d, t : <<d, t>> \in Good => d \in ConsoleState /\ t \in Page /\ Shows(d, t)
  OBVIOUS
<1> HIDE DEF both, Good
<1>10. both[0] \in Good
  BY <1>4, <1>5, <1>6, <1>7, <1>8
<1>11. ASSUME NEW i \in 1..n, both[i - 1] \in Good PROVE both[i] \in Good
  <2>1. h[i - 1] \in ConsoleState /\ k[i - 1] \in Page /\ Shows(h[i - 1], k[i - 1])
    BY <1>7, <1>8, <1>9, <1>11
  <2>2. s[i] \in Output /\ s[i] \in Printable \cup Control
    BY <1>1, <1>2
  <2>3. /\ Put(h[i - 1], s[i]) \in ConsoleState /\ Typed(k[i - 1], s[i]) \in Page
        /\ Put(h[i - 1], s[i]) = PutAny(h[i - 1], s[i])
    BY <1>3, <2>1, <2>2, PutCloses, OutputTyped
  <2>4. Shows(PutAny(h[i - 1], s[i]), Typed(k[i - 1], s[i]))
    BY <2>1, <2>2, TypesAlike
  <2>5. h[i] \in ConsoleState /\ k[i] \in Page /\ Shows(h[i], k[i])
    BY <1>4, <1>5, <2>3, <2>4
  <2> QED
    BY <1>6, <1>7, <1>8, <2>5
<1>12. both[n] \in Good
  BY <1>1, <1>10, <1>11, PassedOn
<1> QED
  BY <1>4, <1>5, <1>7, <1>8, <1>9, <1>12

-----------------------------------------------------------------------------
(* A call of putch, step by step.                                          *)

\* The column putch is about to store, and the text with its scrolling finished.
NextColumn(char, x) ==
    CASE char = "backspace" -> x - 1 [] char = "tab" -> TabStop(x) [] OTHER -> x + 1

\* What the console will be when the call of putch is over, if nothing is printed in its midst.
Finished ==
    CASE pc \in {"putch", "where", "ink"} -> PutAny(console, loc.char)
      [] pc \in {"load_x", "store_x"} ->
            Scrolled(Wrapped([console EXCEPT !.csr_x = NextColumn(loc.char, @)]))
      [] pc \in {"wrap", "margin"} -> Scrolled(Wrapped(console))
      [] pc \in {"load_row", "store_row"} ->
            Scrolled([console EXCEPT !.csr_y = @ + 1])
      [] pc \in {"scroll", "temp"} -> Scrolled(console)
      [] pc = "copy" -> [csr_x |-> console.csr_x, csr_y |-> ROWS - 1,
                         text |-> Cleared(Copied(console.text, loc.reg), loc.reg)]
      [] pc = "clear" -> [csr_x |-> console.csr_x, csr_y |-> ROWS - 1,
                          text |-> Cleared(console.text, loc.reg)]
      [] pc = "last_row" -> [console EXCEPT !.csr_y = ROWS - 1]
      [] OTHER -> console

\* What putch has read is still so.
Fresh ==
    /\ pc \in {"where", "ink"} => loc.char \in Printable
    /\ pc = "where" => loc.reg = console.csr_y * COLS
    /\ pc = "ink" => loc.reg = console.csr_y * COLS + console.csr_x
    /\ pc = "store_x" => loc.reg = console.csr_x
    /\ pc = "margin" => console.csr_x >= COLS
    /\ pc \in {"load_row", "store_row"} => console.csr_x < COLS
    /\ pc = "store_row" => loc.reg = console.csr_y
    /\ pc = "temp" => console.csr_y >= ROWS
    /\ pc = "copy" => loc.reg = console.csr_y - ROWS + 1

Shown == torn = {} => paper \in Page /\ Fresh /\ Shows(Finished, paper)

\* Every step of putch leaves as it was what the call will have done.
LEMMA PutchFinishes == ASSUME ConsoleTypes, PutchStep, Fresh PROVE Fresh' /\ Finished' = Finished
<1> DEFINE x == console.csr_x
           y == console.csr_y
           text == console.text
           cursor(a, b) == [csr_x |-> a, csr_y |-> b, text |-> text]
<1> USE DEF Go, Step, Return, Printing
<1>1. pc \in PutchStepsAt
  BY DEF PutchStep, Backspace, Tab, CarriageReturn, Newline, WhereRow, WhereColumn, Ink, LoadX,
         StoreX, Wrap, Margin, LoadRow, StoreRow, NoScroll, Scroll, Temp, Copy, Clear, LastRow,
         PutchStepsAt, Load, SetX, SetY, SetText, ConsoleTypes, PutchLocals, consoleVars
<1>2. /\ loc \in PutchLocals /\ loc.reg \in Int /\ loc.char \in Printable \cup Control
      /\ loc.next \in {"wrap", "scroll"}
      /\ x \in Int /\ y \in Int /\ console = cursor(x, y)
  BY <1>1, ConsoleAssumption DEF ConsoleTypes, PutchLocals, ConsoleState
<1>3. /\ \A a : [console EXCEPT !.csr_x = a] = cursor(a, y)
      /\ \A b : [console EXCEPT !.csr_y = b] = cursor(x, b)
      /\ \A new : [console EXCEPT !.text = new] = [csr_x |-> x, csr_y |-> y, text |-> new]
      /\ [console EXCEPT !.csr_y = @ + 1] = cursor(x, y + 1)
      /\ \A a : [console EXCEPT !.csr_x = NextColumn(loc.char, @)] = cursor(NextColumn(loc.char, x), y)
  BY <1>2
<1>4. /\ [loc EXCEPT !.next = "scroll"].next = "scroll"
      /\ \A v : [loc EXCEPT !.reg = v].reg = v /\ [loc EXCEPT !.reg = v].char = loc.char
                /\ [loc EXCEPT !.reg = v].next = loc.next
  BY <1>2 DEF PutchLocals
<1>5. ROWS \in Nat \ {0} /\ COLS \in Nat \ {0}
  BY ScreenSize
<1>6. \A c \in Printable : c \notin Control
  BY ConsoleAssumption
<1> HIDE DEF x, y, text, cursor

<1> USE <1>5 DEF Fresh, Finished
<1>7. CASE Backspace
  <2>1. pc = "putch" /\ loc.char = "backspace" /\ console' = console /\ loc' = loc
    BY <1>7 DEF Backspace, consoleVars
  <2>2. Finished = Scrolled(Wrapped(cursor(IF x = 0 THEN 0 ELSE x - 1, y)))
    BY <1>3, <2>1 DEF PutAny, MovedBy, x
  <2>3. CASE x # 0
    <3>1. pc' = "load_x"
      BY <1>7, <2>3 DEF Backspace, x
    <3> QED
      BY <1>3, <2>1, <2>2, <2>3, <3>1 DEF NextColumn
  <2>4. CASE x = 0
    <3>1. pc' = "wrap"
      BY <1>7, <2>4 DEF Backspace, x
    <3> QED
      BY <1>2, <2>1, <2>2, <2>4, <3>1
  <2> QED
    BY <2>3, <2>4
<1>8. CASE Tab
  <2>1. pc = "putch" /\ pc' = "load_x" /\ loc.char = "tab" /\ console' = console /\ loc' = loc
    BY <1>8 DEF Tab, consoleVars
  <2>2. Finished = Scrolled(Wrapped(cursor(TabStop(x), y)))
    BY <1>3, <2>1 DEF PutAny, MovedBy, x
  <2> QED
    BY <1>3, <2>1, <2>2 DEF NextColumn
<1>9. CASE CarriageReturn
  <2>1. pc = "putch" /\ pc' = "wrap" /\ loc.char = "return" /\ console' = cursor(0, y)
    BY <1>3, <1>9 DEF CarriageReturn, SetX
  <2>2. Finished = Scrolled(Wrapped(cursor(0, y)))
    BY <1>3, <2>1 DEF PutAny, MovedBy
  <2> QED
    BY <2>1, <2>2
<1>10. CASE Newline
  <2>1. pc = "putch" /\ pc' = "load_row" /\ loc.char = "newline" /\ console' = cursor(0, y)
    BY <1>3, <1>10 DEF Newline, SetX
  <2>2. Finished = Scrolled(Wrapped(cursor(0, y + 1)))
    BY <2>1 DEF PutAny, MovedBy, Moved, cursor, y, text
  <2>3. Wrapped(cursor(0, y + 1)) = cursor(0, y + 1)
    BY DEF Wrapped, cursor
  <2>4. console'.csr_x = 0 /\ [console' EXCEPT !.csr_y = @ + 1] = cursor(0, y + 1)
    BY <2>1 DEF cursor
  <2> QED
    BY <2>1, <2>2, <2>3, <2>4
<1>11. CASE WhereRow
  <2>1. /\ pc = "putch" /\ pc' = "where" /\ loc.char \in Printable /\ console' = console
        /\ loc' = [loc EXCEPT !.reg = y * COLS]
    BY <1>11 DEF WhereRow, Load, consoleVars, y
  <2>2. loc'.reg = y * COLS /\ loc'.char = loc.char
    BY <1>4, <2>1
  <2> QED
    BY <2>1, <2>2 DEF y
<1>12. CASE WhereColumn
  <2>1. /\ pc = "where" /\ pc' = "ink" /\ console' = console
        /\ loc' = [loc EXCEPT !.reg = loc.reg + x]
    BY <1>12 DEF WhereColumn, Load, consoleVars, x
  <2>2. loc'.reg = loc.reg + x /\ loc'.char = loc.char
    BY <1>4, <2>1
  <2> QED
    BY <2>1, <2>2 DEF x, y
<1>13. CASE Ink
  <2> DEFINE new == [text EXCEPT ![y * COLS + x] = loc.char]
  <2>1. /\ pc = "ink" /\ pc' = "load_x" /\ loc' = loc
        /\ loc.char \in Printable
        /\ console' = [csr_x |-> x, csr_y |-> y, text |-> new]
    BY <1>3, <1>13 DEF Ink, SetText, x, y, text
  <2>2. loc.char \notin Control
    BY <1>6, <2>1
  <2>3. Finished = Scrolled(Wrapped([csr_x |-> x + 1, csr_y |-> y, text |-> new]))
    BY <2>1, <2>2 DEF PutAny, MovedBy, Moved, Control, x, y, text
  <2>4. NextColumn(loc.char, x) = x + 1
    BY <2>2 DEF NextColumn, Control
  <2> HIDE DEF new
  <2>5. [console' EXCEPT !.csr_x = NextColumn(loc.char, @)]
            = [csr_x |-> x + 1, csr_y |-> y, text |-> new]
    BY <2>1, <2>4
  <2> QED
    BY <2>1, <2>3, <2>5
<1>14. CASE LoadX
  <2>1. /\ pc = "load_x" /\ pc' = "store_x" /\ console' = console
        /\ loc' = [loc EXCEPT !.reg = x]
    BY <1>14 DEF LoadX, Load, consoleVars, x
  <2>2. loc'.reg = x /\ loc'.char = loc.char
    BY <1>4, <2>1
  <2> QED
    BY <2>1, <2>2 DEF x
<1>15. CASE StoreX
  <2>1. pc = "store_x" /\ pc' = "wrap" /\ loc.reg = x
    BY <1>15 DEF StoreX, SetX, x
  <2>2. console' = [console EXCEPT !.csr_x = NextColumn(loc.char, loc.reg)]
    BY <1>15 DEF StoreX, SetX, NextColumn
  <2>3. console' = cursor(NextColumn(loc.char, x), y)
    BY <1>3, <2>1, <2>2
  <2> QED
    BY <1>3, <2>1, <2>3
<1>16. CASE Wrap
  <2>1. pc = "wrap" /\ console' = console
    BY <1>16 DEF Wrap, consoleVars
  <2>2. CASE x >= COLS
    <3>1. pc' = "margin"
      BY <1>16, <2>2 DEF Wrap, x
    <3> QED
      BY <2>1, <2>2, <3>1 DEF x
  <2>3. CASE ~(x >= COLS)
    <3>1. pc' = "scroll" /\ Wrapped(console) = console
      BY <1>16, <2>3 DEF Wrap, Wrapped, x
    <3> QED
      BY <2>1, <3>1
  <2> QED
    BY <2>2, <2>3
<1>17. CASE Margin
  <2>1. pc = "margin" /\ pc' = "load_row" /\ x >= COLS /\ console' = cursor(0, y)
    BY <1>3, <1>17 DEF Margin, x
  <2>2. Wrapped(console) = cursor(0, y + 1)
    BY <2>1 DEF Wrapped, cursor, x, y, text
  <2>3. console'.csr_x = 0 /\ [console' EXCEPT !.csr_y = @ + 1] = cursor(0, y + 1)
    BY <2>1 DEF cursor
  <2> QED
    BY <2>1, <2>2, <2>3
<1>18. CASE LoadRow
  <2>1. /\ pc = "load_row" /\ pc' = "store_row" /\ console' = console
        /\ loc' = [loc EXCEPT !.reg = y]
    BY <1>18 DEF LoadRow, Load, consoleVars, y
  <2>2. loc'.reg = y
    BY <1>4, <2>1
  <2> QED
    BY <2>1, <2>2 DEF y
<1>19. CASE StoreRow
  <2>1. /\ pc = "store_row" /\ pc' \in {"wrap", "scroll"} /\ x < COLS
        /\ console' = cursor(x, y + 1)
    BY <1>2, <1>3, <1>19 DEF StoreRow, SetY, x, y
  <2>2. Finished = Scrolled(cursor(x, y + 1))
    BY <1>3, <2>1
  <2>3. Wrapped(cursor(x, y + 1)) = cursor(x, y + 1)
    BY <1>2, <2>1 DEF Wrapped, cursor
  <2> QED
    BY <2>1, <2>2, <2>3
<1>20. CASE NoScroll
  <2>1. pc = "scroll" /\ pc' = "idle" /\ console' = console /\ Scrolled(console) = console
    BY <1>20 DEF NoScroll, consoleVars, Scrolled
  <2> QED
    BY <2>1
<1>21. CASE Scroll
  <2>1. pc = "scroll" /\ pc' = "temp" /\ console' = console /\ console.csr_y >= ROWS
    BY <1>21 DEF Scroll, consoleVars, ScrollNeeded
  <2> QED
    BY <2>1
<1>22. CASE Temp
  <2>1. /\ pc = "temp" /\ pc' = "copy" /\ console' = console /\ y >= ROWS
        /\ loc' = [loc EXCEPT !.reg = y - ROWS + 1]
    BY <1>22 DEF Temp, Load, consoleVars, y
  <2>2. loc'.reg = y - ROWS + 1
    BY <1>4, <2>1
  <2> QED
    BY <2>1, <2>2 DEF Scrolled, ScrollNeeded, y
<1>23. CASE Copy
  <2> DEFINE new == Copied(text, loc.reg)
  <2>1. /\ pc = "copy" /\ pc' = "clear" /\ loc' = loc
        /\ console' = [csr_x |-> x, csr_y |-> y, text |-> new]
    BY <1>3, <1>23 DEF Copy, SetText, text
  <2> HIDE DEF new
  <2>2. console'.csr_x = x /\ console'.text = new
    BY <2>1
  <2> QED
    BY <2>1, <2>2 DEF x, text, new
<1>24. CASE Clear
  <2> DEFINE new == Cleared(text, loc.reg)
  <2>1. /\ pc = "clear" /\ pc' = "last_row" /\ loc' = loc
        /\ console' = [csr_x |-> x, csr_y |-> y, text |-> new]
    BY <1>3, <1>24 DEF Clear, SetText, text
  <2> HIDE DEF new
  <2>2. [console' EXCEPT !.csr_y = ROWS - 1] = [csr_x |-> x, csr_y |-> ROWS - 1, text |-> new]
    BY <2>1
  <2> QED
    BY <2>1, <2>2 DEF x, text, new
<1>25. CASE LastRow
  <2>1. pc = "last_row" /\ pc' = "idle" /\ console' = [console EXCEPT !.csr_y = ROWS - 1]
    BY <1>25 DEF LastRow, SetY
  <2> QED
    BY <2>1
<1> QED
  BY <1>7, <1>8, <1>9, <1>10, <1>11, <1>12, <1>13, <1>14, <1>15, <1>16, <1>17, <1>18, <1>19,
     <1>20, <1>21, <1>22, <1>23, <1>24, <1>25 DEF PutchStep

LEMMA NothingTyped == \A p \in Page : FoldLeft(Typed, p, <<>>) = p
<1> TAKE p \in Page
<1>1. <<>> \in Seq(Output) /\ Len(<<>>) = 0
  OBVIOUS
<1> QED
  BY <1>1, TypedOneByOne

\* A handler that prints nothing in the midst of putch changes nothing; a line between two
\* calls is shown.
LEMMA PutsShown ==
    ASSUME InOneCall, ConsoleTypes, Shown, UNCHANGED callerVars, NEW s \in Seq(Output), puts(s)
    PROVE  Shown'
<1>1. pc' = pc /\ loc' = loc
  BY DEF callerVars
<1>2. /\ console' = FoldLeft(Put, console, s)
      /\ torn' = IF pc \in PutchStepsAt /\ s # <<>> THEN torn \cup {loc.char} ELSE torn
      /\ console \in ConsoleState
  BY PutsTypes DEF ConsoleTypes
<1> SUFFICES ASSUME torn' = {} PROVE paper' \in Page /\ Fresh' /\ Shows(Finished', paper')
  BY DEF Shown
<1>3. paper \in Page /\ Fresh /\ Shows(Finished, paper) /\ paper' = FoldLeft(Typed, paper, s)
  BY <1>2 DEF Shown, puts
<1>4. CASE s = <<>>
  <2>1. console' = console /\ paper' = paper
    BY <1>2, <1>3, <1>4, PutsMove, NothingTyped
  <2> QED
    BY <1>1, <1>3, <2>1 DEF Fresh, Finished
<1>5. CASE s # <<>>
  <2>1. pc \notin PutchStepsAt
    BY <1>2, <1>5
  <2>2. Finished = console /\ Finished' = console' /\ Fresh'
    BY <1>1, <2>1 DEF Finished, Fresh, PutchStepsAt
  <2> QED
    BY <1>2, <1>3, <2>2, PutsShow
<1> QED
  BY <1>4, <1>5

\* A character is on the page when its call starts.
LEMMA PutchStarts == ASSUME ConsoleTypes, Shown, CallPutch PROVE Shown'
<1> SUFFICES ASSUME torn' = {} PROVE paper' \in Page /\ Fresh' /\ Shows(Finished', paper')
  BY DEF Shown
<1>1. PICK char \in Char :
          /\ pc = "idle" /\ pc' = "putch" /\ loc'.char = char /\ console' = console
          /\ torn = {} /\ paper' = Typed(paper, char)
  BY DEF CallPutch, Call, Go
<1>2. char \in Printable \cup Control /\ console \in ConsoleState
  BY ConsoleAssumption DEF ConsoleTypes
<1>3. paper \in Page /\ Shows(console, paper) /\ paper.col < COLS
  BY <1>1 DEF Shown, Finished, Shows
<1>4. paper' \in Page
  BY <1>1, <1>2, <1>3, TypedCloses
<1>5. Finished' = PutAny(console, char) /\ Fresh'
  BY <1>1 DEF Finished, Fresh
<1> QED
  BY <1>1, <1>2, <1>3, <1>4, <1>5, TypesAlike

LEMMA NextShown == InOneCall /\ Counting /\ ConsoleTypes /\ Shown /\ [Next]_vars => Shown'
<1> SUFFICES ASSUME InOneCall, Counting, ConsoleTypes, Shown, [Next]_vars PROVE Shown'
  OBVIOUS
<1>1. CASE Boot \/ \E n \in Line : Interrupt(n)
  BY <1>1, PrintsOnly, PutsShown
<1>2. CASE UNCHANGED <<callerVars, consoleVars>>
  BY <1>2 DEF callerVars, consoleVars, Shown, Fresh, Finished
<1> DEFINE Elsewhen == TimerStepsAt \cup KeyboardStepsAt \cup {"idle"}
<1>3. ASSUME UNCHANGED consoleVars, pc \in Elsewhen, pc' \in Elsewhen PROVE Shown'
  BY <1>3 DEF consoleVars, Shown, Fresh, Finished, TimerStepsAt, KeyboardStepsAt
<1>4. CASE CallSome
  <2>1. CASE CallPutch
    BY <2>1, PutchStarts
  <2>2. CASE (TimerCall \/ CallKeyboard) /\ UNCHANGED consoleVars
    <3>1. pc = "idle" /\ pc' \in {"read_seconds", "clear_key"}
      BY <2>2 DEF TimerCall, CallCurrent, CallWait, CallTimer, CallKeyboard, Call, Go
    <3> QED
      BY <1>3, <2>2, <3>1 DEF TimerStepsAt, KeyboardStepsAt
  <2> QED
    BY <1>4, <2>1, <2>2 DEF CallSome
<1>5. CASE CallGoesOn
  <2>1. CASE PutchStep
    <3>1. torn' = torn /\ paper' = paper
      BY <2>1
         DEF PutchStep, Backspace, Tab, CarriageReturn, Newline, WhereRow, WhereColumn, Ink,
             LoadX, StoreX, Wrap, Margin, LoadRow, StoreRow, NoScroll, Scroll, Temp, Copy,
             Clear, LastRow, Load, SetX, SetY, SetText, consoleVars
    <3>2. Fresh => Fresh' /\ Finished' = Finished
      BY <2>1, PutchFinishes
    <3> QED
      BY <3>1, <3>2 DEF Shown
  <2>2. CASE TimerStep /\ UNCHANGED consoleVars
    <3>1. pc \in TimerStepsAt /\ pc' \in TimerStepsAt \cup {"idle"}
      BY <2>2, TimerStepStays
    <3> QED
      BY <1>3, <2>2, <3>1
  <2>3. CASE KeyboardStep /\ UNCHANGED consoleVars
    <3>1. pc \in KeyboardStepsAt /\ pc' \in KeyboardStepsAt \cup {"idle"}
      BY <2>3, KeyboardStepStays
    <3> QED
      BY <1>3, <2>3, <3>1
  <2> QED
    BY <1>5, <2>1, <2>2, <2>3 DEF CallGoesOn
<1> QED
  BY <1>1, <1>2, <1>4, <1>5
     DEF Next, TimerFires, KeyArrives, OtherRaises, Requests, Spin, vars

LEMMA InitShown == Init => Shown
<1> SUFFICES ASSUME Init PROVE paper \in Page /\ Fresh /\ Shows(Finished, paper)
  BY DEF Shown
<1>1. /\ pc = "idle"
      /\ console = [csr_x |-> 0, csr_y |-> 0,
                    text |-> [i \in Cell |-> IF i \in RowsFrom(0, ROWS) THEN Blank ELSE Elsewhere]]
      /\ paper = [row |-> 0, col |-> 0, ink |-> <<>>]
  BY DEF Init, CallerInit, ConsoleInit, NoPaper
<1>2. DOMAIN <<>> = {} /\ <<>> \in [{} -> Printable \cup Control]
  OBVIOUS
<1>3. <<>> \in Inks
  <2>1. {} \in SUBSET (Nat \X Nat)
    OBVIOUS
  <2> QED
    BY <1>2, <2>1 DEF Inks
<1>4. paper \in Page
  BY <1>1, <1>3 DEF Page
<1>5. Fresh /\ Finished = console
  BY <1>1 DEF Fresh, Finished
<1>6. Top(paper) = 0 /\ PageFrom(paper, 0)
  BY <1>1, <1>2, ScreenSize DEF Top, PageFrom
<1>7. \A r \in 0..ROWS - 1, k \in 0..COLS - 1 : InkAt(paper, 0 + r, k) = Blank
  BY <1>1, <1>2 DEF InkAt
<1>8. \A r \in 0..ROWS - 1, k \in 0..COLS - 1 : console.text[r * COLS + k] = Blank
  BY <1>1, ScreenCells, CellOnScreen
<1>9. ScreenFrom(console, paper, 0)
  BY <1>1, <1>7, <1>8 DEF ScreenFrom
<1> QED
  BY <1>1, <1>4, <1>5, <1>6, <1>9, ScreenSize DEF Shows

THEOREM AlwaysShown == Spec => []Shown
<1>1. Clock => InOneCall /\ Counting
  BY DEF Clock
<1>2. InOneCall /\ Counting /\ ConsoleTypes /\ Shown /\ [Next]_vars => Shown'
  BY NextShown
<1> QED
  BY <1>1, <1>2, InitShown, AlwaysConsoleTypes, AlwaysClock, PTL DEF Spec

\* As long as no handler prints in the midst of a putch, the screen shows the last rows of
\* what has been printed, on a screen of any size (putch, puts and scroll of console.C).
THEOREM ScreenAlwaysShowsText == Spec => []ScreenShowsText
<1>1. Shown => ScreenShowsText
  <2> SUFFICES ASSUME Shown, torn = {}, pc = "idle" PROVE ScreenShowsText
    BY DEF ScreenShowsText
  <2>1. Shows(console, paper)
    BY DEF Shown, Finished
  <2> QED
    BY <2>1 DEF Shows, ScreenFrom, Top, InkAt, ScreenShowsText
<1> QED
  BY <1>1, AlwaysShown, PTL
=============================================================================
