------------------------- MODULE ThreadSwitchProofs -------------------------
(***************************************************************************)
(* Theorems about ThreadSwitch.tla with interrupts disabled, as threads    *)
(* run in P5: for any number of threads, any order of dispatches and any   *)
(* stack deep enough, a switch returns to its caller, the frames of        *)
(* setup_context and of the switch have one size, and a new thread runs    *)
(* through its chain of functions.                                         *)
(***************************************************************************)
EXTENDS ThreadSwitch, TLAPS

\* Where a thread is between switches, and how many of the words setup_context pushed
\* for its chain of functions it has not returned through.
Place == {"thread_start", "tfunction", "thread_shutdown"}
Level(e) == CASE e = "thread_start" -> 3 [] e = "tfunction" -> 2 [] OTHER -> 1

\* The rest of the chain is on the stack.
Chained(t, n) ==
    /\ stack[t][1] = "arg_0"
    /\ n >= 2 => stack[t][2] = "thread_shutdown"
    /\ n = 3 => stack[t][3] = "tfunction"

\* What iret pops to take thread t to where it shall go, 14 words above its saved esp.
Framed(t, top) ==
    /\ stack[t][top] = want[t].eip
    /\ stack[t][top - 1] = "CS"
    /\ stack[t][top - 2] = Eflags(FALSE)

\* The depth of that frame: a caller's lies on the argument it pushed.
FrameTop(t) == want[t].esp + (IF want[t].eip = "thread_start" THEN 3 ELSE 4)

Suspended(t) ==
    /\ saved_esp[t] = FrameTop(t) + FillerWords + RegisterWords
    /\ Framed(t, FrameTop(t))
    /\ Chained(t, want[t].esp)

Shapes ==
    /\ current_thread \in Thread
    /\ stack = [t \in Thread |-> [d \in 1..StackWords |-> stack[t][d]]]
    /\ saved_esp = [t \in Thread |-> saved_esp[t]]
    /\ want = [t \in Thread |-> want[t]]
    /\ \A t \in Thread :
          /\ want[t].eip \in Place
          /\ want[t].esp = Level(want[t].eip)
          /\ want[t].flag = FALSE

\* Interrupts are enabled only until the first thread starts.
Masked == IF_flag = FALSE \/ (IF_flag = TRUE /\ eip \in {"restore", "iret"})

OthersSuspended == \A t \in Thread : t # current_thread => Suspended(t)

\* In the switch, w words above the caller's: the argument, then what has been stored.
InCall(w) ==
    /\ want[current_thread].eip # "thread_start"
    /\ Chained(current_thread, want[current_thread].esp)
    /\ Word(want[current_thread].esp + 1) \in Thread
    /\ esp = want[current_thread].esp + w

\* The words of the frame built so far: the return address, EFLAGS and CS.
ReturnStored == Word(want[current_thread].esp + 4) = want[current_thread].eip
FlagsPushed == Word(want[current_thread].esp + 2) = Eflags(FALSE)
CSPushed == Word(want[current_thread].esp + 3) = "CS"

\* How far the current thread is, by the instruction that comes next.
Progress ==
    /\ eip \in Place => esp = Level(eip) /\ Chained(current_thread, esp)
    /\ eip \in {"push_eax", "mov_eax_[esp+4]"} =>
          Word(want[current_thread].esp + 2) = want[current_thread].eip
    /\ eip = "push_eax" => InCall(2)
    /\ eip = "mov_eax_[esp+4]" => InCall(3)
    /\ eip = "mov_[esp-4]_eax" => InCall(3) /\ eax = want[current_thread].eip
    /\ eip = "add_esp_8" => InCall(3) /\ ReturnStored
    /\ eip = "pushfd" => InCall(1) /\ ReturnStored
    /\ eip = "mov_eax_[esp-4]" => InCall(2) /\ ReturnStored /\ FlagsPushed
    /\ eip = "push_CS" => InCall(2) /\ ReturnStored /\ FlagsPushed
    /\ eip = "sub_esp_4" => InCall(3) /\ ReturnStored /\ FlagsPushed /\ CSPushed
    /\ eip = "save" => InCall(4) /\ ReturnStored /\ FlagsPushed /\ CSPushed
    /\ eip = "mov_[current]_esp" => InCall(18) /\ ReturnStored /\ FlagsPushed /\ CSPushed
    /\ eip = "mov_eax_[esp+68]" => InCall(18) /\ Suspended(current_thread)
    /\ eip = "mov_current_eax" => eax \in Thread /\ Suspended(current_thread)
    /\ eip = "restore" => Suspended(current_thread) /\ esp = saved_esp[current_thread]
    /\ eip = "iret" => Suspended(current_thread) /\ esp = FrameTop(current_thread)

Instructions ==
    {"push_eax", "mov_eax_[esp+4]", "mov_[esp-4]_eax", "add_esp_8", "pushfd",
     "mov_eax_[esp-4]", "push_CS", "sub_esp_4", "save", "mov_[current]_esp",
     "mov_eax_[esp+68]", "mov_current_eax", "restore", "iret"}

Switching ==
    /\ Shapes
    /\ eip \in Place \cup Instructions
    /\ Masked
    /\ OthersSuspended
    /\ Progress

-----------------------------------------------------------------------------
(* What a step leaves alone.                                               *)

\* The depths that matter of a thread that is not running.
LEMMA Depths ==
    ASSUME Shapes, NEW t \in Thread
    PROVE  /\ want[t].esp \in 1..3
           /\ want[t].eip = "thread_start" => want[t].esp = 3 /\ FrameTop(t) = 6
           /\ want[t].eip # "thread_start" =>
                 want[t].esp \in 1..2 /\ FrameTop(t) = want[t].esp + 4
           /\ FrameTop(t) \in 5..6
PROOF
<1>1. want[t].eip \in Place /\ want[t].esp = Level(want[t].eip)
  BY DEF Shapes
<1>2. /\ want[t].esp \in 1..3
      /\ want[t].eip = "thread_start" => want[t].esp = 3
      /\ want[t].eip # "thread_start" => want[t].esp \in 1..2
  BY <1>1 DEF Place, Level
<1> QED
  BY <1>2 DEF FrameTop

\* A thread whose saved frame is not written to stays suspended.
LEMMA StaysSuspended ==
    ASSUME Shapes, NEW t \in Thread, Suspended(t),
           saved_esp'[t] = saved_esp[t], want'[t] = want[t],
           \A d \in 1..FrameTop(t) : stack'[t][d] = stack[t][d]
    PROVE  Suspended(t)'
PROOF
<1> DEFINE top == FrameTop(t)
<1>1. /\ top \in 5..6 /\ want[t].esp \in 1..3 /\ top - 1 \in 1..top /\ top - 2 \in 1..top
      /\ 1 \in 1..top /\ 2 \in 1..top /\ 3 \in 1..top /\ top \in 1..top
  BY Depths
<1>2. FrameTop(t)' = top
  BY DEF FrameTop
<1>3. saved_esp'[t] = top + FillerWords + RegisterWords
  BY DEF Suspended
<1>4. /\ stack'[t][top] = want'[t].eip
      /\ stack'[t][top - 1] = "CS"
      /\ stack'[t][top - 2] = Eflags(FALSE)
  BY <1>1 DEF Suspended, Framed
<1>5. Chained(t, want[t].esp)'
  BY <1>1 DEF Suspended, Chained
<1> HIDE DEF top
<1>6. Framed(t, FrameTop(t))'
  BY <1>2, <1>4 DEF Framed
<1> QED
  BY <1>2, <1>3, <1>5, <1>6 DEF Suspended

\* A step that only moves registers.
LEMMA RegistersOnly ==
    ASSUME Shapes, OthersSuspended, UNCHANGED <<current_thread, saved_esp, stack, want>>
    PROVE  /\ Shapes' /\ OthersSuspended'
           /\ \A t \in Thread : Suspended(t) => Suspended(t)'
PROOF
<1>1. \A t \in Thread : Suspended(t) => Suspended(t)'
  BY StaysSuspended
<1> QED
  BY <1>1 DEF Shapes, OthersSuspended

\* A store to the running thread's own stack.
LEMMA OwnStack ==
    ASSUME Shapes, OthersSuspended, UNCHANGED <<current_thread, saved_esp, want>>,
           stack' = [stack EXCEPT ![current_thread] = stack'[current_thread]],
           stack'[current_thread] =
              [d \in 1..StackWords |-> stack'[current_thread][d]]
    PROVE  Shapes' /\ OthersSuspended'
PROOF
<1>1. \A t \in Thread : t # current_thread => stack'[t] = stack[t]
  BY DEF Shapes
<1>2. \A t \in Thread : t # current_thread => Suspended(t)'
  BY <1>1, StaysSuspended DEF OthersSuspended
<1>3. stack' = [t \in Thread |-> [d \in 1..StackWords |-> stack'[t][d]]]
  BY DEF Shapes
<1> QED
  BY <1>2, <1>3 DEF Shapes, OthersSuspended

\* A push, or a store below the stack pointer.
LEMMA OneWord ==
    ASSUME Shapes, OthersSuspended, UNCHANGED <<current_thread, saved_esp, want>>,
           NEW d \in 1..StackWords, NEW w, Put(d, w)
    PROVE  /\ Shapes' /\ OthersSuspended'
           /\ \A e \in 1..StackWords :
                 stack'[current_thread][e] = IF e = d THEN w ELSE stack[current_thread][e]
PROOF
<1>1. /\ current_thread \in Thread
      /\ stack[current_thread] = [e \in 1..StackWords |-> stack[current_thread][e]]
  BY DEF Shapes
<1>2. stack'[current_thread] =
         [e \in 1..StackWords |-> IF e = d THEN w ELSE stack[current_thread][e]]
  BY <1>1 DEF Put, Shapes
<1>3. stack' = [stack EXCEPT ![current_thread] = stack'[current_thread]]
  BY <1>1, <1>2 DEF Put, Shapes
<1>4. Shapes' /\ OthersSuspended'
  BY <1>2, <1>3, OwnStack
<1> QED
  BY <1>2, <1>4

-----------------------------------------------------------------------------
(* The instructions of threads_low_switch_to up to the change of stacks.   *)

\* What holds all through the part of the switch that runs on the caller's stack.
LEMMA CallFacts ==
    ASSUME Switching, eip \in Instructions \ {"mov_current_eax", "restore", "iret"}
    PROVE  /\ current_thread \in Thread
           /\ want[current_thread].esp \in 1..2
           /\ want[current_thread].eip \in Place \ {"thread_start"}
           /\ Chained(current_thread, want[current_thread].esp)
           /\ stack[current_thread][want[current_thread].esp + 1] \in Thread
           /\ IF_flag = FALSE
           /\ StackWords \in Nat /\ StackWords >= 24
PROOF
<1>1. \E w : InCall(w)
  BY DEF Switching, Progress, Instructions
<1>2. current_thread \in Thread /\ want[current_thread].eip \in Place
  BY DEF Switching, Shapes
<1>3. want[current_thread].esp \in 1..2
  BY <1>1, <1>2, Depths DEF Switching, InCall
<1>4. IF_flag = FALSE
  BY DEF Switching, Masked, Instructions
<1> QED
  BY <1>1, <1>2, <1>3, <1>4, ThreadSwitchAssumption DEF InCall, Word

\* The chain and the argument lie below what the switch writes.
LEMMA CallKept ==
    ASSUME Switching, eip \in Instructions \ {"mov_current_eax", "restore", "iret"},
           UNCHANGED <<current_thread, want>>, NEW w, esp' = want[current_thread].esp + w,
           \A d \in 1..want[current_thread].esp + 1 :
              stack'[current_thread][d] = stack[current_thread][d]
    PROVE  InCall(w)'
PROOF
<1> DEFINE c == current_thread
           L == want[c].esp
<1>1. /\ L \in 1..2 /\ want[c].eip # "thread_start" /\ Chained(c, L)
      /\ stack[c][L + 1] \in Thread
  BY CallFacts
<1>2. \A d \in 1..L + 1 : stack'[c][d] = stack[c][d]
  OBVIOUS
<1> HIDE DEF L, c
<1>3. L \in 1..2
  BY <1>1
<1>4. 1 \in 1..L + 1 /\ (L >= 2 => 2 \in 1..L + 1) /\ L + 1 \in 1..L + 1 /\ L # 3
  BY <1>3
<1>5. stack'[c][1] = "arg_0" /\ (L >= 2 => stack'[c][2] = "thread_shutdown")
  BY <1>1, <1>2, <1>3, <1>4 DEF Chained
<1>6. stack'[c][L + 1] \in Thread
  BY <1>1, <1>2, <1>4
<1> QED
  BY <1>1, <1>4, <1>5, <1>6 DEF InCall, Chained, Word, L, c

\* An instruction that moves registers and the stack pointer.
LEMMA RegisterStep ==
    ASSUME Switching, eip \in Instructions \ {"mov_current_eax", "restore", "iret"},
           UNCHANGED <<current_thread, saved_esp, stack, want, IF_flag>>,
           NEW w, esp' = want[current_thread].esp + w
    PROVE  /\ Shapes' /\ OthersSuspended' /\ Masked' /\ InCall(w)'
           /\ ReturnStored => ReturnStored'
           /\ FlagsPushed => FlagsPushed'
           /\ CSPushed => CSPushed'
PROOF
<1>1. Shapes' /\ OthersSuspended'
  BY RegistersOnly DEF Switching
<1>2. Masked'
  BY CallFacts DEF Masked
<1>3. InCall(w)'
  BY CallKept
<1>4. /\ ReturnStored => ReturnStored'
      /\ FlagsPushed => FlagsPushed'
      /\ CSPushed => CSPushed'
  BY DEF ReturnStored, FlagsPushed, CSPushed, Word
<1> QED
  BY <1>1, <1>2, <1>3, <1>4

\* An instruction that stores one of the three words above the argument.
LEMMA StoreStep ==
    ASSUME Switching, eip \in Instructions \ {"mov_current_eax", "restore", "iret"},
           UNCHANGED <<current_thread, saved_esp, want, IF_flag>>,
           NEW k \in 2..4, NEW word, Put(want[current_thread].esp + k, word),
           NEW w, esp' = want[current_thread].esp + w
    PROVE  /\ Shapes' /\ OthersSuspended' /\ Masked' /\ InCall(w)'
           /\ stack'[current_thread][want[current_thread].esp + k] = word
           /\ \A j \in 2..4 : j # k =>
                 stack'[current_thread][want[current_thread].esp + j]
                    = stack[current_thread][want[current_thread].esp + j]
PROOF
<1> DEFINE c == current_thread
           L == want[c].esp
<1>1. L \in 1..2 /\ StackWords \in Nat /\ StackWords >= 24
  BY CallFacts
<1>2. Put(L + k, word) /\ esp' = L + w /\ Shapes /\ OthersSuspended
  BY DEF Switching
<1> HIDE DEF L
<1>3. /\ L + k \in 1..StackWords
      /\ \A d \in 1..L + 1 : d \in 1..StackWords /\ d # L + k
      /\ \A j \in 2..4 : L + j \in 1..StackWords /\ (j # k => L + j # L + k)
  BY <1>1
<1>4. /\ Shapes' /\ OthersSuspended'
      /\ \A d \in 1..StackWords : stack'[c][d] = IF d = L + k THEN word ELSE stack[c][d]
  BY <1>2, <1>3, OneWord
<1>5. \A d \in 1..L + 1 : stack'[c][d] = stack[c][d]
  BY <1>3, <1>4
<1>6. InCall(w)'
  BY <1>5, CallKept DEF L
<1>7. Masked'
  BY CallFacts DEF Masked
<1> QED
  BY <1>3, <1>4, <1>6, <1>7 DEF L

\* push eax.
LEMMA PushEaxSteps == ASSUME Switching, PushEax PROVE Switching'
PROOF
<1> DEFINE c == current_thread
           L == want[c].esp
<1>1. /\ eip = "push_eax" /\ eip' = "mov_eax_[esp+4]"
      /\ UNCHANGED <<current_thread, saved_esp, want, IF_flag>>
      /\ Put(esp + 1, eax) /\ esp' = esp + 1 /\ esp = L + 2
      /\ stack[c][L + 2] = want[c].eip
  BY DEF PushEax, Step, Switching, Progress, InCall, Word
<1>2. L \in 1..2 /\ eip \in Instructions \ {"mov_current_eax", "restore", "iret"}
  BY <1>1, CallFacts DEF Instructions
<1>3. esp + 1 = L + 3 /\ esp' = L + 3
  BY <1>1, <1>2
<1>4. /\ Shapes' /\ OthersSuspended' /\ Masked' /\ InCall(3)'
      /\ stack'[c][L + 2] = stack[c][L + 2]
  BY <1>1, <1>2, <1>3, StoreStep, SMTT(30)
<1>5. Progress'
  BY <1>1, <1>4 DEF Progress, Place, Word
<1> QED
  BY <1>1, <1>4, <1>5 DEF Switching, Instructions

\* mov eax, [esp + 4].
LEMMA LoadReturnAddressSteps == ASSUME Switching, LoadReturnAddress PROVE Switching'
PROOF
<1> DEFINE c == current_thread
           L == want[c].esp
<1>1. /\ eip = "mov_eax_[esp+4]" /\ eip' = "mov_[esp-4]_eax"
      /\ UNCHANGED <<current_thread, saved_esp, stack, want, IF_flag>>
      /\ eax' = stack[c][esp - 1] /\ esp' = esp /\ esp = L + 3
      /\ stack[c][L + 2] = want[c].eip
  BY DEF LoadReturnAddress, Step, Switching, Progress, InCall, Word
<1>2. L \in 1..2 /\ eip \in Instructions \ {"mov_current_eax", "restore", "iret"}
  BY <1>1, CallFacts DEF Instructions
<1>3. esp' = L + 3 /\ esp - 1 = L + 2
  BY <1>1, <1>2
<1>4. Shapes' /\ OthersSuspended' /\ Masked' /\ InCall(3)'
  BY <1>1, <1>2, <1>3, RegisterStep
<1>5. eax' = want'[c].eip
  BY <1>1, <1>3
<1>6. Progress'
  BY <1>1, <1>4, <1>5 DEF Progress, Place
<1> QED
  BY <1>1, <1>4, <1>6 DEF Switching, Instructions

\* mov [esp - 4], eax.
LEMMA StoreReturnAddressSteps == ASSUME Switching, StoreReturnAddress PROVE Switching'
PROOF
<1> DEFINE c == current_thread
           L == want[c].esp
<1>1. /\ eip = "mov_[esp-4]_eax" /\ eip' = "add_esp_8"
      /\ UNCHANGED <<current_thread, saved_esp, want, IF_flag>>
      /\ Put(esp + 1, eax) /\ esp' = esp /\ esp = L + 3
      /\ eax = want[c].eip
  BY DEF StoreReturnAddress, Step, Switching, Progress, InCall
<1>2. L \in 1..2 /\ eip \in Instructions \ {"mov_current_eax", "restore", "iret"}
  BY <1>1, CallFacts DEF Instructions
<1>3. esp + 1 = L + 4 /\ esp' = L + 3
  BY <1>1, <1>2
<1>4. /\ Shapes' /\ OthersSuspended' /\ Masked' /\ InCall(3)'
      /\ stack'[c][L + 4] = eax
  BY <1>1, <1>2, <1>3, StoreStep
<1>5. ReturnStored'
  BY <1>1, <1>4 DEF ReturnStored, Word
<1>6. Progress'
  BY <1>1, <1>4, <1>5 DEF Progress, Place
<1> QED
  BY <1>1, <1>4, <1>6 DEF Switching, Instructions

\* add esp, 8.
LEMMA AddEspSteps == ASSUME Switching, AddEsp PROVE Switching'
PROOF
<1> DEFINE L == want[current_thread].esp
<1>1. /\ eip = "add_esp_8" /\ eip' = "pushfd"
      /\ UNCHANGED <<current_thread, saved_esp, stack, want, IF_flag>>
      /\ esp' = esp - 2 /\ esp = L + 3 /\ ReturnStored
  BY DEF AddEsp, Step, Switching, Progress, InCall
<1>2. L \in 1..2 /\ eip \in Instructions \ {"mov_current_eax", "restore", "iret"}
  BY <1>1, CallFacts DEF Instructions
<1>3. esp' = L + 1
  BY <1>1, <1>2
<1>4. Shapes' /\ OthersSuspended' /\ Masked' /\ InCall(1)' /\ ReturnStored'
  BY <1>1, <1>2, <1>3, RegisterStep
<1>5. Progress'
  BY <1>1, <1>4 DEF Progress, Place
<1> QED
  BY <1>1, <1>4, <1>5 DEF Switching, Instructions

\* pushfd.
LEMMA PushFlagsSteps == ASSUME Switching, PushFlags PROVE Switching'
PROOF
<1> DEFINE c == current_thread
           L == want[c].esp
<1>1. /\ eip = "pushfd" /\ eip' = "mov_eax_[esp-4]"
      /\ UNCHANGED <<current_thread, saved_esp, want, IF_flag>>
      /\ Put(esp + 1, Eflags(IF_flag)) /\ esp' = esp + 1 /\ esp = L + 1
      /\ stack[c][L + 4] = want[c].eip
  BY DEF PushFlags, Step, Switching, Progress, InCall, ReturnStored, Word
<1>2. L \in 1..2 /\ eip \in Instructions \ {"mov_current_eax", "restore", "iret"}
  BY <1>1, CallFacts DEF Instructions
<1>3. esp + 1 = L + 2 /\ esp' = L + 2
  BY <1>1, <1>2
<1>4. Eflags(IF_flag) = Eflags(FALSE)
  BY <1>2, CallFacts
<1>5. /\ Shapes' /\ OthersSuspended' /\ Masked' /\ InCall(2)'
      /\ stack'[c][L + 2] = Eflags(FALSE) /\ stack'[c][L + 4] = stack[c][L + 4]
  <2>1. Put(L + 2, Eflags(FALSE))
    BY <1>1, <1>3, <1>4
  <2>2. 2 \in 2..4 /\ 4 \in 2..4 /\ 4 # 2
    OBVIOUS
  <2>3. /\ Shapes' /\ OthersSuspended' /\ Masked' /\ InCall(2)'
        /\ stack'[c][L + 2] = Eflags(FALSE)
        /\ \A j \in 2..4 : j # 2 => stack'[c][L + j] = stack[c][L + j]
    BY <1>1, <1>2, <1>3, <2>1, <2>2, StoreStep
  <2> HIDE DEF c, L
  <2> QED
    BY <2>2, <2>3
<1>6. ReturnStored' /\ FlagsPushed'
  BY <1>1, <1>5 DEF ReturnStored, FlagsPushed, Word
<1>7. Progress'
  BY <1>1, <1>5, <1>6 DEF Progress, Place
<1> QED
  BY <1>1, <1>5, <1>7 DEF Switching, Instructions

\* mov eax, [esp - 4].
LEMMA RestoreEaxSteps == ASSUME Switching, RestoreEax PROVE Switching'
PROOF
<1>1. /\ eip = "mov_eax_[esp-4]" /\ eip' = "push_CS"
      /\ UNCHANGED <<current_thread, saved_esp, stack, want, IF_flag>>
      /\ esp' = want[current_thread].esp + 2 /\ ReturnStored /\ FlagsPushed
  BY DEF RestoreEax, Step, Switching, Progress, InCall
<1>2. eip \in Instructions \ {"mov_current_eax", "restore", "iret"}
  BY <1>1 DEF Instructions
<1>3. /\ Shapes' /\ OthersSuspended' /\ Masked' /\ InCall(2)'
      /\ ReturnStored' /\ FlagsPushed'
  BY <1>1, <1>2, RegisterStep
<1>4. Progress'
  BY <1>1, <1>3 DEF Progress, Place
<1> QED
  BY <1>1, <1>3, <1>4 DEF Switching, Instructions

\* push CS.
LEMMA PushCSSteps == ASSUME Switching, PushCS PROVE Switching'
PROOF
<1> DEFINE c == current_thread
           L == want[c].esp
<1>1. /\ eip = "push_CS" /\ eip' = "sub_esp_4"
      /\ UNCHANGED <<current_thread, saved_esp, want, IF_flag>>
      /\ Put(esp + 1, "CS") /\ esp' = esp + 1 /\ esp = L + 2
      /\ stack[c][L + 4] = want[c].eip /\ stack[c][L + 2] = Eflags(FALSE)
  BY DEF PushCS, Step, Switching, Progress, InCall, ReturnStored, FlagsPushed, Word
<1>2. L \in 1..2 /\ eip \in Instructions \ {"mov_current_eax", "restore", "iret"}
  BY <1>1, CallFacts DEF Instructions
<1>3. esp + 1 = L + 3 /\ esp' = L + 3
  BY <1>1, <1>2
<1>4. /\ Shapes' /\ OthersSuspended' /\ Masked' /\ InCall(3)'
      /\ stack'[c][L + 3] = "CS" /\ stack'[c][L + 4] = stack[c][L + 4]
      /\ stack'[c][L + 2] = stack[c][L + 2]
  <2> DEFINE cs == "CS"
  <2>1. Put(L + 3, cs)
    BY <1>1, <1>3
  <2> HIDE DEF cs
  <2>2. /\ Shapes' /\ OthersSuspended' /\ Masked' /\ InCall(3)'
        /\ stack'[c][L + 3] = cs /\ stack'[c][L + 4] = stack[c][L + 4]
        /\ stack'[c][L + 2] = stack[c][L + 2]
    <3>1. 3 \in 2..4 /\ 4 \in 2..4 /\ 2 \in 2..4 /\ 4 # 3 /\ 2 # 3
      OBVIOUS
    <3>2. /\ Shapes' /\ OthersSuspended' /\ Masked' /\ InCall(3)'
          /\ stack'[c][L + 3] = cs
          /\ \A j \in 2..4 : j # 3 => stack'[c][L + j] = stack[c][L + j]
      BY <1>1, <1>2, <1>3, <2>1, <3>1, StoreStep
    <3> QED
      BY <3>1, <3>2
  <2> QED
    BY <2>2 DEF cs
<1>5. ReturnStored' /\ FlagsPushed' /\ CSPushed'
  BY <1>1, <1>4 DEF ReturnStored, FlagsPushed, CSPushed, Word
<1>6. Progress'
  BY <1>1, <1>4, <1>5 DEF Progress, Place
<1> QED
  BY <1>1, <1>4, <1>6 DEF Switching, Instructions

\* sub esp, 4: past the return address that is already there.
LEMMA SubEspSteps == ASSUME Switching, SubEsp PROVE Switching'
PROOF
<1> DEFINE L == want[current_thread].esp
<1>1. /\ eip = "sub_esp_4" /\ eip' = "save"
      /\ UNCHANGED <<current_thread, saved_esp, stack, want, IF_flag>>
      /\ esp' = esp + 1 /\ esp = L + 3 /\ ReturnStored /\ FlagsPushed /\ CSPushed
  BY DEF SubEsp, Step, Switching, Progress, InCall
<1>2. L \in 1..2 /\ eip \in Instructions \ {"mov_current_eax", "restore", "iret"}
  BY <1>1, CallFacts DEF Instructions
<1>3. esp' = L + 4
  BY <1>1, <1>2
<1>4. /\ Shapes' /\ OthersSuspended' /\ Masked' /\ InCall(4)'
      /\ ReturnStored' /\ FlagsPushed' /\ CSPushed'
  BY <1>1, <1>2, <1>3, RegisterStep
<1>5. Progress'
  BY <1>1, <1>4 DEF Progress, Place
<1> QED
  BY <1>1, <1>4, <1>5 DEF Switching, Instructions

\* The filler and the registers, above everything that is needed again.
LEMMA SaveSteps == ASSUME Switching, Save PROVE Switching'
PROOF
<1> DEFINE c == current_thread
           L == want[c].esp
<1>1. /\ eip = "save" /\ eip' = "mov_[current]_esp"
      /\ UNCHANGED <<current_thread, saved_esp, want, IF_flag>>
      /\ esp' = esp + FillerWords + RegisterWords /\ esp = L + 4
      /\ stack[c][L + 4] = want[c].eip /\ stack[c][L + 2] = Eflags(FALSE)
      /\ stack[c][L + 3] = "CS"
      /\ stack' = [stack EXCEPT ![c] =
                      [d \in 1..StackWords |->
                          IF d \in esp + 1..esp + FillerWords + RegisterWords
                          THEN "reg" ELSE stack[c][d]]]
  BY DEF Save, Step, Switching, Progress, InCall, ReturnStored, FlagsPushed, CSPushed, Word
<1>2. /\ L \in 1..2 /\ eip \in Instructions \ {"mov_current_eax", "restore", "iret"}
      /\ StackWords \in Nat /\ StackWords >= 24
  BY <1>1, CallFacts DEF Instructions
<1>3. esp' = L + 18
  BY <1>1, <1>2 DEF FillerWords, RegisterWords
<1>4. stack'[c] = [d \in 1..StackWords |->
                      IF d \in esp + 1..esp + FillerWords + RegisterWords
                      THEN "reg" ELSE stack[c][d]]
  BY <1>1 DEF Switching, Shapes
<1>5. Shapes' /\ OthersSuspended'
  <2>1. stack' = [stack EXCEPT ![c] = stack'[c]]
    BY <1>1, <1>4
  <2>2. stack'[c] = [d \in 1..StackWords |-> stack'[c][d]]
    BY <1>4
  <2> QED
    BY <1>1, <2>1, <2>2, OwnStack DEF Switching
<1> HIDE DEF L
<1>6. \A d \in 1..L + 4 : stack'[c][d] = stack[c][d]
  BY <1>1, <1>2, <1>4
<1>7. /\ 1..L + 1 \subseteq 1..L + 4
      /\ L + 2 \in 1..L + 4 /\ L + 3 \in 1..L + 4 /\ L + 4 \in 1..L + 4
  BY <1>2
<1>8. InCall(18)'
  BY <1>1, <1>2, <1>3, <1>6, <1>7, CallKept DEF L
<1>9. ReturnStored' /\ FlagsPushed' /\ CSPushed'
  BY <1>1, <1>6, <1>7 DEF ReturnStored, FlagsPushed, CSPushed, Word, L
<1>10. Masked'
  BY <1>1, <1>2, CallFacts DEF Masked
<1>11. Progress'
  BY <1>1, <1>8, <1>9 DEF Progress, Place
<1> QED
  BY <1>1, <1>5, <1>10, <1>11 DEF Switching, Instructions

\* mov [current], esp: from here on the caller is suspended.
LEMMA SaveEspSteps == ASSUME Switching, SaveEsp PROVE Switching'
PROOF
<1> DEFINE c == current_thread
           L == want[c].esp
<1>1. /\ eip = "mov_[current]_esp" /\ eip' = "mov_eax_[esp+68]"
      /\ UNCHANGED <<current_thread, stack, want, IF_flag, esp>>
      /\ saved_esp' = [saved_esp EXCEPT ![c] = esp] /\ esp = L + 18
      /\ ReturnStored /\ FlagsPushed /\ CSPushed
      /\ Shapes /\ OthersSuspended
  BY DEF SaveEsp, Step, Switching, Progress, InCall
<1>2. /\ L \in 1..2 /\ eip \in Instructions \ {"mov_current_eax", "restore", "iret"}
      /\ c \in Thread /\ want[c].eip # "thread_start" /\ Chained(c, L)
  BY <1>1, CallFacts DEF Instructions
<1>3. FrameTop(c) = L + 4
  BY <1>1, <1>2, Depths
<1>4. saved_esp'[c] = L + 18 /\ \A t \in Thread : t # c => saved_esp'[t] = saved_esp[t]
  BY <1>1, <1>2 DEF Shapes
<1>5. \A t \in Thread : t # c => Suspended(t)'
  BY <1>1, <1>4, StaysSuspended DEF OthersSuspended
<1>6. Shapes' /\ OthersSuspended'
  BY <1>1, <1>5 DEF Shapes, OthersSuspended
<1>7. Suspended(c)'
  <2> SUFFICES ASSUME NEW t \in Thread, t = c
               PROVE  Suspended(t)'
    BY <1>1, <1>2
  <2>1. FrameTop(t)' = L + 4
    BY <1>1, <1>3 DEF FrameTop
  <2>2. (L + 4) - 1 = L + 3 /\ (L + 4) - 2 = L + 2
    BY <1>2
  <2>3. /\ stack'[t][L + 4] = want'[t].eip
        /\ stack'[t][(L + 4) - 1] = "CS"
        /\ stack'[t][(L + 4) - 2] = Eflags(FALSE)
    BY <1>1, <2>2 DEF ReturnStored, FlagsPushed, CSPushed, Word
  <2>4. saved_esp'[t] = L + 4 + FillerWords + RegisterWords
    BY <1>2, <1>4 DEF FillerWords, RegisterWords
  <2>5. Chained(t, want[t].esp)'
    BY <1>1, <1>2 DEF Chained
  <2> DEFINE top == L + 4
  <2>6. /\ FrameTop(t)' = top /\ stack'[t][top] = want'[t].eip
        /\ stack'[t][top - 1] = "CS" /\ stack'[t][top - 2] = Eflags(FALSE)
    BY <2>1, <2>3
  <2> HIDE DEF top
  <2>7. Framed(t, FrameTop(t))'
    BY <2>6 DEF Framed
  <2> QED
    BY <2>1, <2>4, <2>5, <2>7 DEF Suspended
<1>8. InCall(18)'
  BY <1>1, <1>2, CallKept
<1>9. Masked'
  BY <1>1, <1>2, CallFacts DEF Masked
<1>10. Progress'
  BY <1>1, <1>7, <1>8 DEF Progress, Place
<1> QED
  BY <1>1, <1>6, <1>9, <1>10 DEF Switching, Instructions

\* mov eax, [esp + 68]: the argument of dispatch_to.
LEMMA LoadArgumentSteps == ASSUME Switching, LoadArgument PROVE Switching'
PROOF
<1> DEFINE c == current_thread
           L == want[c].esp
<1>1. /\ eip = "mov_eax_[esp+68]" /\ eip' = "mov_current_eax"
      /\ UNCHANGED <<current_thread, saved_esp, stack, want, IF_flag, esp>>
      /\ eax' = stack[c][esp - 17] /\ esp = L + 18 /\ Suspended(c)
      /\ Shapes /\ OthersSuspended
  BY DEF LoadArgument, Step, Switching, Progress, InCall, Word, InterruptStateWords
<1>2. /\ L \in 1..2 /\ eip \in Instructions \ {"mov_current_eax", "restore", "iret"}
      /\ stack[c][L + 1] \in Thread /\ c \in Thread
  BY <1>1, CallFacts DEF Instructions
<1>3. esp - 17 = L + 1
  BY <1>1, <1>2
<1>4. eax' \in Thread
  BY <1>1, <1>2, <1>3
<1>5. Shapes' /\ OthersSuspended' /\ Suspended(c)'
  BY <1>1, <1>2, RegistersOnly
<1>6. Masked'
  BY <1>1, <1>2, CallFacts DEF Masked
<1>7. Progress'
  BY <1>1, <1>4, <1>5 DEF Progress, Place
<1> QED
  BY <1>1, <1>5, <1>6, <1>7 DEF Switching, Instructions

-----------------------------------------------------------------------------
(* The instructions on the stack of the thread that comes in.              *)

\* mov [current_thread], eax and mov esp, [eax]: all threads are suspended here, and
\* the one in eax takes over.
LEMMA SwitchStackSteps == ASSUME Switching, SwitchStack PROVE Switching'
PROOF
<1>1. /\ eip = "mov_current_eax" /\ eip' = "restore" /\ eax \in Thread
      /\ UNCHANGED <<saved_esp, stack, want, IF_flag>>
      /\ current_thread' = eax /\ esp' = saved_esp[eax]
      /\ Shapes /\ OthersSuspended /\ Suspended(current_thread)
  BY DEF SwitchStack, Step, Switching, Progress
<1>2. \A t \in Thread : Suspended(t)'
  <2> SUFFICES ASSUME NEW t \in Thread PROVE Suspended(t)'
    OBVIOUS
  <2>1. Suspended(t)
    BY <1>1 DEF OthersSuspended
  <2> QED
    BY <1>1, <2>1, StaysSuspended
<1>3. Shapes' /\ OthersSuspended'
  BY <1>1, <1>2 DEF Shapes, OthersSuspended
<1>4. Masked'
  BY <1>1 DEF Switching, Masked
<1>5. Suspended(current_thread)'
  <2> SUFFICES ASSUME NEW t \in Thread, t = current_thread' PROVE Suspended(t)'
    BY <1>1
  <2> QED
    BY <1>2
<1>6. Progress'
  BY <1>1, <1>5 DEF Progress, Place
<1> QED
  BY <1>1, <1>3, <1>4, <1>6 DEF Switching, Instructions

\* The registers and the filler are popped.
LEMMA RestoreSteps == ASSUME Switching, Restore PROVE Switching'
PROOF
<1> DEFINE c == current_thread
<1>1. /\ eip = "restore" /\ eip' = "iret"
      /\ UNCHANGED <<current_thread, saved_esp, stack, want, IF_flag>>
      /\ esp' = esp - (FillerWords + RegisterWords) /\ esp = saved_esp[c]
      /\ Shapes /\ OthersSuspended /\ Suspended(c)
  BY DEF Restore, Step, Switching, Progress
<1>2. c \in Thread /\ FrameTop(c) \in 5..6
  BY <1>1, Depths DEF Shapes
<1>3. esp' = FrameTop(c)
  BY <1>1, <1>2 DEF Suspended, FillerWords, RegisterWords
<1>4. Shapes' /\ OthersSuspended' /\ Suspended(c)'
  BY <1>1, <1>2, RegistersOnly
<1>5. esp' = FrameTop(c)'
  BY <1>1, <1>3 DEF FrameTop
<1>6. Masked'
  BY <1>1 DEF Switching, Masked
<1>7. Progress'
  BY <1>1, <1>4, <1>5 DEF Progress, Place
<1> QED
  BY <1>1, <1>4, <1>6, <1>7 DEF Switching, Instructions

\* iret: the thread goes on where it called from, or starts.
LEMMA IretSteps == ASSUME Switching, Iret PROVE Switching'
PROOF
<1> DEFINE c == current_thread
           L == want[c].esp
<1>1. /\ eip = "iret" /\ eip' = stack[c][esp]
      /\ UNCHANGED <<current_thread, saved_esp, stack, want>>
      /\ esp = FrameTop(c) /\ Shapes /\ OthersSuspended /\ Suspended(c)
      /\ esp' = IF stack[c][esp] = "thread_start" THEN esp - 3 ELSE esp - 4
  BY DEF Iret, Switching, Progress, Word
<1>2. /\ c \in Thread /\ want[c].eip \in Place /\ L = Level(want[c].eip) /\ L \in 1..3
      /\ want[c].eip = "thread_start" => FrameTop(c) = L + 3
      /\ want[c].eip # "thread_start" => FrameTop(c) = L + 4
  <2>1. c \in Thread /\ want[c].eip \in Place /\ L = Level(want[c].eip)
    BY <1>1 DEF Shapes
  <2>2. /\ L \in 1..3
        /\ want[c].eip = "thread_start" => L = 3 /\ FrameTop(c) = 6
        /\ want[c].eip # "thread_start" => FrameTop(c) = L + 4
    BY <1>1, <2>1, Depths
  <2> QED
    BY <2>1, <2>2
<1>3. /\ eip' = want[c].eip /\ Chained(c, L)
      /\ stack[c][esp - 2] = Eflags(FALSE)
  BY <1>1 DEF Suspended, Framed
<1>4. esp' = L
  BY <1>1, <1>2, <1>3
<1>5. IF_flag' = FALSE
  <2>1. PICK f \in BOOLEAN : stack[c][esp - 2] = Eflags(f) /\ IF_flag' = f
    BY DEF Iret, Word
  <2>2. Eflags(f) = Eflags(FALSE)
    BY <1>3, <2>1
  <2>3. f = FALSE
    BY <2>2 DEF Eflags
  <2> QED
    BY <2>1, <2>3
<1>6. Shapes' /\ OthersSuspended'
  BY <1>1, RegistersOnly
<1>7. Masked'
  BY <1>5 DEF Masked
<1>8. esp' = Level(eip)' /\ Chained(current_thread, esp)'
  <2>1. Level(eip)' = L
    BY <1>2, <1>3 DEF Level
  <2>2. Chained(c, L)'
    BY <1>1, <1>3 DEF Chained
  <2> QED
    BY <1>1, <1>4, <2>1, <2>2 DEF Chained
<1>9. Progress'
  BY <1>2, <1>3, <1>8 DEF Progress, Place
<1> QED
  BY <1>2, <1>3, <1>6, <1>7, <1>9 DEF Switching

-----------------------------------------------------------------------------
(* What a thread does between switches.                                    *)

\* A return through the chain that setup_context arranged.
LEMMA ReturnSteps ==
    ASSUME Switching, NEW n \in 1..2, eip \in Place, Level(eip) = n + 1,
           UNCHANGED <<current_thread, saved_esp, stack, want>>, IF_flag' = FALSE,
           eip' = Word(esp), esp' = esp - 1
    PROVE  Switching'
PROOF
<1> DEFINE c == current_thread
<1>1. /\ esp = n + 1 /\ Chained(c, n + 1) /\ eip' = stack[c][esp] /\ esp' = esp - 1
      /\ Shapes /\ OthersSuspended
  BY DEF Switching, Progress, Word
<1>2. esp' = n
  BY <1>1
<1>3. /\ n = 1 => eip' = "thread_shutdown"
      /\ n = 2 => eip' = "tfunction"
      /\ Chained(c, n)
  BY <1>1 DEF Chained
<1>4. eip' \in Place /\ Level(eip') = n
  BY <1>3 DEF Place, Level
<1>5. Shapes' /\ OthersSuspended'
  BY <1>1, RegistersOnly
<1>6. Masked'
  BY DEF Masked
<1>7. Chained(current_thread, esp)'
  BY <1>2, <1>3 DEF Chained
<1>8. Progress'
  BY <1>2, <1>4, <1>7 DEF Progress, Place, Level
<1> QED
  BY <1>4, <1>5, <1>6, <1>8 DEF Switching

\* thread_start() returns into the thread function; it leaves interrupts disabled.
LEMMA ThreadStartSteps ==
    ASSUME StartEnables = FALSE, Switching, ThreadStart PROVE Switching'
PROOF
<1>1. IF_flag = FALSE
  BY DEF ThreadStart, Switching, Masked
<1>2. IF_flag' = FALSE
  BY <1>1 DEF ThreadStart
<1>3. 2 \in 1..2 /\ eip \in Place /\ Level(eip) = 2 + 1
  BY DEF ThreadStart, Place, Level
<1> QED
  BY <1>2, <1>3, ReturnSteps DEF ThreadStart

\* The thread function returns into thread_shutdown.
LEMMA FunctionReturnsSteps == ASSUME Switching, FunctionReturns PROVE Switching'
PROOF
<1>1. IF_flag = FALSE
  BY DEF FunctionReturns, Switching, Masked
<1>2. IF_flag' = FALSE
  BY <1>1 DEF FunctionReturns
<1>3. 1 \in 1..2 /\ eip \in Place /\ Level(eip) = 1 + 1
  BY DEF FunctionReturns, Place, Level
<1> QED
  BY <1>2, <1>3, ReturnSteps DEF FunctionReturns

\* dispatch_to(t): the argument, the return address, and what the caller shall find.
LEMMA CallSteps == ASSUME Switching, NEW t \in Thread, Call(t) PROVE Switching'
PROOF
<1> DEFINE c == current_thread
           L == esp
<1>1. /\ eip \in Place \ {"thread_start"} /\ eip' = "push_eax"
      /\ UNCHANGED <<current_thread, saved_esp, IF_flag>>
      /\ esp' = L + 2 /\ L = Level(eip) /\ Chained(c, L)
      /\ want' = [want EXCEPT ![c] = [eip |-> eip, esp |-> L, flag |-> IF_flag]]
      /\ Shapes /\ OthersSuspended
  BY DEF Call, Switching, Progress, Place
<1>2. L \in 1..2 /\ c \in Thread /\ StackWords \in Nat /\ StackWords >= 24
  BY <1>1, ThreadSwitchAssumption DEF Level, Place, Shapes
<1>3. IF_flag = FALSE
  BY <1>1 DEF Switching, Masked, Place
<1>4. /\ want' = [u \in Thread |-> want'[u]]
      /\ \A u \in Thread : u # c => want'[u] = want[u]
      /\ want'[c].eip = eip /\ want'[c].esp = L /\ want'[c].flag = FALSE
  BY <1>1, <1>2, <1>3 DEF Shapes
<1>5. /\ stack' = [stack EXCEPT ![c] = [stack[c] EXCEPT ![L + 1] = t, ![L + 2] = eip]]
      /\ stack[c] = [d \in 1..StackWords |-> stack[c][d]]
  BY <1>1, <1>2 DEF Call, Shapes
<1>6. /\ L + 1 \in 1..StackWords /\ L + 2 \in 1..StackWords /\ L + 1 # L + 2
      /\ \A d \in 1..L : d \in 1..StackWords /\ d # L + 1 /\ d # L + 2
  BY <1>2
<1>7. /\ stack' = [u \in Thread |-> [d \in 1..StackWords |-> stack'[u][d]]]
      /\ \A u \in Thread : u # c => stack'[u] = stack[u]
      /\ stack'[c][L + 1] = t /\ stack'[c][L + 2] = eip
      /\ \A d \in 1..L : stack'[c][d] = stack[c][d]
  <2> DEFINE new == [stack[c] EXCEPT ![L + 1] = t, ![L + 2] = eip]
  <2> HIDE DEF L
  <2>1. /\ new = [d \in 1..StackWords |-> new[d]]
        /\ new[L + 1] = t /\ new[L + 2] = eip
        /\ \A d \in 1..L : new[d] = stack[c][d]
    BY <1>5, <1>6
  <2>2. stack' = [stack EXCEPT ![c] = new]
    BY <1>5
  <2> HIDE DEF new
  <2>3. stack'[c] = new /\ \A u \in Thread : u # c => stack'[u] = stack[u]
    BY <1>1, <1>2, <2>2 DEF Shapes
  <2>4. stack' = [u \in Thread |-> [d \in 1..StackWords |-> stack'[u][d]]]
    BY ZenonT(30), <1>1, <1>2, <2>1, <2>2 DEF Shapes
  <2> QED
    BY <2>1, <2>3, <2>4
<1>8. OthersSuspended'
  <2> SUFFICES ASSUME NEW u \in Thread, u # c PROVE Suspended(u)'
    BY <1>1 DEF OthersSuspended
  <2>1. Suspended(u)
    BY <1>1 DEF OthersSuspended
  <2> QED
    BY <1>1, <1>4, <1>7, <2>1, StaysSuspended
<1>9. Shapes'
  <2>1. want'[c].eip \in Place /\ want'[c].esp = Level(want'[c].eip)
    BY <1>1, <1>4
  <2>2. \A u \in Thread : /\ want'[u].eip \in Place
                          /\ want'[u].esp = Level(want'[u].eip)
                          /\ want'[u].flag = FALSE
    BY <1>1, <1>4, <2>1 DEF Shapes
  <2>3. saved_esp' = [u \in Thread |-> saved_esp'[u]]
    BY <1>1 DEF Shapes
  <2> QED
    BY <1>1, <1>2, <1>4, <1>7, <2>2, <2>3 DEF Shapes, Level
<1>10. Masked'
  BY <1>1, <1>3 DEF Masked
<1>11. InCall(2)' /\ Word(want[current_thread].esp + 2)' = want[current_thread].eip'
  <2>1. 1 \in 1..L /\ (L >= 2 => 2 \in 1..L) /\ L # 3
    BY <1>2
  <2>2. stack'[c][1] = "arg_0" /\ (L >= 2 => stack'[c][2] = "thread_shutdown")
    BY <1>1, <1>7, <2>1 DEF Chained
  <2>3. want'[c].eip # "thread_start"
    BY <1>1, <1>4
  <2>4. esp' = want'[c].esp + 2
    BY <1>1, <1>4
  <2>5. stack'[c][want'[c].esp + 1] \in Thread /\ stack'[c][want'[c].esp + 2] = want'[c].eip
    BY <1>4, <1>7
  <2>6. /\ stack'[c][1] = "arg_0"
        /\ want'[c].esp >= 2 => stack'[c][2] = "thread_shutdown"
        /\ want'[c].esp # 3
    BY <1>4, <2>1, <2>2
  <2> QED
    BY <1>1, <2>3, <2>4, <2>5, <2>6 DEF InCall, Chained, Word
<1>12. Progress'
  BY <1>1, <1>11 DEF Progress, Place
<1> QED
  BY <1>1, <1>8, <1>9, <1>10, <1>12 DEF Switching, Instructions

\* An interrupt, which can only come before the first thread has started: what it
\* overwrites lies deeper than the frame about to be popped.
LEMMA InterruptSteps == ASSUME Switching, Interrupt PROVE Switching'
PROOF
<1> DEFINE c == current_thread
<1>1. /\ eip \in {"restore", "iret"}
      /\ UNCHANGED <<current_thread, saved_esp, esp, eax, IF_flag, eip, want>>
      /\ stack' = [stack EXCEPT ![c] =
                      [d \in 1..StackWords |-> IF d > esp THEN Junk ELSE stack[c][d]]]
      /\ Shapes /\ OthersSuspended /\ Masked
  BY DEF Interrupt, Switching, Masked
<1>2. /\ c \in Thread /\ Suspended(c) /\ FrameTop(c) \in 5..6
      /\ eip = "restore" => esp = saved_esp[c]
      /\ eip = "iret" => esp = FrameTop(c)
  BY <1>1, Depths DEF Switching, Progress, Shapes
<1>3. esp \in Nat /\ esp >= FrameTop(c) /\ StackWords \in Nat /\ StackWords >= 24
  BY <1>1, <1>2, ThreadSwitchAssumption DEF Suspended, FillerWords, RegisterWords
<1>4. stack'[c] = [d \in 1..StackWords |-> IF d > esp THEN Junk ELSE stack[c][d]]
  BY <1>1, <1>2 DEF Shapes
<1>5. Shapes' /\ OthersSuspended'
  <2>1. stack' = [stack EXCEPT ![c] = stack'[c]]
    BY <1>1, <1>4
  <2>2. stack'[c] = [d \in 1..StackWords |-> stack'[c][d]]
    BY <1>4
  <2> QED
    BY <1>1, <2>1, <2>2, OwnStack
<1>6. \A d \in 1..FrameTop(c) : stack'[c][d] = stack[c][d]
  BY <1>2, <1>3, <1>4
<1>7. Suspended(c)'
  <2> SUFFICES ASSUME NEW t \in Thread, t = c PROVE Suspended(t)'
    BY <1>1, <1>2
  <2> QED
    BY <1>1, <1>2, <1>6, StaysSuspended
<1>8. Masked'
  BY <1>1 DEF Masked
<1>9. FrameTop(c)' = FrameTop(c)
  BY <1>1 DEF FrameTop
<1>10. Progress'
  BY <1>1, <1>2, <1>7, <1>9 DEF Progress, Place
<1> QED
  BY <1>1, <1>5, <1>8, <1>10 DEF Switching, Instructions

-----------------------------------------------------------------------------
(* The invariant.                                                          *)

\* Before the first dispatch every thread is suspended on the frame of setup_context.
LEMMA InitSwitches == ASSUME Init PROVE Switching
PROOF
<1>1. /\ First \in Thread /\ StackWords \in Nat /\ StackWords >= 24
      /\ current_thread = First /\ IF_flag = TRUE /\ eip = "restore"
      /\ esp = InitialEsp /\ saved_esp = [t \in Thread |-> InitialEsp]
      /\ stack = [t \in Thread |-> InitialStack]
      /\ want = [t \in Thread |-> [eip |-> "thread_start", esp |-> 3, flag |-> FALSE]]
  BY ThreadSwitchAssumption DEF Init
<1>2. Shapes
  BY <1>1 DEF Shapes, InitialStack, Place, Level
<1>3. /\ InitialStack[1] = "arg_0" /\ InitialStack[2] = "thread_shutdown"
      /\ InitialStack[3] = "tfunction" /\ InitialStack[4] = Eflags(FALSE)
      /\ InitialStack[5] = "CS" /\ InitialStack[6] = "thread_start"
  <2>1. /\ InitialStack[1] = FakeFrame[1] /\ InitialStack[2] = FakeFrame[2]
        /\ InitialStack[3] = FakeFrame[3] /\ InitialStack[4] = FakeFrame[4]
        /\ InitialStack[5] = FakeFrame[5] /\ InitialStack[6] = FakeFrame[6]
    BY <1>1 DEF InitialStack
  <2>2. /\ FakeFrame[1] = "arg_0" /\ FakeFrame[2] = "thread_shutdown"
        /\ FakeFrame[3] = "tfunction" /\ FakeFrame[4] = Eflags(FALSE)
        /\ FakeFrame[5] = "CS" /\ FakeFrame[6] = "thread_start"
    BY DEF FakeFrame
  <2> QED
    BY <2>1, <2>2
<1>4. ASSUME NEW t \in Thread PROVE Suspended(t)
  <2>1. /\ want[t].eip = "thread_start" /\ want[t].esp = 3
        /\ stack[t] = InitialStack /\ saved_esp[t] = InitialEsp
    BY <1>1
  <2>2. FrameTop(t) = 6
    BY <2>1 DEF FrameTop
  <2>3. Framed(t, 6)
    <3>1. 6 - 1 = 5 /\ 6 - 2 = 4
      OBVIOUS
    <3>2. stack[t][6] = want[t].eip /\ stack[t][5] = "CS" /\ stack[t][4] = Eflags(FALSE)
      BY <1>3, <2>1
    <3> QED
      BY <3>1, <3>2 DEF Framed
  <2>4. Chained(t, 3)
    BY <1>3, <2>1 DEF Chained
  <2> QED
    BY <2>1, <2>2, <2>3, <2>4 DEF Suspended, InitialEsp
<1>5. Progress
  BY <1>1, <1>4 DEF Progress, Place
<1> QED
  BY <1>1, <1>2, <1>4, <1>5 DEF Switching, OthersSuspended, Masked, Instructions

\* Every step keeps the invariant, as long as thread_start() enables nothing.
LEMMA NextSwitches ==
    ASSUME StartEnables = FALSE, Switching, [Next]_vars PROVE Switching'
PROOF
<1>1. CASE ThreadStart
  BY <1>1, ThreadStartSteps
<1>2. CASE FunctionReturns
  BY <1>2, FunctionReturnsSteps
<1>3. CASE \E t \in Thread : Call(t)
  BY <1>3, CallSteps
<1>4. CASE Switch
  BY <1>4, PushEaxSteps, LoadReturnAddressSteps, StoreReturnAddressSteps, AddEspSteps,
     PushFlagsSteps, RestoreEaxSteps, PushCSSteps, SubEspSteps, SaveSteps, SaveEspSteps,
     LoadArgumentSteps, SwitchStackSteps, RestoreSteps, IretSteps
  DEF Switch
<1>5. CASE Interrupt
  BY <1>5, InterruptSteps
<1>6. CASE UNCHANGED vars
  <2>1. UNCHANGED <<current_thread, saved_esp, stack, esp, eax, IF_flag, eip, want>>
    BY <1>6 DEF vars
  <2>2. Shapes' /\ OthersSuspended'
    BY <2>1, RegistersOnly DEF Switching
  <2>3. Suspended(current_thread) => Suspended(current_thread)'
    BY <2>1, RegistersOnly DEF Switching, Shapes
  <2>4. FrameTop(current_thread)' = FrameTop(current_thread)
    BY <2>1 DEF FrameTop
  <2>5. /\ ReturnStored => ReturnStored'
        /\ FlagsPushed => FlagsPushed'
        /\ CSPushed => CSPushed'
        /\ Chained(current_thread, esp) => Chained(current_thread, esp)'
        /\ Level(eip)' = Level(eip)
        /\ Word(want[current_thread].esp + 2)' = Word(want[current_thread].esp + 2)
    BY <2>1 DEF ReturnStored, FlagsPushed, CSPushed, Word, Chained, Level
  <2>6. \A w : InCall(w) => InCall(w)'
    BY <2>1 DEF InCall, Chained, Word
  <2>7. Masked'
    BY <2>1 DEF Switching, Masked
  <2>8. Progress'
    BY <2>1, <2>3, <2>4, <2>5, <2>6 DEF Switching, Progress
  <2> QED
    BY <2>1, <2>2, <2>7, <2>8 DEF Switching
<1> QED
  BY <1>1, <1>2, <1>3, <1>4, <1>5, <1>6 DEF Next

\* The invariant of the context switch with interrupts disabled (P5's thread_start):
\* every thread that is not running lies on a complete frame that takes it where it
\* shall go, and the running one has built as much of its own as its next instruction
\* assumes.
THEOREM AlwaysSwitching ==
    ASSUME StartEnables = FALSE PROVE Spec => []Switching
PROOF
<1>1. Init => Switching
  BY InitSwitches
<1>2. Switching /\ [Next]_vars => Switching'
  BY NextSwitches
<1> QED
  BY <1>1, <1>2, PTL DEF Spec

\* "the function returns after the calling thread has been switched back in"
\* (threads_low.H): threads_low_switch_to takes every thread back to its return address,
\* its stack and its interrupt flag, for any number of threads and any dispatches.
THEOREM SwitchAlwaysReturns ==
    ASSUME StartEnables = FALSE PROVE Spec => []SwitchReturns
PROOF
<1>1. ASSUME Switching, eip = "iret" PROVE SwitchReturns
  <2> DEFINE c == current_thread
             L == want[c].esp
  <2>1. c \in Thread /\ Suspended(c) /\ esp = FrameTop(c) /\ want[c].flag = FALSE
    BY <1>1 DEF Switching, Progress, Shapes
  <2>2. /\ Word(esp) = want[c].eip
        /\ Word(esp - 1) = "CS"
        /\ Word(esp - 2) = Eflags(want[c].flag)
    BY <2>1 DEF Suspended, Framed, Word
  <2>3. L = IF want[c].eip = "thread_start" THEN esp - 3 ELSE esp - 4
    BY <1>1, <2>1, Depths DEF Switching
  <2> QED
    BY <2>2, <2>3 DEF SwitchReturns
<1>2. Switching => SwitchReturns
  BY <1>1 DEF SwitchReturns
<1> QED
  BY <1>2, AlwaysSwitching, PTL

\* setup_context, the switch and the offset 68 at which it looks for its argument agree
\* on the size of a saved frame.
THEOREM FramesAlwaysAgree ==
    ASSUME StartEnables = FALSE PROVE Spec => []FramesAgree
PROOF
<1>1. ASSUME Switching PROVE FramesAgree
  <2>1. eip = "mov_current_eax" => eax \in Thread
    BY <1>1 DEF Switching, Progress
  <2>2. ASSUME NEW t \in Thread, t # current_thread
        PROVE  saved_esp[t] = want[t].esp + InterruptStateWords
                              + (IF want[t].eip = "thread_start" THEN 0 ELSE 1)
    <3>1. saved_esp[t] = FrameTop(t) + FillerWords + RegisterWords
      BY <1>1, <2>2 DEF Switching, OthersSuspended, Suspended
    <3>2. want[t].esp \in 1..3
      BY <1>1, Depths DEF Switching
    <3> QED
      BY <3>1, <3>2 DEF FrameTop, FillerWords, RegisterWords, InterruptStateWords
  <2> QED
    BY <2>1, <2>2 DEF FramesAgree
<1> QED
  BY <1>1, AlwaysSwitching, PTL

\* The words setup_context pushes (thread.C:103-127) lead from thread_start to the
\* thread function to thread_shutdown, wherever in between the thread was switched out.
THEOREM ChainAlwaysFollowed ==
    ASSUME StartEnables = FALSE PROVE Spec => []StartChain
PROOF
<1>1. ASSUME Switching PROVE StartChain
  <2>1. eip \in Place => esp = Level(eip)
    BY <1>1 DEF Switching, Progress
  <2>2. eip # "arg_0"
    BY <1>1 DEF Switching, Place, Instructions
  <2> QED
    BY <2>1, <2>2 DEF StartChain, Place, Level
<1> QED
  BY <1>1, AlwaysSwitching, PTL
=============================================================================
