------------------------------ MODULE Dispatcher ------------------------------
(***************************************************************************)
(* The Dispatcher class of src/fixtask/task/channel.fix: one thread that   *)
(* runs timers and receives messages, in the loop of enter_loop or in      *)
(* single calls of dispatch.                                               *)
(*                                                                         *)
(* The list of timers is shared by the loop that walks it and by the       *)
(* callbacks the loop calls on the way: an action is a stretch of dispatch *)
(* between two callbacks, or one thing a callback does.  A callback may    *)
(* start a loop or a dispatch of its own, so there is a stack of frames.   *)
(*                                                                         *)
(* Time is a counter that wraps, as get_time does after 2^32 milliseconds. *)
(* Abstracted: which channel a message comes from and what its callback    *)
(* answers (register, register_sync, Channel.call), and leave_value.       *)
(***************************************************************************)
EXTENDS Integers, Sequences, SequencesExt

CONSTANTS
    MaxTimers,      \* bound: how many timers are added
    Delays,         \* the delays given to run_later
    Wrap,           \* how many values the clock has
    MaxLate,        \* bound: how late a timer may get
    MaxInbox,       \* bound: messages that wait in the channels of the set
    MaxFrames,      \* bound: nested dispatches
    Careful         \* whether the callbacks avoid what the class does not survive

ASSUME DispatcherAssumption ==
    /\ MaxTimers \in Nat
    /\ Delays \subseteq Nat
    /\ Wrap \in Nat \ {0} /\ MaxLate \in Nat
    /\ \A d \in Delays : 2 * (d + 1 + MaxLate) < Wrap
    /\ Careful \in BOOLEAN

VARIABLES
    timers,         \* the list: [time, timer, due], time 0 for an immediate one; due,
                    \* a history, counts the ticks until that time
    clock,          \* what get_time returns
    frames,         \* the calls of dispatch, innermost last
    leaveLoop,      \* leave_loop
    inbox,          \* how many messages wait in the channels of the set
    runs            \* history: how often each timer has run, -1 before it is added

Timer == 1 .. MaxTimers         \* in the order in which they are added

vars == <<timers, clock, frames, leaveLoop, inbox, runs>>

(* A frame: what it does next, the variables off, len, imm_off, cur_time   *)
(* and timeout of dispatch, and whether enter_loop called it.              *)
Frame == [pc |-> "top", kind |-> "none", off |-> 0, len |-> 0, imm |-> 0, now |-> 0,
          timeout |-> -1, loop |-> TRUE]

Init ==
    /\ timers = <<>>
    /\ clock = Wrap - 1
    /\ frames = <<>>
    /\ leaveLoop = FALSE
    /\ inbox = 0
    /\ runs = [t \in Timer |-> -1]

(* add32 and sub32 *)
Add(a, b) == (a + b) % Wrap
(* Mutant: the difference without regard to the wrap. *)
SubPlain(a, b) == a - b
Sub(a, b) == LET d == (a - b) % Wrap IN IF 2 * d >= Wrap THEN d - Wrap ELSE d

Frames == Len(frames)
Running == Frames > 0
frame == frames[Frames]
At(pc) == Running /\ frame.pc = pc
Move(next) == frames' = [frames EXCEPT ![Frames] = next]
InCallback == At("callback")
Immediate(entry) == entry.time = 0

(* The timers that are immediate at the front of the list. *)
Immediates(list) == 
    CHOOSE n \in 0 .. Len(list) : 
        /\ \A i \in 1 .. n : Immediate(list[i]) 
        /\ n < Len(list) => ~Immediate(list[n + 1])

(* timers.remove(off, len) *)
Cut(list, off, len) == SubSeq(list, 1, off) \o SubSeq(list, off + len + 1, Len(list))

-------------------------------------------------------------------------------
(* What the program does, outside of the loop and in callbacks.            *)

(* run_later: an immediate timer goes behind the immediate ones, another   *)
(* one before the first that is due later.                                 *)
NextTime(delay) ==
    IF delay = 0 THEN 0
    ELSE LET time == Add(clock, delay) IN IF time = 0 THEN 1 ELSE time

Place(time) ==
    LET before == {i \in DOMAIN timers :
                     /\ ~Immediate(timers[i])
                     /\ time = 0 \/ Sub(time, timers[i].time) < 0}
    IN  IF before = {} THEN Len(timers) + 1 ELSE CHOOSE i \in before : \A j \in before : i <= j

RunLater(t, delay) ==
    /\ runs[t] = -1 /\ \A u \in 1 .. t - 1 : runs[u] # -1
    /\ ~Running \/ InCallback
    /\ Careful => ~(delay = 0 /\ \E i \in 1 .. Frames : frames[i].pc = "callback" /\ frames[i].kind = "delayed")
    /\ LET time == NextTime(delay)
           due == IF delay = 0 THEN 0 ELSE Sub(time, clock)
       IN  timers' = InsertAt(timers, Place(time), [time |-> time, timer |-> t, due |-> due])
    /\ runs' = [runs EXCEPT ![t] = 0]
    /\ UNCHANGED <<clock, frames, leaveLoop, inbox>>

(* leave_loop *)
LeaveLoop ==
    /\ InCallback
    /\ ~leaveLoop
    /\ leaveLoop' = TRUE
    /\ UNCHANGED <<timers, clock, frames, inbox, runs>>

(* enter_loop, and dispatch called by the program itself. *)
MayCall ==
    /\ ~Running \/ InCallback
    /\ Frames < MaxFrames
    /\ Careful /\ Running => frame.kind = "message"

EnterLoop == 
    /\ MayCall
    /\ frames' = Append(frames, Frame)
    /\ UNCHANGED <<timers, clock, leaveLoop, inbox, runs>>

CallDispatch(timeout) ==
    /\ MayCall
    /\ frames' = Append(frames, [Frame EXCEPT !.pc = "start", !.timeout = timeout, !.loop = FALSE])
    /\ UNCHANGED <<timers, clock, leaveLoop, inbox, runs>>

-------------------------------------------------------------------------------
(* enter_loop *)
Again ==
    /\ At("top")
    /\ IF leaveLoop 
       THEN frames' = Front(frames) /\ leaveLoop' = FALSE
       ELSE Move([Frame EXCEPT !.pc = "start"]) /\ UNCHANGED leaveLoop
    /\ UNCHANGED <<timers, clock, inbox, runs>>

(* dispatch ends, with a value or an error, which enter_loop prints. *)
Leave == IF frame.loop THEN Move(Frame) ELSE frames' = Front(frames)

Receive(timeout) == [Frame EXCEPT !.pc = "receive", !.timeout = timeout, !.loop = frame.loop]

(* It first counts the immediate timers of the moment. *)
Start ==
    /\ At("start")
    /\ Move(IF timers = <<>> THEN Receive(frame.timeout)
            ELSE [frame EXCEPT !.pc = "immediate", !.len = Immediates(timers)])
    /\ UNCHANGED <<timers, clock, leaveLoop, inbox, runs>>

Call(t, kind) ==
    /\ Move([frame EXCEPT !.pc = "callback", !.kind = kind])
    /\ runs' = [runs EXCEPT ![t] = @ + 1]
    /\ UNCHANGED <<timers, clock, leaveLoop, inbox>>

RunImmediate == At("immediate") /\ frame.off < frame.len /\ Call(timers[frame.off + 1].timer, "immediate")

(* Mutant: all immediate timers are removed, the new ones too. *)
ImmediatesAllDone ==
    /\ At("immediate") /\ frame.off = frame.len
    /\ LET left == Cut(timers, 0, Immediates(timers))
           new == Immediates(left)
           timeout == IF new # 0 THEN 0 ELSE frame.timeout
       IN  /\ timers' = left
           /\ Move(IF new = Len(left) THEN Receive(timeout)
                   ELSE [frame EXCEPT !.pc = "delayed", !.off = new, !.imm = new, !.now = clock, !.timeout = timeout])
    /\ UNCHANGED <<clock, leaveLoop, inbox, runs>>

(* The immediate timers that ran are removed, the ones added meanwhile are *)
(* skipped, and the clock is read for the others.                          *)
ImmediatesDone ==
    /\ At("immediate") /\ frame.off = frame.len
    /\ LET left == Cut(timers, 0, frame.off)
           new == Immediates(left)
           timeout == IF new # 0 THEN 0 ELSE frame.timeout
       IN  /\ timers' = left
           /\ Move(IF new = Len(left) THEN Receive(timeout)
                   ELSE [frame EXCEPT !.pc = "delayed", !.off = new, !.imm = new, !.now = clock, !.timeout = timeout])
    /\ UNCHANGED <<clock, leaveLoop, inbox, runs>>

Wait == Sub(timers[frame.off + 1].time, frame.now)

RunDelayed ==
    /\ At("delayed") /\ frame.off < Len(timers) /\ Wait <= 0
    /\ Call(timers[frame.off + 1].timer, "delayed")

(* Mutant: no timeout counts as less than any wait. *)
DelayedDoneAlways ==
    /\ At("delayed")
    /\ \/ frame.off >= Len(timers) /\ Move(Receive(frame.timeout))
       \/ /\ frame.off < Len(timers) /\ Wait > 0
          /\ Move(Receive(IF Wait < frame.timeout THEN Wait ELSE frame.timeout))
    /\ timers' = Cut(timers, frame.imm, frame.off - frame.imm)
    /\ UNCHANGED <<clock, leaveLoop, inbox, runs>>

DelayedDone ==
    /\ At("delayed")
    /\ \/ frame.off >= Len(timers) /\ Move(Receive(frame.timeout))
       \/ /\ frame.off < Len(timers) /\ Wait > 0
          /\ Move(Receive(IF frame.timeout < 0 \/ Wait < frame.timeout THEN Wait ELSE frame.timeout))
    /\ timers' = Cut(timers, frame.imm, frame.off - frame.imm)
    /\ UNCHANGED <<clock, leaveLoop, inbox, runs>>

(* set.receive: a message, nothing in time, or an error, which is thrown.  *)
TakeMessage ==
    /\ At("receive") /\ inbox > 0
    /\ inbox' = inbox - 1
    /\ \/ Move([Frame EXCEPT !.pc = "callback", !.kind = "message", !.loop = frame.loop])
       \/ Leave
    /\ UNCHANGED <<timers, clock, leaveLoop, runs>>

NoMessage ==
    /\ At("receive") /\ inbox = 0 /\ frame.timeout = 0
    /\ Leave
    /\ UNCHANGED <<timers, clock, leaveLoop, inbox, runs>>

(* The callback returns. *)
Return ==
    /\ InCallback
    /\ IF frame.kind = "message" THEN Leave
       ELSE Move([frame EXCEPT !.pc = frame.kind, !.kind = "none", !.off = @ + 1])
    /\ UNCHANGED <<timers, clock, leaveLoop, inbox, runs>>

(* Mutant: everything before the timer is removed, it stays. *)
ThrowBeforeIt ==
    /\ InCallback
    /\ Careful => ~(frame.kind = "delayed" /\ frame.imm > 0)
    /\ Leave
    /\ timers' = IF frame.kind = "message" THEN timers ELSE Cut(timers, 0, frame.off)
    /\ UNCHANGED <<clock, leaveLoop, inbox, runs>>

(* The callback throws: everything up to the timer is removed. *)
Throw ==
    /\ InCallback
    /\ Careful => ~(frame.kind = "delayed" /\ frame.imm > 0)
    /\ Leave
    /\ timers' = IF frame.kind = "message" THEN timers ELSE Cut(timers, 0, frame.off + 1)
    /\ UNCHANGED <<clock, leaveLoop, inbox, runs>>

-------------------------------------------------------------------------------
(* The surroundings. *)
Arrive ==
    /\ inbox < MaxInbox
    /\ inbox' = inbox + 1
    /\ UNCHANGED <<timers, clock, frames, leaveLoop, runs>>

(* A millisecond passes: in set.receive, whose wait it shortens, and in    *)
(* what the program does, not in the few steps of the loop itself.  No     *)
(* timer stays in the list for half of the range of the clock.             *)
Tick ==
    /\ ~Running \/ InCallback \/ At("receive")
    /\ \A i \in DOMAIN timers : timers[i].due > -MaxLate
    /\ clock' = Add(clock, 1)
    /\ timers' = [i \in DOMAIN timers |-> [timers[i] EXCEPT !.due = @ - 1]]
    /\ frames' = IF At("receive") /\ frame.timeout > 0 
                 THEN [frames EXCEPT ![Frames].timeout = @ - 1] ELSE frames
    /\ UNCHANGED <<leaveLoop, inbox, runs>>

Loop ==
    \/ Again \/ Start \/ RunImmediate \/ ImmediatesDone \/ RunDelayed \/ DelayedDone
    \/ TakeMessage \/ NoMessage

Program ==
    \/ \E t \in Timer, d \in Delays : RunLater(t, d)
    \/ LeaveLoop \/ EnterLoop \/ \E timeout \in {-1, 0} : CallDispatch(timeout)
    \/ Return \/ Throw

Next == Loop \/ Program \/ Arrive \/ Tick

Spec == Init /\ [][Next]_vars

(* The thread runs, time passes, and a callback comes to an end, whatever  *)
(* loops it enters on the way.                                             *)
FairSpec == Spec /\ WF_vars(Loop) /\ SF_vars(Return) /\ SF_vars(Tick)

-------------------------------------------------------------------------------
Pending == {t \in Timer : runs[t] = 0}
Listed == {timers[i].timer : i \in DOMAIN timers}

(* A timer runs at most once, although the list it stands in is changed    *)
(* under the loop by its own callback and by others (dispatch, run_later). *)
RunsAtMostOnce == \A t \in Timer : runs[t] <= 1

(* A timer that was added stays in the list until it has run: no removal,  *)
(* after a callback or after an error, takes a timer that has not run.     *)
NoTimerLost == Pending \subseteq Listed

(* A timer never runs before its time, nor before one that was due         *)
(* earlier, across the wrap of the clock (the comparisons of run_later and *)
(* dispatch by sub32).                                                     *)
InTimeOrder ==
    [][\A i \in DOMAIN timers :
          runs[timers[i].timer] = 0 /\ runs'[timers[i].timer] > 0 =>
             /\ timers[i].due <= 0
             /\ \A j \in DOMAIN timers :
                   ~Immediate(timers[i]) /\ ~Immediate(timers[j]) /\ timers[j].timer \in Pending
                   => timers[i].due <= timers[j].due]_vars

(* A loop that is not left runs every timer: it neither sleeps past the    *)
(* first one nor lets messages hold them up.                               *)
EveryTimerRuns == \A t \in Timer : runs[t] = 0 ~> runs[t] > 0 \/ ~Running
===============================================================================
