------------------------------ MODULE Lifecycle ------------------------------
(***************************************************************************)
(* From the start of the program to its end, without the event loop:       *)
(*                                                                         *)
(*   proj_init, proj_shutdown             proj.c                           *)
(*   mouse_write_command and its users    drivers/mouse.c                  *)
(*   kbc_write                            drivers/kbc.c                    *)
(*   the *_subscribe, *_unsubscribe and mode-setting functions             *)
(*                                                                         *)
(* A command for the mouse is written in two bytes to the input buffer of  *)
(* the KBC, and its answer is read from the output buffer after a delay,   *)
(* whatever is there by then: the answer, a keyboard byte, movement data,  *)
(* or nothing, in which case the port still has the byte read before.      *)
(***************************************************************************)
EXTENDS Integers, Sequences

CONSTANTS
    MAX_ATTEMPTS,  \* attempts of mouse_write_command and kbc_write (20)
    MaxFail,       \* bound: system calls that fail
    MaxRefuse,     \* bound: bytes the mouse refuses of its own accord
    MaxNoise,      \* bound: keyboard and movement bytes
    LAST           \* value the data port may have before the program starts

ASSUME AttemptsAssumption == MAX_ATTEMPTS \in Nat \ {0}
ASSUME LimitsAssumption == MaxFail \in Nat /\ MaxRefuse \in Nat /\ MaxNoise \in Nat
ASSUME LastAssumption == LAST \subseteq {"ACK", "NACK", "other"} /\ LAST # {}

VARIABLES
    pos,        \* the step of Script that runs
    res,        \* what proj_main_loop returned: "none" before it does
    subs,       \* interrupt policies that are set
    graphics,   \* the screen is in graphics mode
    at,         \* where mouse_write_command is
    cnt,        \* its attempts left
    tries,      \* attempts left in kbc_write
    ib,         \* input buffer of the KBC
    aimed,      \* the KBC passes the next byte on to the mouse
    ob,         \* output buffer of the KBC
    latch,      \* value of the byte the port gave last
    answers,    \* answers the mouse has not sent yet
    arg,        \* the mouse waits for the argument of 0xF3
    rate,       \* what the mouse took for its sample rate
    reporting,  \* data reporting is on
    pending,    \* interrupt bits the kernel holds for the driver
    fails, refused, noise,  \* what the bounds count
    fresh,      \* history: the event loop has not read anything yet
    again,      \* history: a command was written more than once
    misreads,   \* history: reads that did not find an answer
    misled      \* history: a command byte did not go to the mouse

proc == <<pos, res, subs, graphics, at, cnt, tries>>
kbc == <<ib, aimed, ob, latch, pending>>
device == <<answers, arg, rate, reporting>>
bounds == <<fails, refused, noise>>
hist == <<fresh, again, misreads, misled>>
vars == <<proc, kbc, device, bounds, hist>>

Commands == {"F3", "40", "F4", "F5"}

ScriptSwapped ==
    << "keyboard_subscribe", "timer_subscribe", "mouse_subscribe", "40", "F3", "F4",
       "gpu_set_mode", "gpu_init_mem_indexation", "loop", "F5",
       "keyboard_unsubscribe", "timer_unsubscribe", "mouse_unsubscribe", "vg_exit" >>

ScriptWrongCommand ==
    << "keyboard_subscribe", "timer_subscribe", "mouse_subscribe", "F3", "40", "F4",
       "gpu_set_mode", "gpu_init_mem_indexation", "loop", "F4",
       "keyboard_unsubscribe", "timer_unsubscribe", "mouse_unsubscribe", "vg_exit" >>

ScriptLate ==
    << "keyboard_subscribe", "timer_subscribe", "F3", "40", "F4", "mouse_subscribe",
       "gpu_set_mode", "gpu_init_mem_indexation", "loop", "F5",
       "keyboard_unsubscribe", "timer_unsubscribe", "mouse_unsubscribe", "vg_exit" >>

\* What proj_init does, the event loop, and what proj_shutdown does. A step
\* that fails ends the program.
Script ==
    << "keyboard_subscribe", "timer_subscribe", "mouse_subscribe", "F3", "40", "F4",
       "gpu_set_mode", "gpu_init_mem_indexation", "loop", "F5",
       "keyboard_unsubscribe", "timer_unsubscribe", "mouse_unsubscribe", "vg_exit" >>

Running == res = "none"
Step == Script[pos]

Nothing == [src |-> "none", val |-> "other"]

Init ==
    /\ pos = 1 /\ res = "none" /\ subs = {} /\ graphics = FALSE
    /\ at = "enter" /\ cnt = MAX_ATTEMPTS /\ tries = MAX_ATTEMPTS
    /\ ib = "none" /\ aimed = FALSE /\ ob = Nothing /\ latch \in LAST /\ pending = {}
    /\ answers = << >> /\ arg = FALSE /\ rate = "default" /\ reporting = FALSE
    /\ fails = 0 /\ refused = 0 /\ noise = 0
    /\ fresh = TRUE /\ again = FALSE /\ misreads = 0 /\ misled = FALSE

-----------------------------------------------------------------------------
(* The hardware. *)

\* The mouse takes a byte: an argument after 0xF3, or else a command.
Execute(b) ==
    /\ arg' = (~arg /\ b = "F3")
    /\ rate' = IF arg THEN b ELSE rate
    /\ reporting' = IF arg \/ b \notin {"F4", "F5"} THEN reporting ELSE b = "F4"
    /\ answers' = Append(answers, IF ~arg /\ b = "40" THEN "NACK" ELSE "ACK")
    /\ UNCHANGED refused

\* It may refuse a byte that it received badly.
Refuse(b) ==
    /\ refused < MaxRefuse
    /\ refused' = refused + 1
    /\ answers' = Append(answers, "NACK")
    /\ UNCHANGED <<arg, rate, reporting>>

\* The KBC works on its input buffer: 0xD4 aims the next byte at the mouse.
KbcTakes ==
    /\ ib # "none"
    /\ ib' = "none"
    /\ aimed' = (ib = "D4")
    /\ misled' = (misled \/ (ib # "D4" /\ ~aimed))
    /\ IF aimed /\ ib # "D4" THEN Execute(ib) \/ Refuse(ib)
                             ELSE UNCHANGED <<device, refused>>
    /\ UNCHANGED <<proc, ob, latch, pending, fails, noise, fresh, again, misreads>>

\* A byte enters the output buffer and raises an interrupt, which the kernel
\* keeps for the driver if it has set a policy for it.
Load(src, val) ==
    /\ ob = Nothing
    /\ ob' = [src |-> src, val |-> val]
    /\ pending' = pending \cup (subs \cap {IF src = "kbd" THEN "kbd" ELSE "mouse"})
    /\ UNCHANGED <<proc, ib, aimed, latch, arg, rate, reporting, fails, refused, hist>>

Answer ==
    /\ answers # << >>
    /\ Load("answer", Head(answers))
    /\ answers' = Tail(answers)
    /\ UNCHANGED noise

\* A key, or a movement: its data may have the value of an acknowledgement.
Noise ==
    /\ noise < MaxNoise /\ noise' = noise + 1
    /\ \/ Load("kbd", "other")
       \/ reporting /\ answers = << >> /\ \E v \in {"ACK", "other"} : Load("data", v)
    /\ UNCHANGED answers

-----------------------------------------------------------------------------
(* The program. *)

\* The step ends well and the next one begins, or the program ends.
Succeed ==
    /\ IF pos = Len(Script) THEN res' = "ok" /\ UNCHANGED pos
                            ELSE pos' = pos + 1 /\ UNCHANGED res
    /\ at' = "enter" /\ cnt' = MAX_ATTEMPTS /\ tries' = MAX_ATTEMPTS

Fail ==
    /\ res' = "failed"
    /\ UNCHANGED <<pos, at, cnt, tries>>

CallFails ==
    /\ Running /\ Step # "loop"
    /\ Step \in Commands => at # "enter"
    /\ fails < MaxFail /\ fails' = fails + 1
    /\ Fail
    /\ UNCHANGED <<subs, graphics, kbc, device, refused, noise, hist>>

\* A subscription, its removal, or a change of the graphics mode.
SystemCall ==
    /\ Running /\ Step \notin Commands \cup {"loop"}
    /\ subs' = CASE Step = "keyboard_subscribe" -> subs \cup {"kbd"}
                 [] Step = "timer_subscribe" -> subs \cup {"timer"}
                 [] Step = "mouse_subscribe" -> subs \cup {"mouse"}
                 [] Step = "keyboard_unsubscribe" -> subs \ {"kbd"}
                 [] Step = "timer_unsubscribe" -> subs \ {"timer"}
                 [] Step = "mouse_unsubscribe" -> subs \ {"mouse"}
                 [] OTHER -> subs
    /\ graphics' = CASE Step = "gpu_set_mode" -> TRUE
                     [] Step = "vg_exit" -> FALSE
                     [] OTHER -> graphics
    /\ Succeed
    /\ UNCHANGED <<kbc, device, bounds, hist>>

\* mouse_write_command tests an uninitialised variable before its first
\* attempt: if that happens to hold an acknowledgement, it fails at once.
EnterCommand ==
    /\ Running /\ Step \in Commands /\ at = "enter"
    /\ \/ at' = "D4" /\ UNCHANGED <<res, pos, cnt, tries>>
       \/ Fail
    /\ UNCHANGED <<subs, graphics, kbc, device, bounds, hist>>

MayWriteAlways == TRUE

\* kbc_write waits until the input buffer is free.
MayWrite == ib = "none"

TriesKept == tries
TriesAfter == tries - 1

\* One attempt of kbc_write that finds it full.
WriteBusy ==
    /\ Running /\ at \in {"D4", "byte"} /\ ~MayWrite
    /\ IF TriesAfter > 0 THEN tries' = TriesAfter /\ UNCHANGED <<res, pos, at, cnt>>
                         ELSE Fail
    /\ UNCHANGED <<subs, graphics, kbc, device, bounds, hist>>

\* kbc_write writes 0xD4, and then the command.
WriteByte ==
    /\ Running /\ at \in {"D4", "byte"} /\ MayWrite
    /\ ib' = IF at = "D4" THEN "D4" ELSE Step
    /\ at' = IF at = "D4" THEN "byte" ELSE "read"
    /\ tries' = MAX_ATTEMPTS
    /\ again' = (again \/ (at = "byte" /\ cnt < MAX_ATTEMPTS))
    /\ UNCHANGED <<pos, res, subs, graphics, cnt, aimed, ob, latch, pending, device,
                   bounds, fresh, misreads, misled>>

AnswerNotRead ==
    /\ Running /\ at = "read"
    /\ Succeed
    /\ UNCHANGED <<subs, graphics, kbc, device, bounds, hist>>

\* The read of the answer, without a look at the status.
ReadAnswer ==
    LET aknl == IF ob = Nothing THEN latch ELSE ob.val
    IN /\ Running /\ at = "read"
       /\ ob' = Nothing /\ latch' = aknl
       /\ misreads' = IF ob.src = "answer" THEN misreads ELSE misreads + 1
       /\ IF aknl = "ACK" THEN Succeed
          ELSE IF cnt > 1 THEN /\ at' = "D4" /\ cnt' = cnt - 1
                               /\ UNCHANGED <<pos, res, tries>>
          ELSE Fail
       /\ UNCHANGED <<subs, graphics, ib, aimed, pending, device, bounds,
                      fresh, again, misled>>

\* The event loop takes a notification and, as a rule, the byte there is.
Handle ==
    /\ Running /\ Step = "loop" /\ pending # {}
    /\ pending' = {} /\ fresh' = FALSE
    /\ \/ ob # Nothing /\ ob' = Nothing /\ latch' = ob.val
       \/ UNCHANGED <<ob, latch>>
    /\ UNCHANGED <<proc, ib, aimed, device, bounds, again, misreads, misled>>

LeaveLoop ==
    /\ Running /\ Step = "loop"
    /\ Succeed
    /\ fresh' = FALSE
    /\ UNCHANGED <<subs, graphics, kbc, device, bounds, again, misreads, misled>>

Hardware == KbcTakes \/ Answer \/ Noise

Work ==
    \/ SystemCall
    \/ EnterCommand \/ WriteBusy \/ WriteByte \/ ReadAnswer
    \/ Handle

Next == Hardware \/ Work \/ CallFails \/ LeaveLoop

\* The program is scheduled; when the loop is left is up to the user, and
\* nothing is assumed of the hardware.
Spec == Init /\ [][Next]_vars /\ WF_vars(Work)

-----------------------------------------------------------------------------
(* Properties. *)

\* Every variable stays within the range its C type and its use allow.
TypeOK ==
    /\ pos \in 1..Len(Script) /\ res \in {"none", "ok", "failed"}
    /\ subs \subseteq {"kbd", "timer", "mouse"} /\ graphics \in BOOLEAN
    /\ at \in {"enter", "D4", "byte", "read"}
    /\ cnt \in 1..MAX_ATTEMPTS /\ tries \in 1..MAX_ATTEMPTS
    /\ ib \in Commands \cup {"none", "D4"} /\ aimed \in BOOLEAN
    /\ ob \in [src : {"none", "kbd", "answer", "data"}, val : {"ACK", "NACK", "other"}]
    /\ latch \in {"ACK", "NACK", "other"} /\ pending \subseteq {"kbd", "mouse"}
    /\ answers \in Seq({"ACK", "NACK"})
    /\ arg \in BOOLEAN /\ rate \in Commands \cup {"default"} /\ reporting \in BOOLEAN
    /\ fails \in 0..MaxFail /\ refused \in 0..MaxRefuse /\ noise \in 0..MaxNoise
    /\ fresh \in BOOLEAN /\ again \in BOOLEAN /\ misreads \in Nat /\ misled \in BOOLEAN

\* A command byte is never taken for a byte to the keyboard, however slowly
\* the KBC works and whichever step of a command is repeated.
CommandsAimed == ~misled

\* Answers to commands that are not read yet, or not even given yet.
Unread == Len(answers) + (IF ob.src = "answer" THEN 1 ELSE 0)
                       + (IF ib \in Commands THEN 1 ELSE 0)

\* mouse_write_command pairs each command with one read, so every answer it
\* leaves behind is due to a read that came too early or took a foreign byte.
UnreadBound == Unread <= misreads + (IF at = "read" THEN 1 ELSE 0)

\* Where the event loop starts, if all answers came in time: none is left, a
\* mouse interrupt without a byte is pending (the policy was set before the
\* commands), and a keyboard interrupt is pending only with its byte.
StartOfLoop ==
    (Running /\ Step = "loop" /\ fresh /\ misreads = 0)
        => /\ Unread = 0
           /\ "mouse" \in pending
           /\ "kbd" \in pending => ob.src = "kbd"

\* A byte is on its way to the mouse.
UnderWay(b) == ib = b /\ aimed

\* In the event loop the mouse reports its movements, or is about to, unless
\* it refused a byte: no acknowledgement of an earlier command, read in place
\* of the right one, can hide that data reporting was never enabled.
MouseIsOn == (Running /\ Step = "loop") => reporting \/ UnderWay("F4") \/ refused > 0

\* In the event loop the sample rate is 40, unless a command had to be
\* repeated (0xF3 may then be its own argument) or the mouse refused a byte.
RateIsSet == (Running /\ Step = "loop") => rate = "40" \/ again \/ refused > 0

\* A program that returns 0 has removed its policies, left the graphics mode
\* and switched the mouse off, unless it refused a byte, even if movement data
\* was taken for the acknowledgement.
CleanExit ==
    res = "ok" => /\ subs = {} /\ ~graphics
                  /\ ~reporting \/ UnderWay("F5") \/ refused > 0

\* mouse_write_command and kbc_write give up in the end, even if the hardware
\* does nothing at all: the event loop is reached or the program ends.
InitEnds == Running ~> (~Running \/ Step = "loop")
=============================================================================
