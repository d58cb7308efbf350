--------------------------- MODULE LifecycleProofs ---------------------------
(***************************************************************************)
(* The safety properties of Lifecycle for every number of attempts and any *)
(* number of failing calls, refused bytes and bytes of other origin.       *)
(*                                                                         *)
(* The invariants follow a byte on its way: Aiming from kbc_write to the   *)
(* KBC, Counting the answers, Starting the interrupt bits before the event *)
(* loop, Commanding what the mouse has made of the commands, Holding what  *)
(* the program has taken from the system.                                  *)
(***************************************************************************)
EXTENDS Lifecycle, TLAPS

\* At most one byte of a command is in the input buffer, and the KBC knows
\* that it is for the mouse.
Aiming ==
    /\ at # "enter" => Step \in Commands
    /\ ib \in Commands => aimed
    /\ at = "byte" => ib = "D4" \/ (ib = "none" /\ aimed)
    /\ ~misled

Counting == UnreadBound

\* Until the loop takes its first notification the kernel keeps the bits.
Starting ==
    /\ fresh => pos <= 9
    /\ (ib \in Commands \/ answers # << >> \/ ob.src = "answer") => pos >= 4
    /\ (fresh /\ ob.src = "answer") => "mouse" \in pending
    /\ (fresh /\ misreads = 0 /\ pos >= 5) => "mouse" \in pending
    /\ (fresh /\ misreads = 0 /\ "kbd" \in pending) => ob.src = "kbd"

\* How far the commands have come that were written in this step or before,
\* as long as the mouse refuses none.
Commanding ==
    refused = 0 =>
        /\ pos = 5 /\ at = "read" => ib = "40" \/ (ib = "none" /\ ~arg)
        /\ pos >= 6 => ib = "40" \/ (ib # "F3" /\ ~arg)
        /\ pos = 6 /\ at = "read" => ib = "F4" \/ (ib = "none" /\ reporting)
        /\ pos \in 7..9 => ib = "F4" \/ (ib = "none" /\ reporting)
        /\ pos = 10 /\ at = "read" => ib = "F5" \/ (ib = "none" /\ ~reporting)
        /\ pos >= 11 => ib = "F5" \/ (ib = "none" /\ ~reporting)

\* The sample rate, as long as no command is repeated either.
Rating ==
    (refused = 0 /\ ~again) =>
        /\ pos <= 3 => ib = "none" /\ ~arg
        /\ pos = 4 /\ at # "read" /\ cnt = MAX_ATTEMPTS => ib \notin Commands /\ ~arg
        /\ pos = 4 /\ at = "read" => (ib = "F3" /\ ~arg) \/ (ib = "none" /\ arg)
        /\ pos = 5 /\ at # "read" /\ cnt = MAX_ATTEMPTS
              => (ib = "F3" /\ ~arg) \/ (ib \in {"none", "D4"} /\ arg)
        /\ pos = 5 /\ at = "read" => (ib = "40" /\ arg) \/ (ib = "none" /\ rate = "40" /\ ~arg)
        /\ pos >= 6 => (ib = "40" /\ arg) \/ (ib \notin {"40", "F3"} /\ rate = "40" /\ ~arg)
        /\ pos = 6 /\ at = "read" => ib # "40"
        /\ pos >= 7 => ib # "40"

\* What the program holds is given by how far it is.
Holding ==
    /\ res # "ok" => /\ "kbd" \in subs <=> pos \in 2..11
                     /\ "timer" \in subs <=> pos \in 3..12
                     /\ "mouse" \in subs <=> pos \in 4..13
                     /\ graphics <=> pos >= 8
    /\ res = "ok" => pos = 14 /\ subs = {} /\ ~graphics

-----------------------------------------------------------------------------
(* The script, position by position. *)

LEMMA ScriptLength == Len(Script) = 14
BY DEF Script

LEMMA ScriptSteps ==
    ASSUME pos \in 1..14
    PROVE  /\ pos = 4 => Step = "F3"
           /\ pos = 5 => Step = "40"
           /\ pos = 6 => Step = "F4"
           /\ pos = 10 => Step = "F5"
           /\ Step \in Commands <=> pos \in {4, 5, 6, 10}
           /\ Step = "loop" <=> pos = 9
           /\ Step = "keyboard_subscribe" <=> pos = 1
           /\ Step = "timer_subscribe" <=> pos = 2
           /\ Step = "mouse_subscribe" <=> pos = 3
           /\ Step = "gpu_set_mode" <=> pos = 7
           /\ Step = "keyboard_unsubscribe" <=> pos = 11
           /\ Step = "timer_unsubscribe" <=> pos = 12
           /\ Step = "mouse_unsubscribe" <=> pos = 13
           /\ Step = "vg_exit" <=> pos = 14
BY DEF Script, Step, Commands

-----------------------------------------------------------------------------
(* Types, and commands that reach the mouse. *)

Inv1 == TypeOK /\ Aiming

\* TypeOK in two parts: the Boolean variables, and the others.
Flags ==
    /\ graphics \in BOOLEAN /\ aimed \in BOOLEAN /\ arg \in BOOLEAN /\ reporting \in BOOLEAN
    /\ fresh \in BOOLEAN /\ again \in BOOLEAN /\ misled \in BOOLEAN

Others ==
    /\ pos \in 1..14 /\ res \in {"none", "ok", "failed"}
    /\ subs \subseteq {"kbd", "timer", "mouse"}
    /\ at \in {"enter", "D4", "byte", "read"}
    /\ cnt \in 1..MAX_ATTEMPTS /\ tries \in 1..MAX_ATTEMPTS
    /\ ib \in Commands \cup {"none", "D4"}
    /\ ob \in [src : {"none", "kbd", "answer", "data"}, val : {"ACK", "NACK", "other"}]
    /\ latch \in {"ACK", "NACK", "other"} /\ pending \subseteq {"kbd", "mouse"}
    /\ answers \in Seq({"ACK", "NACK"})
    /\ rate \in Commands \cup {"default"}
    /\ fails \in 0..MaxFail /\ refused \in 0..MaxRefuse /\ noise \in 0..MaxNoise
    /\ misreads \in Nat

LEMMA TypeParts == TypeOK <=> Flags /\ Others
BY ScriptLength DEF TypeOK, Flags, Others

LEMMA TypePartsNext == TypeOK' <=> Flags' /\ Others'
BY TypeParts, PTL

LEMMA Init1 == Init => Inv1
<1> SUFFICES ASSUME Init PROVE Inv1
  OBVIOUS
<1>1. Flags
  BY DEF Init, Flags
<1>2. Others
  BY AttemptsAssumption, LimitsAssumption, LastAssumption DEF Init, Others, Nothing, Commands
<1>3. Aiming
  BY DEF Init, Aiming, Commands
<1> QED BY <1>1, <1>2, <1>3, TypeParts DEF Inv1

LEMMA KbcTakes1 == Inv1 /\ KbcTakes => Inv1'
<1> SUFFICES ASSUME Inv1, KbcTakes PROVE Inv1'
  OBVIOUS
<1>1. Flags /\ Others /\ Aiming
  BY TypeParts DEF Inv1
<1>2. Flags'
  <2>1. aimed' \in BOOLEAN /\ misled' \in BOOLEAN
    BY DEF KbcTakes
  <2>2. arg' \in BOOLEAN /\ reporting' \in BOOLEAN
    BY <1>1 DEF KbcTakes, Execute, Refuse, device, Flags
  <2>3. graphics' \in BOOLEAN /\ fresh' \in BOOLEAN /\ again' \in BOOLEAN
    BY <1>1 DEF KbcTakes, proc, Flags
  <2> QED BY <2>1, <2>2, <2>3 DEF Flags
<1>3. Others'
  <2>1. /\ pos' = pos /\ res' = res /\ subs' = subs /\ at' = at /\ cnt' = cnt /\ tries' = tries
        /\ ib' = "none" /\ ob' = ob /\ latch' = latch /\ pending' = pending /\ fails' = fails
        /\ noise' = noise /\ misreads' = misreads
    BY DEF KbcTakes, proc
  <2>2. answers' \in Seq({"ACK", "NACK"}) /\ rate' \in Commands \cup {"default"}
        /\ refused' \in 0..MaxRefuse
    <3>1. CASE Execute(ib) /\ aimed /\ ib # "D4"
      <4>1. ib \in Commands
        BY <1>1, <3>1 DEF KbcTakes, Others
      <4> QED BY <1>1, <3>1, <4>1 DEF Execute, Others
    <3>2. CASE Refuse(ib)
      BY <1>1, <3>2, LimitsAssumption DEF Refuse, Others
    <3>3. CASE UNCHANGED <<device, refused>>
      BY <1>1, <3>3 DEF device, Others
    <3> QED BY <3>1, <3>2, <3>3 DEF KbcTakes
  <2> QED BY <1>1, <2>1, <2>2 DEF Others
<1>4. Aiming'
  <2>1. /\ at' = at /\ pos' = pos /\ ib' = "none" /\ ib # "none"
        /\ aimed' = (ib = "D4") /\ misled' = (misled \/ (ib # "D4" /\ ~aimed))
    BY DEF KbcTakes, proc
  <2>2. ib \in Commands \/ ib = "D4"
    BY <1>1, <2>1 DEF Others
  <2>3. ~misled'
    BY <1>1, <2>1, <2>2 DEF Aiming
  <2>4. Step' = Step
    BY <2>1 DEF Step
  <2>5. at' = "byte" => ib' = "none" /\ aimed'
    BY <1>1, <2>1, <2>2 DEF Aiming, Commands
  <2>6. ib' \notin Commands
    BY <2>1 DEF Commands
  <2> QED BY <1>1, <2>1, <2>3, <2>4, <2>5, <2>6 DEF Aiming
<1> QED BY <1>2, <1>3, <1>4, TypePartsNext DEF Inv1

LEMMA Load1 ==
    ASSUME Inv1, NEW src \in {"kbd", "answer", "data"}, NEW val \in {"ACK", "NACK", "other"},
           Load(src, val), answers' \in Seq({"ACK", "NACK"}), noise' \in 0..MaxNoise
    PROVE  Inv1'
<1>1. Flags /\ Others /\ Aiming
  BY TypeParts DEF Inv1
<1>2. Flags'
  BY <1>1 DEF Load, proc, hist, Flags
<1>3. Others'
  BY <1>1 DEF Load, proc, hist, Others
<1>4. Aiming'
  BY <1>1 DEF Load, proc, hist, Aiming, Step
<1> QED BY <1>2, <1>3, <1>4, TypePartsNext DEF Inv1

LEMMA Answer1 == Inv1 /\ Answer => Inv1'
<1> SUFFICES ASSUME Inv1, Answer PROVE Inv1'
  OBVIOUS
<1>1. /\ Load("answer", Head(answers)) /\ Head(answers) \in {"ACK", "NACK"}
      /\ answers' \in Seq({"ACK", "NACK"}) /\ noise' \in 0..MaxNoise
  BY DEF Answer, Inv1, TypeOK
<1> QED BY <1>1, Load1

LEMMA Noise1 == Inv1 /\ Noise => Inv1'
<1> SUFFICES ASSUME Inv1, Noise PROVE Inv1'
  OBVIOUS
<1>1. answers' \in Seq({"ACK", "NACK"}) /\ noise' \in 0..MaxNoise
  BY LimitsAssumption DEF Noise, Inv1, TypeOK
<1>2. \/ Load("kbd", "other") \/ Load("data", "ACK") \/ Load("data", "other")
  BY DEF Noise
<1> QED BY <1>1, <1>2, Load1

\* What Succeed and Fail do to the variables of the program.
LEMMA Ends1 ==
    ASSUME Inv1, Succeed \/ Fail
    PROVE  /\ pos' \in 1..14 /\ res' \in {"none", "ok", "failed"}
           /\ at' \in {"enter", "D4", "byte", "read"}
           /\ cnt' \in 1..MAX_ATTEMPTS /\ tries' \in 1..MAX_ATTEMPTS
           /\ at' = "enter" \/ (at' = at /\ pos' = pos)
BY AttemptsAssumption, ScriptLength DEF Inv1, TypeOK, Succeed, Fail

LEMMA SystemCall1 == Inv1 /\ SystemCall => Inv1'
<1> SUFFICES ASSUME Inv1, SystemCall PROVE Inv1'
  OBVIOUS
<1>1. Flags /\ Others /\ Aiming
  BY TypeParts DEF Inv1
<1>2. Succeed
  BY DEF SystemCall
<1>3. at' = "enter"
  BY <1>2 DEF Succeed
<1>4. Flags'
  <2>1. graphics' \in BOOLEAN
    BY <1>1 DEF SystemCall, Flags
  <2> QED BY <1>1, <2>1 DEF SystemCall, kbc, device, bounds, hist, Flags
<1>5. Others'
  <2>1. subs' \subseteq {"kbd", "timer", "mouse"}
    BY <1>1 DEF SystemCall, Others
  <2> QED BY <1>1, <1>2, <2>1, Ends1 DEF SystemCall, kbc, device, bounds, hist, Others
<1>6. Aiming'
  BY <1>1, <1>3 DEF SystemCall, kbc, device, bounds, hist, Aiming
<1> QED BY <1>4, <1>5, <1>6, TypePartsNext DEF Inv1

\* An action that ends a step, or the program, and changes nothing the
\* hardware shares with it.
LEMMA EndOfStep1 ==
    ASSUME Inv1, Succeed \/ Fail, UNCHANGED <<subs, graphics, kbc, device, refused, noise>>,
           fails' \in 0..MaxFail, fresh' \in BOOLEAN, UNCHANGED <<again, misreads, misled>>
    PROVE  Inv1'
<1>1. Flags /\ Others /\ Aiming
  BY TypeParts DEF Inv1
<1>2. Flags'
  BY <1>1 DEF kbc, device, Flags
<1>3. Others'
  BY <1>1, Ends1 DEF kbc, device, Others
<1>4. Aiming'
  <2>1. at' = "enter" \/ (at' = at /\ Step' = Step)
    BY Ends1 DEF Step
  <2> QED BY <1>1, <2>1 DEF kbc, Aiming
<1> QED BY <1>2, <1>3, <1>4, TypePartsNext DEF Inv1

LEMMA CallFails1 == Inv1 /\ CallFails => Inv1'
<1> SUFFICES ASSUME Inv1, CallFails PROVE Inv1'
  OBVIOUS
<1>1. fails' \in 0..MaxFail
  BY LimitsAssumption DEF CallFails, Inv1, TypeOK
<1>2. fresh' \in BOOLEAN
  BY DEF CallFails, Inv1, TypeOK, hist
<1>3. Fail /\ UNCHANGED <<subs, graphics, kbc, device, refused, noise>>
  BY DEF CallFails
<1>4. UNCHANGED <<again, misreads, misled>>
  BY DEF CallFails, hist
<1> QED BY <1>1, <1>2, <1>3, <1>4, EndOfStep1

LEMMA LeaveLoop1 == Inv1 /\ LeaveLoop => Inv1'
<1> SUFFICES ASSUME Inv1, LeaveLoop PROVE Inv1'
  OBVIOUS
<1>1. fails' \in 0..MaxFail
  BY DEF LeaveLoop, Inv1, TypeOK, bounds
<1>2. fresh' \in BOOLEAN
  <2>1. fresh' = FALSE
    BY DEF LeaveLoop
  <2> QED BY <2>1, Zenon
<1>3. Succeed /\ UNCHANGED <<subs, graphics, kbc, device, refused, noise>>
  BY DEF LeaveLoop, bounds
<1>4. UNCHANGED <<again, misreads, misled>>
  BY DEF LeaveLoop
<1> QED BY <1>1, <1>2, <1>3, <1>4, EndOfStep1

\* The steps of mouse_write_command that leave the controller alone.
LEMMA Stay1 ==
    ASSUME Inv1, UNCHANGED <<subs, graphics, kbc, device, bounds, hist>>,
           \/ Fail
           \/ at' = "D4" /\ Step \in Commands /\ UNCHANGED <<res, pos, cnt, tries>>
           \/ tries' \in 1..MAX_ATTEMPTS /\ UNCHANGED <<res, pos, at, cnt>>
    PROVE  Inv1'
<1>1. Flags /\ Others /\ Aiming
  BY TypeParts DEF Inv1
<1>2. Flags'
  BY <1>1 DEF kbc, device, hist, Flags
<1>3. Others'
  <2>1. /\ pos' = pos /\ cnt' = cnt /\ res' \in {"none", "ok", "failed"}
        /\ at' \in {"enter", "D4", "byte", "read"} /\ tries' \in 1..MAX_ATTEMPTS
    <3>1. CASE Fail
      BY <1>1, <3>1 DEF Others, Fail
    <3>2. CASE at' = "D4" /\ Step \in Commands /\ UNCHANGED <<res, pos, cnt, tries>>
      BY <1>1, <3>2 DEF Others
    <3>3. CASE tries' \in 1..MAX_ATTEMPTS /\ UNCHANGED <<res, pos, at, cnt>>
      BY <1>1, <3>3 DEF Others
    <3> QED BY <3>1, <3>2, <3>3
  <2>2. /\ subs' = subs /\ ib' = ib /\ ob' = ob /\ latch' = latch /\ pending' = pending
        /\ answers' = answers /\ rate' = rate /\ fails' = fails /\ refused' = refused
        /\ noise' = noise /\ misreads' = misreads
    BY DEF kbc, device, bounds, hist
  <2> QED BY <1>1, <2>1, <2>2 DEF Others
<1>4. Aiming'
  <2>1. Step' = Step
    BY DEF Step, Fail
  <2> QED BY <1>1, <2>1 DEF kbc, hist, Aiming, Fail
<1> QED BY <1>2, <1>3, <1>4, TypePartsNext DEF Inv1

LEMMA EnterCommand1 == Inv1 /\ EnterCommand => Inv1'
<1> SUFFICES ASSUME Inv1, EnterCommand PROVE Inv1'
  OBVIOUS
<1>1. Fail \/ (at' = "D4" /\ Step \in Commands /\ UNCHANGED <<res, pos, cnt, tries>>)
  BY DEF EnterCommand
<1>2. UNCHANGED <<subs, graphics, kbc, device, bounds, hist>>
  BY DEF EnterCommand
<1> QED BY <1>1, <1>2, Stay1

LEMMA WriteBusy1 == Inv1 /\ WriteBusy => Inv1'
<1> SUFFICES ASSUME Inv1, WriteBusy PROVE Inv1'
  OBVIOUS
<1>1. Fail \/ (tries' \in 1..MAX_ATTEMPTS /\ UNCHANGED <<res, pos, at, cnt>>)
  BY AttemptsAssumption DEF WriteBusy, TriesAfter, Inv1, TypeOK
<1>2. UNCHANGED <<subs, graphics, kbc, device, bounds, hist>>
  BY DEF WriteBusy
<1> QED BY <1>1, <1>2, Stay1

\* kbc_write finds the input buffer empty, so the byte written before is not
\* overwritten.
LEMMA WriteByte1 == Inv1 /\ WriteByte => Inv1'
<1> SUFFICES ASSUME Inv1, WriteByte PROVE Inv1'
  OBVIOUS
<1>1. Flags /\ Others /\ Aiming
  BY TypeParts DEF Inv1
<1>2. /\ at \in {"D4", "byte"} /\ ib = "none"
      /\ ib' = IF at = "D4" THEN "D4" ELSE Step
      /\ at' = IF at = "D4" THEN "byte" ELSE "read"
      /\ tries' = MAX_ATTEMPTS
      /\ again' = (again \/ (at = "byte" /\ cnt < MAX_ATTEMPTS))
  BY DEF WriteByte, MayWrite
<1>3. UNCHANGED <<pos, res, subs, graphics, cnt, aimed, ob, latch, pending, device,
                  bounds, fresh, misreads, misled>>
  BY DEF WriteByte
<1>4. Step \in Commands /\ Step' = Step
  BY <1>1, <1>2, <1>3 DEF Aiming, Step
<1>5. Flags'
  <2>1. again' \in BOOLEAN
    BY <1>2
  <2> QED BY <1>1, <1>3, <2>1 DEF Flags, device
<1>6. Others'
  BY <1>1, <1>2, <1>3, <1>4, AttemptsAssumption DEF Others, device, bounds
<1>7. Aiming'
  BY <1>1, <1>2, <1>3, <1>4 DEF Aiming, Commands
<1> QED BY <1>5, <1>6, <1>7, TypePartsNext DEF Inv1

LEMMA ReadAnswer1 == Inv1 /\ ReadAnswer => Inv1'
<1> SUFFICES ASSUME Inv1, ReadAnswer PROVE Inv1'
  OBVIOUS
<1>1. Flags /\ Others /\ Aiming
  BY TypeParts DEF Inv1
<1>2. /\ at = "read" /\ ob' = Nothing /\ latch' \in {"ACK", "NACK", "other"} /\ misreads' \in Nat
  BY <1>1 DEF ReadAnswer, Nothing, Others
<1>3. \/ Succeed \/ Fail
      \/ cnt > 1 /\ at' = "D4" /\ cnt' = cnt - 1 /\ UNCHANGED <<pos, res, tries>>
  BY DEF ReadAnswer
<1>4. UNCHANGED <<subs, graphics, ib, aimed, pending, device, bounds, fresh, again, misled>>
  BY DEF ReadAnswer
<1>5. /\ pos' \in 1..14 /\ res' \in {"none", "ok", "failed"}
      /\ at' \in {"enter", "D4", "byte", "read"}
      /\ cnt' \in 1..MAX_ATTEMPTS /\ tries' \in 1..MAX_ATTEMPTS
  <2>1. CASE Succeed \/ Fail
    BY <2>1, Ends1
  <2>2. CASE cnt > 1 /\ at' = "D4" /\ cnt' = cnt - 1 /\ UNCHANGED <<pos, res, tries>>
    BY <1>1, <2>2, AttemptsAssumption DEF Others
  <2> QED BY <1>3, <2>1, <2>2
<1>6. at' # "enter" => Step' \in Commands /\ at' # "byte"
  <2>1. CASE Succeed \/ Fail
    BY <1>1, <1>2, <2>1, Ends1 DEF Aiming, Step
  <2>2. CASE cnt > 1 /\ at' = "D4" /\ cnt' = cnt - 1 /\ UNCHANGED <<pos, res, tries>>
    BY <1>1, <1>2, <2>2 DEF Aiming, Step
  <2> QED BY <1>3, <2>1, <2>2
<1>7. Flags'
  BY <1>1, <1>4 DEF Flags, device
<1>8. Others'
  BY <1>1, <1>2, <1>4, <1>5 DEF Others, Nothing, device, bounds
<1>9. Aiming'
  BY <1>1, <1>4, <1>6 DEF Aiming
<1> QED BY <1>7, <1>8, <1>9, TypePartsNext DEF Inv1

LEMMA Handle1 == Inv1 /\ Handle => Inv1'
<1> SUFFICES ASSUME Inv1, Handle PROVE Inv1'
  OBVIOUS
<1>1. Flags /\ Others /\ Aiming
  BY TypeParts DEF Inv1
<1>2. fresh' = FALSE
  BY DEF Handle
<1>3. fresh' \in BOOLEAN
  BY <1>2, Zenon
<1>4. Flags'
  BY <1>1, <1>3 DEF Flags, Handle, proc, device
<1>5. Others'
  <2>1. ob' \in [src : {"none", "kbd", "answer", "data"}, val : {"ACK", "NACK", "other"}]
        /\ latch' \in {"ACK", "NACK", "other"} /\ pending' = {}
    BY <1>1 DEF Others, Handle, Nothing
  <2> QED BY <1>1, <2>1 DEF Others, Handle, proc, device, bounds
<1>6. Aiming'
  BY <1>1 DEF Aiming, Handle, proc, Step
<1> QED BY <1>4, <1>5, <1>6, TypePartsNext DEF Inv1

LEMMA Stutter1 == Inv1 /\ UNCHANGED vars => Inv1'
BY DEF Inv1, TypeOK, Aiming, Step, vars, proc, kbc, device, bounds, hist

LEMMA Inv1Holds == Spec => []Inv1
<1>1. Inv1 /\ [Next]_vars => Inv1'
  BY KbcTakes1, Answer1, Noise1, SystemCall1, EnterCommand1, WriteBusy1, WriteByte1,
     ReadAnswer1, Handle1, CallFails1, LeaveLoop1, Stutter1
  DEF Next, Hardware, Work
<1> QED BY <1>1, Init1, PTL DEF Spec

-----------------------------------------------------------------------------
(* What the actions do to the bytes under way, for all the parts below. *)

\* The KBC passes a command on to the mouse, or takes note of 0xD4.
LEMMA KbcTakesFacts ==
    ASSUME Inv1, KbcTakes
    PROVE  /\ ib' = "none" /\ at' = at /\ pos' = pos /\ res' = res /\ cnt' = cnt /\ subs' = subs
           /\ ob' = ob /\ pending' = pending /\ misreads' = misreads
           /\ fresh' = fresh /\ again' = again
           /\ \/ ib = "D4" /\ UNCHANGED <<answers, arg, rate, reporting, refused>>
              \/ ib \in Commands /\ aimed /\ ib # "D4" /\ (Execute(ib) \/ Refuse(ib))
<1>1. ib = "D4" \/ (ib \in Commands /\ aimed /\ ib # "D4")
  BY DEF Inv1, TypeOK, Aiming, KbcTakes, Commands
<1> QED BY <1>1 DEF KbcTakes, proc, device

LEMMA AnswerGrows ==
    ASSUME Inv1, NEW b, Execute(b) \/ Refuse(b)
    PROVE  Len(answers') = Len(answers) + 1
BY DEF Inv1, TypeOK, Execute, Refuse

LEMMA WriteByteFacts ==
    ASSUME Inv1, WriteByte
    PROVE  /\ ib = "none" /\ pos' = pos /\ res' = res /\ cnt' = cnt /\ subs' = subs
           /\ UNCHANGED <<ob, pending, answers, arg, rate, reporting, refused, fresh, misreads>>
           /\ \/ at = "D4" /\ at' = "byte" /\ ib' = "D4" /\ again' = again
              \/ /\ at = "byte" /\ at' = "read" /\ ib' = Step /\ Step \in Commands
                 /\ again' = (again \/ cnt < MAX_ATTEMPTS)
<1>1. Step \in Commands
  BY DEF Inv1, Aiming, WriteByte
<1>2. again \in BOOLEAN
  BY DEF Inv1, TypeOK
<1>3. UNCHANGED <<pos, res, subs, cnt, ob, pending, answers, arg, rate, reporting, refused,
                  fresh, misreads>> /\ ib = "none"
  BY DEF WriteByte, MayWrite, device, bounds
<1>4. CASE at = "D4"
  BY <1>2, <1>3, <1>4 DEF WriteByte
<1>5. CASE at = "byte"
  BY <1>1, <1>3, <1>5 DEF WriteByte
<1> QED BY <1>3, <1>4, <1>5 DEF WriteByte

LEMMA ReadAnswerFacts ==
    ASSUME Inv1, ReadAnswer
    PROVE  /\ at = "read" /\ Step \in Commands /\ Running
           /\ ob' = Nothing
           /\ misreads' = IF ob.src = "answer" THEN misreads ELSE misreads + 1
           /\ UNCHANGED <<subs, graphics, ib, aimed, pending, answers, arg, rate, reporting,
                          refused, fresh, again>>
           /\ \/ Succeed
              \/ Fail
              \/ cnt > 1 /\ at' = "D4" /\ cnt' = cnt - 1 /\ UNCHANGED <<pos, res, tries>>
BY DEF Inv1, Aiming, ReadAnswer, device, bounds

\* Actions of the program that touch neither the controller nor the mouse:
\* a step ends, the program fails, or mouse_write_command goes on.
Inward ==
    /\ UNCHANGED <<ib, aimed, ob, pending, answers, arg, rate, reporting, refused, misreads, again>>
    /\ Running /\ (fresh' => fresh)
    /\ \/ /\ at = "enter" /\ Succeed /\ Step \notin Commands
          /\ Step = "loop" => ~fresh'
       \/ Fail
       \/ Step \in Commands /\ at' = "D4" /\ at = "enter" /\ UNCHANGED <<res, pos, cnt>>
       \/ UNCHANGED <<res, pos, at, cnt>>

LEMMA InwardActions ==
    ASSUME Inv1, SystemCall \/ EnterCommand \/ WriteBusy \/ CallFails \/ LeaveLoop
    PROVE  Inward
<1>1. CASE SystemCall
  BY <1>1 DEF Inward, SystemCall, kbc, device, bounds, hist, Inv1, TypeOK, Aiming
<1>2. CASE EnterCommand
  BY <1>2 DEF Inward, EnterCommand, kbc, device, bounds, hist
<1>3. CASE WriteBusy
  BY <1>3 DEF Inward, WriteBusy, kbc, device, bounds, hist
<1>4. CASE CallFails
  BY <1>4 DEF Inward, CallFails, kbc, device, hist
<1>5. CASE LeaveLoop
  BY <1>5 DEF Inward, LeaveLoop, kbc, device, bounds, Inv1, TypeOK, Aiming, Commands
<1> QED BY <1>1, <1>2, <1>3, <1>4, <1>5

LEMMA LoadFacts ==
    ASSUME Answer \/ Noise
    PROVE  /\ ob = Nothing
           /\ UNCHANGED <<pos, res, subs, graphics, at, cnt, ib, aimed, arg, rate, reporting,
                          refused, fresh, again, misreads>>
           /\ \/ /\ answers # << >> /\ answers' = Tail(answers) /\ ob'.src = "answer"
                 /\ pending' = pending \cup (subs \cap {"mouse"})
              \/ /\ answers' = answers /\ ob'.src = "kbd"
                 /\ pending' = pending \cup (subs \cap {"kbd"})
              \/ /\ answers' = answers /\ ob'.src = "data"
                 /\ pending' = pending \cup (subs \cap {"mouse"})
BY DEF Answer, Noise, Load, proc, hist

LEMMA HandleFacts ==
    ASSUME Handle
    PROVE  /\ UNCHANGED <<pos, res, subs, graphics, at, cnt, ib, aimed, answers, arg, rate, reporting,
                          refused, again, misreads>>
           /\ ~fresh' /\ Step = "loop"
           /\ ob' = Nothing \/ ob' = ob
BY DEF Handle, proc, device, bounds

LEMMA NextCases ==
    ASSUME Inv1, [Next]_vars
    PROVE  KbcTakes \/ Answer \/ Noise \/ WriteByte \/ ReadAnswer \/ Handle \/ Inward
              \/ UNCHANGED vars
BY InwardActions DEF Next, Hardware, Work

-----------------------------------------------------------------------------
(* Answers. *)

AnswerIn == IF ob.src = "answer" THEN 1 ELSE 0
CommandIn == IF ib \in Commands THEN 1 ELSE 0
ReadDue == IF at = "read" THEN 1 ELSE 0

\* The three terms by cases.
Terms ==
    /\ (ob.src = "answer" /\ AnswerIn = 1) \/ (ob.src # "answer" /\ AnswerIn = 0)
    /\ (ib \in Commands /\ CommandIn = 1) \/ (ib \notin Commands /\ CommandIn = 0)
    /\ (at = "read" /\ ReadDue = 1) \/ (at # "read" /\ ReadDue = 0)

LEMMA UnreadTerms ==
    Terms /\ (UnreadBound <=> Len(answers) + AnswerIn + CommandIn <= misreads + ReadDue)
BY DEF Terms, Unread, UnreadBound, AnswerIn, CommandIn, ReadDue

LEMMA UnreadTermsNext ==
    Terms' /\ (UnreadBound' <=> Len(answers') + AnswerIn' + CommandIn' <= misreads' + ReadDue')
BY DEF Terms, Unread, UnreadBound, AnswerIn, CommandIn, ReadDue

LEMMA CountingStep == Inv1 /\ Counting /\ [Next]_vars => Counting'
<1> SUFFICES ASSUME Inv1, Counting, [Next]_vars PROVE UnreadBound'
  BY DEF Counting
<1>1. /\ Len(answers) \in Nat /\ misreads \in Nat
      /\ Nothing.src # "answer" /\ "none" \notin Commands /\ "D4" \notin Commands
  BY DEF Inv1, TypeOK, Nothing, Commands
<1>2. Terms /\ Len(answers) + AnswerIn + CommandIn <= misreads + ReadDue
  BY UnreadTerms DEF Counting
<1>3. SUFFICES ASSUME Terms'
               PROVE  Len(answers') + AnswerIn' + CommandIn' <= misreads' + ReadDue'
  BY UnreadTermsNext
<1>4. CASE KbcTakes
  <2>1. CASE ib = "D4" /\ UNCHANGED <<answers, arg, rate, reporting, refused>>
    BY <1>1, <1>2, <1>3, <1>4, <2>1, KbcTakesFacts DEF Terms
  <2>2. CASE ib \in Commands /\ (Execute(ib) \/ Refuse(ib))
    BY <1>1, <1>2, <1>3, <1>4, <2>2, KbcTakesFacts, AnswerGrows DEF Terms
  <2> QED BY <1>4, <2>1, <2>2, KbcTakesFacts
<1>5. CASE Answer \/ Noise
  <2>1. CASE answers # << >> /\ answers' = Tail(answers) /\ ob'.src = "answer"
    <3>1. Len(answers') = Len(answers) - 1
      BY <2>1 DEF Inv1, TypeOK
    <3> QED BY <1>1, <1>2, <1>3, <1>5, <2>1, <3>1, LoadFacts DEF Terms
  <2>2. CASE answers' = answers /\ ob'.src \in {"kbd", "data"}
    BY <1>1, <1>2, <1>3, <1>5, <2>2, LoadFacts DEF Terms
  <2> QED BY <1>5, <2>1, <2>2, LoadFacts
<1>6. CASE WriteByte
  BY <1>1, <1>2, <1>3, <1>6, WriteByteFacts DEF Terms
<1>7. CASE ReadAnswer
  <2>1. AnswerIn' = 0 /\ ReadDue = 1 /\ misreads' = misreads + 1 - AnswerIn
    BY <1>1, <1>2, <1>3, <1>7, ReadAnswerFacts DEF Terms
  <2>2. ib' = ib /\ answers' = answers
    BY <1>7, ReadAnswerFacts
  <2> QED BY <1>1, <1>2, <1>3, <2>1, <2>2 DEF Terms
<1>8. CASE Handle
  BY <1>1, <1>2, <1>3, <1>8, HandleFacts DEF Terms
<1>9. CASE Inward
  BY <1>1, <1>2, <1>3, <1>9 DEF Inward, Succeed, Fail, Terms
<1>10. CASE UNCHANGED vars
  BY <1>2, <1>10 DEF vars, proc, kbc, device, hist, AnswerIn, CommandIn, ReadDue
<1> QED BY <1>4, <1>5, <1>6, <1>7, <1>8, <1>9, <1>10, NextCases

-----------------------------------------------------------------------------
(* What the mouse has made of the commands. *)

\* The step of the script stays, or the next one begins.
LEMMA SucceedFacts ==
    ASSUME Inv1, Succeed
    PROVE  /\ at' = "enter" /\ cnt' = MAX_ATTEMPTS
           /\ \/ pos < 14 /\ pos' = pos + 1 /\ res' = res
              \/ pos = 14 /\ pos' = pos /\ res' = "ok"
BY ScriptLength DEF Succeed, Inv1, TypeOK

LEMMA CommandingStep == Inv1 /\ Commanding /\ [Next]_vars => Commanding'
<1> SUFFICES ASSUME Inv1, Commanding, [Next]_vars, refused' = 0 PROVE Commanding'
  BY DEF Commanding
<1>1. pos \in 1..14 /\ refused \in Nat /\ Commands = {"F3", "40", "F4", "F5"}
      /\ arg \in BOOLEAN /\ reporting \in BOOLEAN
  BY ScriptLength, LimitsAssumption DEF Inv1, TypeOK, Commands
<1>2. /\ Step \in Commands <=> pos \in {4, 5, 6, 10}
      /\ pos = 4 => Step = "F3"
      /\ pos = 5 => Step = "40"
      /\ pos = 6 => Step = "F4"
      /\ pos = 10 => Step = "F5"
  BY <1>1, ScriptSteps
<1>3. CASE KbcTakes
  <2>1. CASE ib = "D4" /\ UNCHANGED <<answers, arg, rate, reporting, refused>>
    BY <1>1, <1>3, <2>1, KbcTakesFacts DEF Commanding
  <2>2. CASE ib \in Commands /\ Execute(ib)
    <3>1. /\ arg' <=> (~arg /\ ib = "F3")
          /\ ~arg /\ ib = "F4" => reporting'
          /\ ~arg /\ ib = "F5" => ~reporting'
          /\ (arg \/ ib \notin {"F4", "F5"}) => (reporting' <=> reporting)
          /\ refused' = refused
      BY <1>1, <2>2 DEF Execute
    <3>2. ib' = "none" /\ at' = at /\ pos' = pos
      BY <1>3, KbcTakesFacts
    <3> QED BY <1>1, <2>2, <3>1, <3>2 DEF Commanding
  <2>3. CASE Refuse(ib)
    BY <1>1, <2>3 DEF Refuse
  <2> QED BY <1>3, <2>1, <2>2, <2>3, KbcTakesFacts
<1>4. CASE Answer \/ Noise
  BY <1>4, LoadFacts DEF Commanding
<1>5. CASE WriteByte
  <2>1. ib = "none" /\ pos' = pos /\ UNCHANGED <<arg, reporting, refused>>
    BY <1>5, WriteByteFacts
  <2>2. \/ at' = "byte" /\ ib' = "D4" /\ pos \in {4, 5, 6, 10}
        \/ at' = "read" /\ ib' = Step /\ pos \in {4, 5, 6, 10}
    BY <1>2, <1>5, WriteByteFacts DEF WriteByte, Inv1, Aiming
  <2> QED BY <1>1, <1>2, <2>1, <2>2 DEF Commanding
<1>6. CASE ReadAnswer
  <2>1. at = "read" /\ pos \in {4, 5, 6, 10}
    BY <1>2, <1>6, ReadAnswerFacts
  <2>2. UNCHANGED <<ib, arg, reporting, refused>>
    BY <1>6, ReadAnswerFacts
  <2>3. \/ at' = "enter" /\ pos' = pos + 1
        \/ at' \in {"D4", "read"} /\ pos' = pos
    BY <1>1, <1>6, <2>1, ReadAnswerFacts, SucceedFacts DEF Fail
  <2> QED BY <1>1, <2>1, <2>2, <2>3 DEF Commanding
<1>7. CASE Handle
  BY <1>7, HandleFacts DEF Commanding
<1>8. CASE Inward
  <2>1. UNCHANGED <<ib, arg, reporting, refused>>
    BY <1>8 DEF Inward
  <2>2. \/ at' = "enter" /\ pos' = pos + 1 /\ pos \notin {4, 5, 6, 10} /\ pos < 14
        \/ at' = "enter" /\ pos' = pos
        \/ at' = "D4" /\ pos' = pos
        \/ at' = at /\ pos' = pos
    BY <1>2, <1>8, SucceedFacts DEF Inward, Fail
  <2> QED BY <1>1, <2>1, <2>2 DEF Commanding
<1>9. CASE UNCHANGED vars
  BY <1>9 DEF vars, proc, kbc, device, bounds, Commanding
<1> QED BY <1>3, <1>4, <1>5, <1>6, <1>7, <1>8, <1>9, NextCases

-----------------------------------------------------------------------------
(* The sample rate. *)

LEMMA RatingStep == Inv1 /\ Rating /\ [Next]_vars => Rating'
<1> SUFFICES ASSUME Inv1, Rating, [Next]_vars, refused' = 0, ~again' PROVE Rating'
  BY DEF Rating
<1>1. /\ pos \in 1..14 /\ refused \in Nat /\ Commands = {"F3", "40", "F4", "F5"}
      /\ arg \in BOOLEAN /\ again \in BOOLEAN
      /\ cnt \in 1..MAX_ATTEMPTS /\ MAX_ATTEMPTS \in Nat
      /\ at \in {"enter", "D4", "byte", "read"}
  BY ScriptLength, LimitsAssumption, AttemptsAssumption DEF Inv1, TypeOK, Commands
<1>2. /\ Step \in Commands <=> pos \in {4, 5, 6, 10}
      /\ pos = 4 => Step = "F3"
      /\ pos = 5 => Step = "40"
      /\ pos = 6 => Step = "F4"
      /\ pos = 10 => Step = "F5"
  BY <1>1, ScriptSteps
<1>3. CASE KbcTakes
  <2>1. CASE ib = "D4" /\ UNCHANGED <<answers, arg, rate, reporting, refused>>
    BY <1>1, <1>3, <2>1, KbcTakesFacts DEF Rating
  <2>2. CASE ib \in Commands /\ Execute(ib)
    <3>1. /\ arg' <=> (~arg /\ ib = "F3")
          /\ arg => rate' = ib
          /\ ~arg => rate' = rate
          /\ refused' = refused
      BY <1>1, <2>2 DEF Execute
    <3>2. ib' = "none" /\ at' = at /\ pos' = pos /\ cnt' = cnt /\ ~again
      BY <1>3, KbcTakesFacts
    <3> QED BY <1>1, <2>2, <3>1, <3>2 DEF Rating
  <2>3. CASE Refuse(ib)
    BY <1>1, <2>3 DEF Refuse
  <2> QED BY <1>3, <2>1, <2>2, <2>3, KbcTakesFacts
<1>4. CASE Answer \/ Noise
  BY <1>4, LoadFacts DEF Rating
<1>5. CASE WriteByte
  <2>1. ib = "none" /\ pos' = pos /\ cnt' = cnt /\ UNCHANGED <<arg, rate, refused>>
    BY <1>5, WriteByteFacts
  <2>2. \/ at = "D4" /\ at' = "byte" /\ ib' = "D4" /\ pos \in {4, 5, 6, 10} /\ ~again
        \/ /\ at = "byte" /\ at' = "read" /\ ib' = Step /\ pos \in {4, 5, 6, 10}
           /\ ~again /\ cnt = MAX_ATTEMPTS
    <3>1. pos \in {4, 5, 6, 10}
      BY <1>2, <1>5 DEF WriteByte, Inv1, Aiming
    <3>2. \/ at = "D4" /\ at' = "byte" /\ ib' = "D4" /\ again' = again
          \/ /\ at = "byte" /\ at' = "read" /\ ib' = Step
             /\ again' = (again \/ cnt < MAX_ATTEMPTS)
      BY <1>5, WriteByteFacts
    <3>3. ~(cnt < MAX_ATTEMPTS) => cnt = MAX_ATTEMPTS
      BY <1>1
    <3>4. CASE at = "D4" /\ at' = "byte" /\ ib' = "D4" /\ again' = again
      BY <3>1, <3>4
    <3>5. CASE /\ at = "byte" /\ at' = "read" /\ ib' = Step
               /\ again' = (again \/ cnt < MAX_ATTEMPTS)
      BY <3>1, <3>3, <3>5
    <3> QED BY <3>2, <3>4, <3>5
  <2> QED BY <1>1, <1>2, <2>1, <2>2 DEF Rating
<1>6. CASE ReadAnswer
  <2>1. at = "read" /\ pos \in {4, 5, 6, 10} /\ ~again
    BY <1>2, <1>6, ReadAnswerFacts
  <2>2. UNCHANGED <<ib, arg, rate, refused>>
    BY <1>6, ReadAnswerFacts
  <2>3. \/ at' = "enter" /\ pos' = pos + 1
        \/ at' = "D4" /\ pos' = pos /\ cnt' < MAX_ATTEMPTS
        \/ at' = "read" /\ pos' = pos
    BY <1>1, <1>6, <2>1, ReadAnswerFacts, SucceedFacts DEF Fail
  <2> QED BY <1>1, <2>1, <2>2, <2>3 DEF Rating
<1>7. CASE Handle
  BY <1>7, HandleFacts DEF Rating
<1>8. CASE Inward
  <2>1. UNCHANGED <<ib, arg, rate, refused>> /\ ~again
    BY <1>8 DEF Inward
  <2>2. \/ at' = "enter" /\ pos' = pos + 1 /\ pos \notin {4, 5, 6, 10} /\ pos < 14
        \/ pos = 14 /\ pos' = pos /\ at' = "enter"
        \/ at = "enter" /\ at' = "D4" /\ pos' = pos /\ cnt' = cnt
        \/ at' = at /\ pos' = pos /\ cnt' = cnt
    BY <1>2, <1>8, SucceedFacts DEF Inward, Fail
  <2> QED BY <1>1, <2>1, <2>2 DEF Rating
<1>9. CASE UNCHANGED vars
  BY <1>9 DEF vars, proc, kbc, device, bounds, hist, Rating
<1> QED BY <1>3, <1>4, <1>5, <1>6, <1>7, <1>8, <1>9, NextCases

-----------------------------------------------------------------------------
(* Policies and graphics mode. *)

LEMMA HoldingStep == Inv1 /\ Holding /\ [Next]_vars => Holding'
<1> SUFFICES ASSUME Inv1, Holding, [Next]_vars PROVE Holding'
  OBVIOUS
<1>1. /\ pos \in 1..14 /\ graphics \in BOOLEAN /\ subs \subseteq {"kbd", "timer", "mouse"}
      /\ "none" # "ok" /\ "failed" # "ok"
  BY ScriptLength DEF Inv1, TypeOK
<1>2. CASE UNCHANGED <<pos, res, subs, graphics>>
  BY <1>2 DEF Holding
<1>3. CASE Fail /\ Running /\ UNCHANGED <<subs, graphics>>
  BY <1>3 DEF Holding, Fail, Running
<1>4. CASE Succeed /\ Running /\ UNCHANGED <<subs, graphics>> /\ pos \in {4, 5, 6, 9, 10}
  BY <1>1, <1>4, SucceedFacts DEF Holding, Running
<1>5. CASE SystemCall
  <2>1. Running /\ Succeed
    BY <1>5 DEF SystemCall
  <2>2. \/ pos < 14 /\ pos' = pos + 1 /\ res' = res /\ res # "ok"
        \/ pos = 14 /\ pos' = pos /\ res' = "ok" /\ res # "ok"
    BY <1>1, <2>1, SucceedFacts DEF Running
  <2>3. /\ pos \notin {4, 5, 6, 9, 10}
        /\ pos = 1 => subs' = subs \cup {"kbd"}
        /\ pos = 2 => subs' = subs \cup {"timer"}
        /\ pos = 3 => subs' = subs \cup {"mouse"}
        /\ pos = 11 => subs' = subs \ {"kbd"}
        /\ pos = 12 => subs' = subs \ {"timer"}
        /\ pos = 13 => subs' = subs \ {"mouse"}
        /\ pos \in {7, 8, 14} => subs' = subs
    BY <1>1, <1>5, ScriptSteps DEF SystemCall
  <2>4. /\ pos = 7 => graphics'
        /\ pos = 14 => ~graphics'
        /\ pos \notin {7, 14} => (graphics' <=> graphics)
    BY <1>1, <1>5, ScriptSteps DEF SystemCall
  <2>5. subs' \subseteq {"kbd", "timer", "mouse"}
    BY <1>1, <1>5 DEF SystemCall
  <2>6. /\ "kbd" \in subs <=> pos \in 2..11
        /\ "timer" \in subs <=> pos \in 3..12
        /\ "mouse" \in subs <=> pos \in 4..13
        /\ graphics <=> pos >= 8
    BY <2>2 DEF Holding
  <2>7. CASE pos = 14
    <3>1. subs' = {}
      <4>1. "kbd" \notin subs /\ "timer" \notin subs /\ "mouse" \notin subs
        BY <2>6, <2>7
      <4>2. subs' = subs
        BY <2>3, <2>7
      <4> QED BY <1>1, <4>1, <4>2
    <3> QED BY <2>2, <2>4, <2>7, <3>1 DEF Holding
  <2>8. CASE pos < 14
    <3>1. "kbd" \in subs' <=> pos' \in 2..11
      BY <1>1, <2>2, <2>3, <2>6, <2>8
    <3>2. "timer" \in subs' <=> pos' \in 3..12
      BY <1>1, <2>2, <2>3, <2>6, <2>8
    <3>3. "mouse" \in subs' <=> pos' \in 4..13
      BY <1>1, <2>2, <2>3, <2>6, <2>8
    <3>4. graphics' <=> pos' >= 8
      BY <1>1, <2>2, <2>3, <2>4, <2>6, <2>8
    <3> QED BY <2>2, <2>8, <3>1, <3>2, <3>3, <3>4 DEF Holding
  <2> QED BY <1>1, <2>7, <2>8
<1>6. CASE KbcTakes \/ Answer \/ Noise \/ WriteByte \/ Handle \/ UNCHANGED vars
  BY <1>2, <1>6 DEF KbcTakes, Answer, Noise, Load, WriteByte, Handle, vars, proc
<1>7. CASE EnterCommand \/ WriteBusy \/ CallFails
  BY <1>2, <1>3, <1>7 DEF EnterCommand, WriteBusy, CallFails
<1>8. CASE ReadAnswer
  <2>1. pos \in {4, 5, 6, 10} /\ Running /\ UNCHANGED <<subs, graphics>>
    BY <1>1, <1>8, ReadAnswerFacts, ScriptSteps
  <2> QED BY <1>2, <1>3, <1>4, <1>8, <2>1, ReadAnswerFacts
<1>9. CASE LeaveLoop
  BY <1>1, <1>4, <1>9, ScriptSteps DEF LeaveLoop
<1> QED BY <1>5, <1>6, <1>7, <1>8, <1>9 DEF Next, Hardware, Work

-----------------------------------------------------------------------------
(* Interrupt bits until the event loop. *)

LEMMA StartingStep == Inv1 /\ Holding /\ Starting /\ [Next]_vars => Starting'
<1> SUFFICES ASSUME Inv1, Holding, Starting, [Next]_vars PROVE Starting'
  OBVIOUS
<1>1. /\ pos \in 1..14 /\ misreads \in Nat /\ answers \in Seq({"ACK", "NACK"})
      /\ Nothing.src = "none" /\ "none" \notin Commands /\ "D4" \notin Commands
  BY ScriptLength DEF Inv1, TypeOK, Nothing, Commands
<1>2. Step \in Commands <=> pos \in {4, 5, 6, 10}
  BY <1>1, ScriptSteps
<1>3. CASE KbcTakes
  <2>1. UNCHANGED <<pos, ob, pending, misreads, fresh>> /\ ib' = "none"
    BY <1>3, KbcTakesFacts
  <2>2. answers' # << >> => answers # << >> \/ ib \in Commands
    BY <1>3, KbcTakesFacts
  <2> QED BY <1>1, <2>1, <2>2 DEF Starting
<1>4. CASE Answer \/ Noise
  <2>1. ob.src = "none" /\ UNCHANGED <<pos, ib, misreads, fresh>>
    BY <1>1, <1>4, LoadFacts
  <2>2. (fresh /\ pos >= 4) => "mouse" \in subs
    BY <1>1 DEF Starting, Holding
  <2>3. CASE /\ answers # << >> /\ answers' = Tail(answers) /\ ob'.src = "answer"
             /\ pending' = pending \cup (subs \cap {"mouse"})
    <3>1. pos >= 4
      BY <2>3 DEF Starting
    <3>2. fresh => "mouse" \in pending'
      BY <2>2, <2>3, <3>1
    <3>3. "kbd" \in pending' => "kbd" \in pending
      BY <2>3
    <3> QED BY <1>1, <2>1, <2>3, <3>1, <3>2, <3>3 DEF Starting
  <2>4. CASE /\ answers' = answers /\ ob'.src = "kbd"
             /\ pending' = pending \cup (subs \cap {"kbd"})
    <3>1. "mouse" \in pending => "mouse" \in pending'
      BY <2>4
    <3> QED BY <2>1, <2>4, <3>1 DEF Starting
  <2>5. CASE /\ answers' = answers /\ ob'.src = "data"
             /\ pending' = pending \cup (subs \cap {"mouse"})
    <3>1. /\ "mouse" \in pending => "mouse" \in pending'
          /\ "kbd" \in pending' => "kbd" \in pending
      BY <2>5
    <3> QED BY <2>1, <2>5, <3>1 DEF Starting
  <2> QED BY <1>4, <2>3, <2>4, <2>5, LoadFacts
<1>5. CASE WriteByte
  <2>1. UNCHANGED <<pos, ob, pending, answers, misreads, fresh>>
    BY <1>5, WriteByteFacts
  <2>2. ib' \in Commands => pos >= 4
    BY <1>1, <1>2, <1>5, WriteByteFacts
  <2> QED BY <2>1, <2>2 DEF Starting
<1>6. CASE ReadAnswer
  <2>1. /\ pos \in {4, 5, 6, 10} /\ ob'.src = "none"
        /\ misreads' = IF ob.src = "answer" THEN misreads ELSE misreads + 1
        /\ UNCHANGED <<ib, pending, answers, fresh>>
    BY <1>1, <1>2, <1>6, ReadAnswerFacts
  <2>2. pos' = pos \/ pos' = pos + 1
    BY <1>1, <1>6, ReadAnswerFacts, SucceedFacts DEF Fail
  <2>3. misreads' = 0 => misreads = 0 /\ ob.src = "answer"
    BY <1>1, <2>1
  <2> QED BY <2>1, <2>2, <2>3 DEF Starting
<1>7. CASE Handle
  BY <1>1, <1>7, HandleFacts DEF Starting
<1>8. CASE Inward
  <2>1. UNCHANGED <<ib, ob, pending, answers, misreads>> /\ (fresh' => fresh)
    BY <1>8 DEF Inward
  <2>2. \/ pos' = pos
        \/ pos' = pos + 1 /\ pos \notin {4, 5, 6, 10} /\ (pos = 9 => ~fresh')
    BY <1>1, <1>2, <1>8, SucceedFacts, ScriptSteps DEF Inward, Fail
  <2> QED BY <1>1, <2>1, <2>2 DEF Starting
<1>9. CASE UNCHANGED vars
  BY <1>9 DEF vars, proc, kbc, device, hist, Starting
<1> QED BY <1>3, <1>4, <1>5, <1>6, <1>7, <1>8, <1>9, NextCases

-----------------------------------------------------------------------------
(* The inductive invariant, and what follows from it. *)

Inv == Inv1 /\ Counting /\ Commanding /\ Rating /\ Holding /\ Starting

LEMMA InitInv == Init => Inv
<1> SUFFICES ASSUME Init PROVE Inv
  OBVIOUS
<1>1. /\ pos = 1 /\ res = "none" /\ subs = {} /\ ~graphics /\ at = "enter"
      /\ ib = "none" /\ ob = Nothing /\ pending = {} /\ answers = << >> /\ ~arg /\ misreads = 0
  BY DEF Init
<1>2. Nothing.src = "none" /\ "none" \notin Commands
  BY DEF Nothing, Commands
<1>3. Counting
  BY <1>1, <1>2 DEF Counting, UnreadBound, Unread
<1>4. Commanding /\ Rating
  BY <1>1 DEF Commanding, Rating
<1>5. Holding
  BY <1>1 DEF Holding
<1>6. Starting
  BY <1>1, <1>2 DEF Starting
<1> QED BY <1>3, <1>4, <1>5, <1>6, Init1 DEF Inv

LEMMA InvHolds == Spec => []Inv
<1>1. Inv /\ [Next]_vars => Counting' /\ Commanding' /\ Rating' /\ Holding' /\ Starting'
  BY CountingStep, CommandingStep, RatingStep, HoldingStep, StartingStep DEF Inv
<1>2. Inv /\ [Next]_vars /\ Inv1' => Inv'
  BY <1>1 DEF Inv
<1> QED BY <1>2, InitInv, Inv1Holds, PTL DEF Spec

\* Every variable of the start and the end of the program keeps its type.
THEOREM LifecycleTypeCorrect == Spec => []TypeOK
<1>1. Inv1 => TypeOK
  BY DEF Inv1
<1> QED BY <1>1, Inv1Holds, PTL

\* However slow the KBC is, kbc_write never lets a command for the mouse go to
\* the keyboard.
THEOREM CommandsReachTheMouse == Spec => []CommandsAimed
<1>1. Inv1 => CommandsAimed
  BY DEF Inv1, Aiming, CommandsAimed
<1> QED BY <1>1, Inv1Holds, PTL

\* mouse_write_command leaves no more answers behind than it has misread.
THEOREM AnswersAreRead == Spec => []UnreadBound
<1>1. Inv => UnreadBound
  BY DEF Inv, Counting
<1> QED BY <1>1, InvHolds, PTL

LEMMA NothingUnread == Len(answers) \in Nat /\ Unread <= 0 => Unread = 0
<1> SUFFICES ASSUME Len(answers) \in Nat, Unread <= 0 PROVE Unread = 0
  OBVIOUS
<1>1. Unread = Len(answers) + AnswerIn + CommandIn
  BY DEF Unread, AnswerIn, CommandIn
<1>2. AnswerIn \in {0, 1} /\ CommandIn \in {0, 1}
  BY DEF AnswerIn, CommandIn
<1>3. Unread \in Nat
  BY <1>1, <1>2
<1> QED BY <1>3

\* The state in which proj_init hands over to the event loop.
THEOREM LoopStartsClean == Spec => []StartOfLoop
<1>1. Inv => StartOfLoop
  <2> SUFFICES ASSUME Inv, Step = "loop", fresh, misreads = 0
               PROVE  Unread = 0 /\ "mouse" \in pending /\ ("kbd" \in pending => ob.src = "kbd")
    BY DEF StartOfLoop
  <2>1. pos = 9
    BY ScriptLength, ScriptSteps DEF Inv, Inv1, TypeOK
  <2>2. at = "enter"
    BY DEF Inv, Inv1, Aiming, Commands
  <2>3. Unread <= 0
    BY <2>2 DEF Inv, Counting, UnreadBound
  <2>4. Len(answers) \in Nat
    BY DEF Inv, Inv1, TypeOK
  <2>5. Unread = 0
    BY <2>3, <2>4, NothingUnread
  <2> QED BY <2>1, <2>5 DEF Inv, Starting
<1> QED BY <1>1, InvHolds, PTL

\* mouse_enable_data_reporting has worked once the event loop runs, whatever
\* was taken for its acknowledgement.
THEOREM MouseReports == Spec => []MouseIsOn
<1>1. Inv => MouseIsOn
  <2> SUFFICES ASSUME Inv, Step = "loop" PROVE reporting \/ UnderWay("F4") \/ refused > 0
    BY DEF MouseIsOn
  <2>1. pos = 9 /\ refused \in Nat
    BY ScriptLength, ScriptSteps, LimitsAssumption DEF Inv, Inv1, TypeOK
  <2> QED BY <2>1 DEF Inv, Commanding, Inv1, Aiming, UnderWay, Commands
<1> QED BY <1>1, InvHolds, PTL

\* The sample rate proj_init sets is the one the mouse has, unless a command
\* was repeated or refused.
THEOREM SampleRateIsSet == Spec => []RateIsSet
<1>1. Inv => RateIsSet
  <2> SUFFICES ASSUME Inv, Step = "loop" PROVE rate = "40" \/ again \/ refused > 0
    BY DEF RateIsSet
  <2>1. pos = 9 /\ refused \in Nat
    BY ScriptLength, ScriptSteps, LimitsAssumption DEF Inv, Inv1, TypeOK
  <2> QED BY <2>1 DEF Inv, Rating
<1> QED BY <1>1, InvHolds, PTL

\* proj_main_loop returns 0 only after everything was given back.
THEOREM ExitIsClean == Spec => []CleanExit
<1>1. Inv => CleanExit
  <2> SUFFICES ASSUME Inv, res = "ok"
               PROVE  subs = {} /\ ~graphics /\ (~reporting \/ UnderWay("F5") \/ refused > 0)
    BY DEF CleanExit
  <2>1. pos = 14 /\ subs = {} /\ ~graphics
    BY DEF Inv, Holding
  <2>2. refused \in Nat
    BY LimitsAssumption DEF Inv, Inv1, TypeOK
  <2>3. ~reporting \/ UnderWay("F5") \/ refused > 0
    BY <2>1, <2>2 DEF Inv, Commanding, Inv1, Aiming, UnderWay, Commands
  <2> QED BY <2>1, <2>3
<1> QED BY <1>1, InvHolds, PTL
=============================================================================
