------------------------------- MODULE ClHost -------------------------------
(***************************************************************************)
(* The host side of the OpenCL programs: how each one finds a platform,    *)
(* creates its objects, hands commands to the device's queue, waits, and   *)
(* lets go of everything.  A program is the script of the API calls it     *)
(* makes, in the order of its source; the device runs queued commands on   *)
(* its own, out of order where the program asks for such a queue.  Any     *)
(* call may fail: the C programs abort, the C++ ones throw.  What the      *)
(* kernels compute is the subject of ClHist and ClGemm.                    *)
(***************************************************************************)
EXTENDS Integers, SequencesExt

CONSTANTS Junk,         \* what an uninitialized counter may hold, 0 included
          MaxPlatforms, \* bound on the platforms of a machine
          MaxDevices    \* and on the GPUs, and on the other devices, of each

VARIABLES prog,        \* the program
          platforms,   \* what the machine offers, in the driver's order
          pc,          \* index of the next call in the script
          sel,         \* index of the selected platform, 0 while none is
          live,        \* objects and blocks held, oldest first
          queue,       \* commands the device has not run, oldest first
          waits,       \* how many of these must be gone before the host goes on
          data,        \* what each host array and each buffer holds
          stage,       \* of cl_platform: "info", "devices", "list"
          todo,        \* devices it has yet to describe
          shown,       \* devices cl_platform has described, <<platform, device>>, 0 for none
          status       \* "run", "ok", "failed" (returned -1), "abort"

vars == <<prog, platforms, pc, sel, live, queue, waits, data, stage, todo, shown, status>>

-----------------------------------------------------------------------------
(* The calls.                                                              *)

New(o, on) == [op |-> "new", obj |-> o, on |-> on]
Del(o) == [op |-> "del", obj |-> o, on |-> {o}]
Ask(on) == [op |-> "ask", obj |-> "none", on |-> on]
Select(rule) == [op |-> "select", obj |-> rule, on |-> {}]
List(rule) == [op |-> "list", obj |-> rule, on |-> {"ids"}]
Copy(from, to) == [op |-> "copy", obj |-> <<from, to>>, on |-> {"que"}]
Kernel(ins, out) == [op |-> "kernel", obj |-> <<ins, out>>, on |-> {"que", "program"}]
Wait == [op |-> "wait", obj |-> "none", on |-> {"que"}]
Check(x, meant) == [op |-> "check", obj |-> <<x, meant>>, on |-> {}]

\* What arrays hold: the inputs, or the result of a kernel on its arguments.
A == <<"A">>
B == <<"B">>
Result(args) == <<"kernel", args>>

-----------------------------------------------------------------------------
(* The programs.  Lower case names are host memory, D... are buffers.      *)

\* Slip: the buffer is not released.
JustbufKeeps ==
  <<New("DA", {"ctx"}), Copy("a", "DA"), Copy("DA", "b"), Check("b", A)>>

\* process_buffers of cl_justbuf.c
justbuf_process ==
  <<New("DA", {"ctx"}), Copy("a", "DA"), Copy("DA", "b"), Check("b", A), Del("DA")>>

\* get_platforms of cl_justbuf.c and the choice of one
justbuf_select == <<Ask({}), New("ids", {}), Ask({}), Select("full"), Del("ids")>>

justbuf_c ==
  justbuf_select
  \o <<New("ctx", {}), Ask({"ctx"}), New("devs", {}), Ask({"ctx"}), New("que", {"ctx"})>>
  \o justbuf_process
  \o <<Ask({"que"}), Wait, Del("que"), Del("ctx"), Del("devs")>>

old_justbuf_process ==
  <<New("DA", {"ctx"}), Copy("a", "DA"), Copy("DA", "b"), Check("b", A), Del("DA")>>

\* The archived one leaves the choice of a platform to the driver.
old_justbuf_c ==
  <<Select("default"), New("ctx", {}), Ask({"ctx"}), New("devs", {}), Ask({"ctx"}),
    New("que", {"ctx"})>>
  \o old_justbuf_process
  \o <<Ask({"que"}), Wait, Del("que"), Del("ctx"), Del("devs")>>

justbuf_cc ==
  <<Select("gpu"), Ask({}), New("ctx", {}), New("que", {"ctx"}), New("DA", {"ctx"}),
    Copy("a", "DA"), Copy("DA", "b"), Check("b", A),
    Del("DA"), Del("que"), Del("ctx")>>

\* ocl_ctx_t: the context finds itself a platform, built without USESELECTOR.
ocl_ctx_t == <<Select("type"), New("ctx", {}), New("que", {"ctx"}), Ask({"ctx"})>>

ocl_ctx_process ==
  <<New("DA", {"ctx"}), Copy("a", "DA"), Copy("DA", "b"), Check("b", A), Del("DA")>>

old_justbuf_cc == ocl_ctx_t \o ocl_ctx_process \o <<Del("que"), Del("ctx")>>

\* cl_vectoradd.cc: the constructor of OclApp, vadd, and main.
vectoradd_app == <<Select("gpu"), New("ctx", {}), New("que", {"ctx"}), Ask({})>>

vadd ==
  <<New("DA", {"ctx"}), New("DB", {"ctx"}), New("DC", {"ctx"}),
    Copy("a", "DA"), Copy("b", "DB"), New("program", {"ctx"}),
    Kernel(<<"DA", "DB">>, "DC"), Wait, Copy("DC", "c"),
    Del("program"), Del("DC"), Del("DB"), Del("DA")>>

vectoradd == vectoradd_app \o vadd \o <<Check("c", Result(<<A, B>>)), Del("que"), Del("ctx")>>

\* The archived one builds its program in the default context, not in its own.
old_vadd ==
  <<New("DA", {"ctx"}), New("DB", {"ctx"}), New("DC", {"ctx"}),
    Copy("a", "DA"), Copy("b", "DB"), New("foreign", {}),
    Kernel(<<"DA", "DB">>, "DC"), Copy("DC", "c"),
    Del("foreign"), Del("DC"), Del("DB"), Del("DA")>>

old_vectoradd ==
  <<Select("vendor"), New("ctx", {}), New("que", {"ctx"})>>
  \o old_vadd \o <<Check("c", Result(<<A, B>>)), Del("que"), Del("ctx")>>

\* An option that is not known throws; one that cannot be parsed keeps its default.
readCfg == <<Ask({})>>

readFile == <<Ask({})>>

gemm_app == <<Select("gemm"), New("ctx", {}), New("que", {"ctx"})>> \o readFile \o <<Ask({})>>

mmult ==
  <<New("DA", {"ctx"}), New("DB", {"ctx"}), New("DC", {"ctx"}),
    Copy("a", "DA"), Copy("b", "DB"), New("program", {"ctx"}),
    Kernel(<<"DA", "DB">>, "DC"), Wait, Copy("DC", "c"),
    Del("program"), Del("DC"), Del("DB"), Del("DA")>>

\* main of cl_gemm.cc: the profile of the event is read after mmult returned.
gemm == readCfg \o gemm_app \o mmult
        \o <<Ask({"que"}), Check("c", Result(<<A, B>>)), Del("que"), Del("ctx")>>

hist_readCfg == <<Ask({})>>

hist_readFile == <<Ask({})>>

hist_app == <<Select("hist"), New("ctx", {}), New("que", {"ctx"})>> \o hist_readFile \o <<Ask({})>>

OclApp_hist ==
  <<New("DA", {"ctx"}), New("DC", {"ctx"}), Copy("a", "DA"), New("program", {"ctx"}),
    Kernel(<<"DA">>, "DC"), Wait, Copy("DC", "c"),
    Del("program"), Del("DC"), Del("DA")>>

hist == hist_readCfg \o hist_app \o OclApp_hist
        \o <<Ask({"que"}), Check("c", Result(<<A>>)), Del("que"), Del("ctx")>>

get_platforms == <<Ask({}), New("ids", {}), Ask({})>>

\* cl_platform.c describes every device of every platform.
platform_c == get_platforms \o <<List("forgiving"), Del("ids")>>

old_get_platforms == <<Ask({}), New("ids", {}), Ask({})>>

\* The archived one treats a platform without devices as an error.
old_platform_c == old_get_platforms \o <<List("strict"), Del("ids")>>

\* The script of the program that runs.
Script == CASE prog = "justbuf_c" -> justbuf_c
            [] prog = "old_justbuf_c" -> old_justbuf_c
            [] prog = "justbuf_cc" -> justbuf_cc
            [] prog = "old_justbuf_cc" -> old_justbuf_cc
            [] prog = "vectoradd" -> vectoradd
            [] prog = "old_vectoradd" -> old_vectoradd
            [] prog = "gemm" -> gemm
            [] prog = "hist" -> hist
            [] prog = "platform_c" -> platform_c
            [] prog = "old_platform_c" -> old_platform_c

InCxx == {"justbuf_cc", "old_justbuf_cc", "vectoradd", "old_vectoradd", "gemm", "hist"}
InC == {"justbuf_c", "old_justbuf_c", "platform_c", "old_platform_c"}

OutOfOrder == {"gemm", "hist"}    \* Config::QProps

\* These mains catch cl::Error only, so a runtime_error ends in terminate.
CatchOnlyClError == {"justbuf_cc", "old_justbuf_cc"}

-----------------------------------------------------------------------------
(* The machine.                                                            *)

Platforms == [full : BOOLEAN, vendor : BOOLEAN, gpus : 0..MaxDevices, others : 0..MaxDevices]
DevicesOf(p) == p.gpus + p.others

Arrays == {"a", "b", "c", "DA", "DB", "DC"}

Init == /\ prog \in InC \cup InCxx
        /\ platforms \in UNION {[1..n -> Platforms] : n \in 1..MaxPlatforms}
        /\ pc = 1 /\ sel = 0
        /\ live = << >> /\ queue = << >> /\ waits = 0
        /\ data = [x \in Arrays |-> IF x = "a" THEN A ELSE IF x = "b" THEN B ELSE << >>]
        /\ stage = "info" /\ todo = << >> /\ shown = << >>
        /\ status = "run"

Held == ToSet(live)
Step == Script[pc]
Ready == status = "run" /\ pc <= Len(Script) /\ waits = 0

\* cl_process_error aborts; an exception unwinds, newest object first, and
\* destroying the queue finishes what it still holds.
Stop(caught) ==
  /\ IF prog \in InC \/ ~caught THEN status' = "abort" /\ UNCHANGED <<live, queue>>
     ELSE status' = "failed" /\ live' = << >> /\ queue' = << >>
  /\ UNCHANGED <<prog, platforms, pc, sel, waits, data, stage, todo, shown>>

\* Any call but a release may fail; so may malloc.
CallFails ==
  /\ Ready
  /\ Step.op \in {"new", "ask", "copy", "kernel", "wait", "list"}
  /\ Stop(TRUE)

Create ==
  /\ Ready /\ Step.op = "new" /\ Step.on \subseteq Held
  /\ live' = Append(live, Step.obj)
  /\ pc' = pc + 1
  /\ UNCHANGED <<prog, platforms, sel, queue, waits, data, stage, todo, shown, status>>

Release ==
  /\ Ready /\ Step.op = "del"
  /\ live' = RemoveFirst(live, Step.obj)
  /\ pc' = pc + 1
  /\ UNCHANGED <<prog, platforms, sel, queue, waits, data, stage, todo, shown, status>>

Query ==
  /\ Ready /\ Step.op = "ask" /\ Step.on \subseteq Held
  /\ pc' = pc + 1
  /\ UNCHANGED <<prog, platforms, sel, live, queue, waits, data, stage, todo, shown, status>>

-----------------------------------------------------------------------------
(* Platforms and devices.                                                  *)

\* Slip: the first platform is good enough.
SelectFirst == 1

\* select_platform of the C++ programs: the first platform with GPUs.
select_platform == SelectInSeq(platforms, LAMBDA p : p.gpus > 0)
gemm_select_platform == SelectInSeq(platforms, LAMBDA p : p.gpus > 0)
hist_select_platform == SelectInSeq(platforms, LAMBDA p : p.gpus > 0)

\* select_platform of cl_justbuf.c asks for the full profile as well.
select_full_platform == SelectInSeq(platforms, LAMBDA p : p.full /\ p.gpus > 0)

\* cl::Context of a device type looks for such a platform by itself.
context_of_type == SelectInSeq(platforms, LAMBDA p : p.gpus > 0)

\* No choice made: the driver takes its first platform, GPUs or none.
default_platform == IF platforms[1].gpus > 0 THEN 1 ELSE 0

\* ocl_selector_t: the first platform of the vendor becomes the default one, and
\* asking a default platform without GPUs for its GPUs throws.
ocl_selector ==
  LET first == SelectInSeq(platforms, LAMBDA p : p.vendor)
      default == IF first = 0 THEN 1 ELSE first
  IN  IF platforms[default].gpus > 0 THEN default ELSE 0

Pick == CASE Step.obj = "full" -> select_full_platform
          [] Step.obj = "gpu" -> select_platform
          [] Step.obj = "gemm" -> gemm_select_platform
          [] Step.obj = "hist" -> hist_select_platform
          [] Step.obj = "vendor" -> ocl_selector
          [] Step.obj = "type" -> context_of_type
          [] Step.obj = "default" -> default_platform

SelectPlatform ==
  /\ Ready /\ Step.op = "select"
  /\ IF Pick = 0
     THEN Stop(prog \notin CatchOnlyClError \/ Step.obj = "type")
     ELSE /\ sel' = Pick
          /\ pc' = pc + 1
          /\ UNCHANGED <<prog, platforms, live, queue, waits, data, stage, todo, shown, status>>

\* print_platform_info: the next platform, by its number.
print_platform_info ==
  /\ Ready /\ Step.op = "list" /\ stage = "info" /\ sel < Len(platforms)
  /\ sel' = sel + 1 /\ stage' = "devices"
  /\ UNCHANGED <<prog, platforms, pc, live, queue, waits, data, todo, shown, status>>

\* A platform without devices answers CL_DEVICE_NOT_FOUND and leaves numdevices
\* alone, which was never set: the forgiving error handler returns, so a number
\* other than 0 sends the loop through an array nobody filled.
numdevices ==
  LET n == DevicesOf(platforms[sel])
  IN  IF n > 0 THEN {[d \in 1..n |-> <<sel, d>>]}
      ELSE {[d \in 1..j |-> <<sel, 0>>] : j \in Junk}

enumerate_devices ==
  /\ Ready /\ Step.op = "list" /\ stage = "devices"
  /\ IF Step.obj = "strict" /\ DevicesOf(platforms[sel]) = 0 THEN Stop(TRUE)
     ELSE \E ds \in numdevices :
            /\ todo' = ds
            /\ live' = IF ds = << >> THEN live ELSE Append(live, "devices")
            /\ stage' = IF ds = << >> THEN "info" ELSE "list"
            /\ UNCHANGED <<prog, platforms, pc, sel, queue, waits, data, shown, status>>

\* The first question about a device that is none ends the program.
print_device_info ==
  /\ Ready /\ Step.op = "list" /\ todo # << >>
  /\ shown' = Append(shown, Head(todo))
  /\ todo' = Tail(todo)
  /\ status' = IF Head(todo)[2] = 0 THEN "abort" ELSE "run"
  /\ UNCHANGED <<prog, platforms, pc, sel, live, queue, waits, data, stage>>

\* The array of devices is freed, and the next platform is due.
DevicesListed ==
  /\ Ready /\ Step.op = "list" /\ stage = "list" /\ todo = << >>
  /\ live' = RemoveFirst(live, "devices")
  /\ stage' = "info"
  /\ UNCHANGED <<prog, platforms, pc, sel, queue, waits, data, todo, shown, status>>

Enumerated ==
  /\ Ready /\ Step.op = "list" /\ stage = "info" /\ sel = Len(platforms)
  /\ pc' = pc + 1
  /\ UNCHANGED <<prog, platforms, sel, live, queue, waits, data, stage, todo, shown, status>>

-----------------------------------------------------------------------------
(* Commands.                                                               *)

Enqueue(block) ==
  /\ queue' = Append(queue, Step)
  /\ waits' = IF block THEN Len(queue') ELSE 0
  /\ pc' = pc + 1
  /\ UNCHANGED <<prog, platforms, sel, live, data, stage, todo, shown, status>>

\* cl::copy and the enqueue calls with CL_TRUE return when the copy is done.
CopyBlocking == Ready /\ Step.op = "copy" /\ Step.on \subseteq Held /\ Enqueue(TRUE)

\* The buffers of a kernel must be of the context its program was built in: the
\* call refuses ("CL_INVALID_MEM_OBJECT") any other program.
Launch ==
  /\ Ready /\ Step.op = "kernel"
  /\ IF Step.on \subseteq Held THEN Enqueue(FALSE) ELSE Stop(TRUE)

\* Slip: waits for one command more than there is.
AwaitOneMore ==
  /\ Ready /\ Step.op = "wait" /\ Step.on \subseteq Held
  /\ waits' = Len(queue) + 1
  /\ pc' = pc + 1
  /\ UNCHANGED <<prog, platforms, sel, live, queue, data, stage, todo, shown, status>>

\* clFinish and Event::wait: everything queued so far.
AwaitQueue ==
  /\ Ready /\ Step.op = "wait" /\ Step.on \subseteq Held
  /\ waits' = Len(queue)
  /\ pc' = pc + 1
  /\ UNCHANGED <<prog, platforms, sel, live, queue, data, stage, todo, shown, status>>

Touches(c) == IF c.op = "copy" THEN ToSet(c.obj) ELSE ToSet(c.obj[1]) \cup {c.obj[2]}

Effect(c) ==
  IF c.op = "copy" THEN [data EXCEPT ![c.obj[2]] = data[c.obj[1]]]
  ELSE [data EXCEPT ![c.obj[2]] =
          Result([i \in DOMAIN c.obj[1] |-> data[c.obj[1][i]]])]

\* The device runs its oldest command, or any one of an out-of-order queue.  A
\* blocking copy waits for itself alone, the last command queued.
DeviceRuns(i) ==
  /\ status = "run" /\ i \in DOMAIN queue
  /\ i = 1 \/ prog \in OutOfOrder
  /\ data' = Effect(queue[i])
  /\ queue' = RemoveAt(queue, i)
  /\ waits' = IF waits = 0 THEN 0
              ELSE IF i = Len(queue) /\ queue[i].op = "copy" THEN 0
              ELSE waits - 1
  /\ UNCHANGED <<prog, platforms, pc, sel, live, stage, todo, shown, status>>

-----------------------------------------------------------------------------
(* The end.                                                                *)

\* The results are compared with the host's own; a difference returns -1 or aborts.
Compare ==
  /\ Ready /\ Step.op = "check"
  /\ IF data[Step.obj[1]] = Step.obj[2]
     THEN /\ pc' = pc + 1
          /\ UNCHANGED <<prog, platforms, sel, live, queue, waits, data, stage, todo, shown, status>>
     ELSE Stop(prog \notin {"old_justbuf_cc", "old_vectoradd"})

Exit ==
  /\ status = "run" /\ pc > Len(Script) /\ waits = 0
  /\ status' = "ok"
  /\ UNCHANGED <<prog, platforms, pc, sel, live, queue, waits, data, stage, todo, shown>>

Host == \/ CallFails \/ Create \/ Release \/ Query
        \/ SelectPlatform
        \/ print_platform_info \/ enumerate_devices \/ print_device_info
        \/ DevicesListed \/ Enumerated
        \/ CopyBlocking \/ Launch \/ AwaitQueue \/ Compare \/ Exit

Next == Host \/ \E i \in 1..3 : DeviceRuns(i)

\* The host runs on and the device serves its queue.
Spec == Init /\ [][Next]_vars /\ WF_vars(Host) /\ WF_vars(\E i \in 1..3 : DeviceRuns(i))

-----------------------------------------------------------------------------
(* Properties.                                                             *)

\* No program ever finds its results wrong, in whatever order the device ran the
\* commands: what is compared is what the inputs demand.
ResultsRight ==
  Ready /\ Step.op = "check" => data[Step.obj[1]] = Step.obj[2]

\* A queued command's buffers are still held, and a program that returns, with
\* success or not, has let go of everything it took.
NothingHeld ==
  /\ \A i \in DOMAIN queue : Touches(queue[i]) \subseteq Held \cup {"a", "b", "c"}
  /\ status \in {"ok", "failed"} => live = << >> /\ queue = << >>

\* cl_platform, when it ends well, has described every device, each once, and
\* the other programs have settled on a platform that has a GPU.
FoundDevices ==
  status = "ok" =>
    IF prog \in {"platform_c", "old_platform_c"}
    THEN /\ \A i \in DOMAIN platforms :
              \A d \in 1..DevicesOf(platforms[i]) :
                \E j \in DOMAIN shown : shown[j] = <<i, d>>
         /\ IsInjective(shown)
         /\ \A j \in DOMAIN shown : shown[j][2] # 0
    ELSE platforms[sel].gpus > 0

\* Every program comes to an end: no wait is for a command that never runs.
Ends == <>(status # "run")

\* cl_platform.c describes only devices that the platform reported.
OnlyRealDevices == \A j \in DOMAIN shown : shown[j][2] # 0
=============================================================================
