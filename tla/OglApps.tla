------------------------------- MODULE OglApps -------------------------------
(***************************************************************************)
(* The four OpenGL programs (ogl-simplest, ogl-extensions, ogl-frag-shader *)
(* and ogl-motion): the window and the context, the OpenGL objects and who *)
(* deletes them, the drawing loop, and the callbacks GLFW makes from       *)
(* inside it.  A program is the script of its calls.  GLFW reports an      *)
(* error through error_callback, which throws.  The user acts at any time; *)
(* the callbacks hear of it when the program polls.                        *)
(***************************************************************************)
EXTENDS Integers, FiniteSets, SequencesExt

CONSTANTS Points,       \* where the cursor may be, <<x, y>>
          Sizes,        \* what the user may make of the window, <<width, height>>
          MaxEvents     \* bound on what the user does

SZ == <<1, 1>>          \* <<SZX, SZY>>, both 600
StartRadius == 1        \* 3.0f, 150 times RadiusDelta
AngleLimit == 1         \* 89 degrees, over Sensitivity
NoPort == <<-1, -1>>    \* no context yet

VARIABLES prog, pc,
          status,       \* "run", "returned" (main is over), "exited"
          glfw,         \* how often glfwInit and glfwTerminate succeeded
          owned,        \* the unique_ptr Wnd holds the window
          objs,         \* OpenGL objects of the context, and the ones deleted
          lost,         \* deletions made without a context
          linked,       \* the program object linked
          TheRenderer,  \* the global pointer of ogl-motion is set
          phase,        \* in the loop: "test", "display", "swap", "poll"
          pending,      \* events the window system holds
          acts,         \* what the user has done so far
          cursor, fb,   \* the cursor and the framebuffer, as the system has them
          view,         \* viewport and Aspect
          closing,      \* glfwWindowShouldClose
          cam,          \* the camera and the mouse fields of Renderer
          modes         \* polygon mode, depth test and face culling of the context

life == <<glfw, owned, objs, lost, linked, TheRenderer>>
input == <<pending, acts, cursor, fb>>
scene == <<view, closing, cam, modes>>
vars == <<prog, pc, status, phase, life, input, scene>>

-----------------------------------------------------------------------------
(* The programs.                                                           *)

Call(f) == [op |-> f, obj |-> "none"]
New(o) == [op |-> "new", obj |-> o]
Del(o) == [op |-> "del", obj |-> o]

\* initialize_window, and the unique_ptr that takes its result.
initialize_window == <<Call("init"), Call("window"), Call("glad"), Call("own")>>

\* ogl-simplest needs no extensions: GLAD is not loaded.
simplest == <<Call("init"), Call("window"), Call("own"), Call("loop"), Call("terminate")>>

\* initialize_window of ogl-extensions and of ogl-frag-shader.
extensions_window == <<Call("init"), Call("window"), Call("glad"), Call("own")>>
frag_window == <<Call("init"), Call("window"), Call("glad"), Call("own")>>

\* Slip: the window goes before the objects do.
ExtensionsLate ==
  extensions_window
  \o <<New("VAO"), New("VBO"), Call("loop"), Call("terminate"), Del("VAO"), Del("VBO")>>

extensions ==
  extensions_window
  \o <<New("VAO"), New("VBO"), Call("loop"), Del("VAO"), Del("VBO"), Call("terminate")>>

\* installShader(readFile(...)) of one shader.
Installed(id) == <<Call("readFile"), New(id), Call("compile")>>

\* linkShaders of ogl-motion and of ogl-frag-shader.
linkShaders == <<New("ProgID")>> \o Installed("VertexID") \o Installed("FragmentID") \o <<Call("link")>>
frag_linkShaders == <<New("ProgID")>> \o Installed("VertexID") \o Installed("FragmentID") \o <<Call("link")>>

frag_shader ==
  frag_window
  \o <<New("VAO"), New("VBO")>> \o frag_linkShaders
  \o <<Call("loop"), Del("VAO"), Del("VBO"), Call("terminate")>>

\* The constructor of Renderer, and main around it.
Renderer == linkShaders \o <<Call("modes"), New("VAO"), New("VBO"), New("IBO"), Call("renderer")>>

motion == initialize_window \o Renderer \o <<Call("loop"), Call("terminate")>>

Script == [simplest |-> simplest, extensions |-> extensions,
           frag_shader |-> frag_shader, motion |-> motion]

-----------------------------------------------------------------------------
(* What the programs draw.  Coordinates are doubled.                       *)

\* The squares of the first three, in the order of their vertices.
SimplestVertices == <<<<-1, 1>>, <<1, 1>>, <<1, -1>>, <<-1, -1>>>>
ExtensionsVertices == <<<<-1, 1>>, <<1, 1>>, <<1, -1>>, <<-1, -1>>>>
FragVertices == <<<<1, 1>>, <<-1, 1>>, <<1, -1>>, <<-1, -1>>>>

Vertices ==
  <<<<-1, 1, 1>>, <<1, 1, 1>>, <<1, -1, 1>>, <<-1, -1, 1>>,
    <<-1, 1, -1>>, <<1, 1, -1>>, <<1, -1, -1>>, <<-1, -1, -1>>>>

\* Slip: the last quad wound the other way round.
IndicesFlipped == <<<<0, 3, 2, 1>>, <<4, 7, 3, 0>>, <<1, 2, 6, 5>>,
                    <<4, 0, 1, 5>>, <<3, 7, 6, 2>>, <<5, 4, 7, 6>>>>

Indices == <<<<0, 3, 2, 1>>, <<4, 7, 3, 0>>, <<1, 2, 6, 5>>,
             <<4, 0, 1, 5>>, <<3, 7, 6, 2>>, <<5, 6, 7, 4>>>>

Corner(q, i) == Vertices[Indices[q][i] + 1]

-----------------------------------------------------------------------------

Init == /\ prog \in DOMAIN Script /\ pc = 1 /\ status = "run"
        /\ glfw = [inits |-> 0, terms |-> 0] /\ owned = FALSE
        /\ objs = [live |-> {}, deleted |-> {}] /\ lost = {}
        /\ linked = FALSE /\ TheRenderer = FALSE
        /\ phase = "none" /\ pending = << >> /\ acts = 0
        /\ cursor \in Points
        /\ fb \in {SZ, <<2, 2>>}        \* a dense screen doubles the framebuffer
        /\ view = [port |-> NoPort, Aspect |-> SZ]
        /\ closing = FALSE
        /\ cam \in {[Angle |-> <<0, 0>>, Radius |-> StartRadius, LeftPress |-> FALSE,
                     LineMode |-> FALSE, Old |-> p] : p \in Points}   \* OldX, OldY: unset
        /\ modes = [line |-> FALSE, depth |-> FALSE, cull |-> FALSE]

Step == Script[prog][pc]
AtCall(f) == status = "run" /\ pc <= Len(Script[prog]) /\ Step.op = f
Context == glfw.inits > glfw.terms

Terminate == /\ glfw' = [glfw EXCEPT !.terms = @ + 1]
             /\ objs' = [objs EXCEPT !.live = {}]
             /\ owned' = FALSE

\* An exception leaves main: Wnd, if it was constructed, terminates GLFW.
Throw ==
  /\ status' = "returned"
  /\ IF owned THEN Terminate ELSE UNCHANGED <<glfw, objs, owned>>
  /\ UNCHANGED <<prog, pc, phase, lost, linked, TheRenderer, input, scene>>

Goes == pc' = pc + 1 /\ UNCHANGED <<prog, status, phase>>

glfwInit ==
  /\ AtCall("init")
  /\ \/ Throw
     \/ /\ glfw' = [glfw EXCEPT !.inits = @ + 1]
        /\ Goes
        /\ UNCHANGED <<owned, objs, lost, linked, TheRenderer, input, scene>>

\* glfwCreateWindow, glfwMakeContextCurrent and the framebuffer callback: a first
\* current context has the framebuffer as its viewport.
glfwCreateWindow ==
  /\ AtCall("window")
  /\ \/ Throw
     \/ /\ view' = [view EXCEPT !.port = fb]
        /\ Goes
        /\ UNCHANGED <<life, input, closing, cam, modes>>

\* gladLoadGLLoader, readFile: fail or leave everything as it is.
Load ==
  /\ AtCall("glad") \/ AtCall("readFile")
  /\ Throw \/ (Goes /\ UNCHANGED <<life, input, scene>>)

Own ==
  /\ AtCall("own")
  /\ owned' = TRUE
  /\ Goes
  /\ UNCHANGED <<glfw, objs, lost, linked, TheRenderer, input, scene>>

Generate ==
  /\ AtCall("new")
  /\ objs' = [objs EXCEPT !.live = @ \cup {Step.obj}]
  /\ Goes
  /\ UNCHANGED <<glfw, owned, lost, linked, TheRenderer, input, scene>>

\* installShader asks for the compile status and throws.
installShader ==
  /\ AtCall("compile")
  /\ Throw \/ (Goes /\ UNCHANGED <<life, input, scene>>)

\* glLinkProgram may fail.  The status is asked of the program as if it were a
\* shader, an error that leaves Success as it was: never set.
LinkProgram ==
  /\ AtCall("link")
  /\ \/ Throw
     \/ /\ linked' \in BOOLEAN
        /\ Goes
        /\ UNCHANGED <<glfw, owned, objs, lost, TheRenderer, input, scene>>

\* The first lines of the Renderer constructor set the viewport to the size asked for.
SetModes ==
  /\ AtCall("modes")
  /\ view' = [view EXCEPT !.port = SZ]
  /\ modes' = [modes EXCEPT !.depth = TRUE, !.cull = TRUE]
  /\ Goes
  /\ UNCHANGED <<life, input, closing, cam>>

\* TheRenderer takes the object; main then sets the key and mouse callbacks.
MakeRenderer ==
  /\ AtCall("renderer")
  /\ TheRenderer' = TRUE
  /\ Goes
  /\ UNCHANGED <<glfw, owned, objs, lost, linked, input, scene>>

\* glDelete...: without a context the call has no object to delete.
Erase(os) ==
  IF Context THEN /\ objs' = [live |-> objs.live \ os, deleted |-> objs.deleted \cup os]
                  /\ UNCHANGED lost
  ELSE lost' = lost \cup os /\ UNCHANGED objs

Delete ==
  /\ AtCall("del")
  /\ Erase({Step.obj})
  /\ Goes
  /\ UNCHANGED <<glfw, owned, linked, TheRenderer, input, scene>>

\* main returns and Wnd goes out of scope.
Cleanup ==
  /\ AtCall("terminate")
  /\ Terminate
  /\ pc' = pc + 1
  /\ status' = IF pc' > Len(Script[prog]) THEN "returned" ELSE "run"
  /\ UNCHANGED <<prog, phase, lost, linked, TheRenderer, input, scene>>

\* Static objects go last: the unique_ptr TheRenderer destroys the Renderer.
StaticDestructors ==
  /\ status = "returned"
  /\ status' = "exited"
  /\ IF TheRenderer THEN Erase({"VAO", "VBO", "IBO"}) ELSE UNCHANGED <<objs, lost>>
  /\ TheRenderer' = FALSE
  /\ UNCHANGED <<prog, pc, phase, glfw, owned, linked, input, scene>>

-----------------------------------------------------------------------------
(* The loop.                                                               *)

\* Entering the loop, or going round it.
Test ==
  /\ AtCall("loop") /\ phase \in {"none", "test"}
  /\ IF closing THEN pc' = pc + 1 /\ phase' = "none"
     ELSE phase' = "display" /\ UNCHANGED pc
  /\ UNCHANGED <<prog, status, life, input, scene>>

\* do_render of each program and Renderer::display: they read the state alone.
Draws(p) ==
  /\ prog = p /\ AtCall("loop") /\ phase = "display"
  /\ phase' = "swap"
  /\ UNCHANGED <<prog, pc, status, life, input, scene>>

\* glBegin(GL_QUADS); glDrawArrays of quads, of a triangle strip; glDrawElements.
simplest_render == Draws("simplest")
extensions_render == Draws("extensions")
frag_render == Draws("frag_shader")
display == Draws("motion")

Corners == [simplest |-> SimplestVertices, extensions |-> ExtensionsVertices, frag_shader |-> FragVertices]

Swap ==
  /\ AtCall("loop") /\ phase = "swap"
  /\ \/ Throw
     \/ /\ phase' = "poll"
        /\ UNCHANGED <<prog, pc, status, life, input, scene>>

\* glfwPollEvents returns when it has delivered what there was.
PollDone ==
  /\ AtCall("loop") /\ phase = "poll" /\ pending = << >>
  /\ phase' = "test"
  /\ UNCHANGED <<prog, pc, status, life, input, scene>>

-----------------------------------------------------------------------------
(* The user, and the callbacks.                                            *)

Event(kind, arg) == [kind |-> kind, arg |-> arg]

\* GLFW drops what no callback asks for.
Happens(e) ==
  /\ status = "run" /\ view.port # NoPort /\ acts < MaxEvents
  /\ acts' = acts + 1
  /\ pending' = IF prog = "motion" \/ e.kind \in {"size", "close"}
                THEN Append(pending, e) ELSE pending
  /\ cursor' = IF e.kind = "move" THEN e.arg ELSE cursor
  /\ fb' = IF e.kind = "size" THEN e.arg ELSE fb
  /\ UNCHANGED <<prog, pc, status, phase, life, scene>>

UserActs ==
  \/ \E p \in Points \ {cursor} : Happens(Event("move", p))
  \/ \E down \in BOOLEAN : Happens(Event("left", down))
  \/ \E key \in {"W", "S", "L"} : Happens(Event("key", key))
  \/ \E s \in Sizes \ {fb} : Happens(Event("size", s))
  \/ Happens(Event("close", "none"))

Deliver(kind) ==
  /\ AtCall("loop") /\ phase = "poll" /\ pending # << >> /\ Head(pending).kind = kind
  /\ pending' = Tail(pending)
  /\ UNCHANGED <<prog, pc, status, phase, life, acts, cursor, fb>>

Arg == Head(pending).arg

\* Zoom, and the toggle of the line mode with all that goes with it.
notifyKey ==
  /\ Deliver("key")
  /\ LET line == IF Arg = "L" THEN ~cam.LineMode ELSE cam.LineMode
         turn == CASE Arg = "W" -> -1 [] Arg = "S" -> 1 [] OTHER -> 0
     IN  /\ cam' = [cam EXCEPT !.Radius = @ + turn, !.LineMode = line]
         /\ modes' = IF Arg # "L" THEN modes
                     ELSE [line |-> line, depth |-> ~line, cull |-> ~line]
  /\ UNCHANGED <<view, closing>>

myclamp(x) == IF x > AngleLimit THEN AngleLimit
              ELSE IF x < -AngleLimit THEN -AngleLimit ELSE x

\* Slip: the position moved from is not remembered.
MouseMoveForgets ==
  /\ Deliver("move")
  /\ cam' = IF ~cam.LeftPress THEN cam
            ELSE [cam EXCEPT !.Angle = [a \in 1..2 |-> myclamp(@[a] + Arg[a] - cam.Old[a])]]
  /\ UNCHANGED <<view, closing, modes>>

\* A drag turns the camera.
notifyMouseMove ==
  /\ Deliver("move")
  /\ cam' = IF ~cam.LeftPress THEN cam
            ELSE [cam EXCEPT !.Angle = [a \in 1..2 |-> myclamp(@[a] + Arg[a] - cam.Old[a])],
                             !.Old = Arg]
  /\ UNCHANGED <<view, closing, modes>>

\* A press asks where the cursor is now, which may be ahead of the events.
notifyMouseButton ==
  /\ Deliver("left")
  /\ cam' = IF Arg THEN [cam EXCEPT !.LeftPress = TRUE, !.Old = cursor]
            ELSE [cam EXCEPT !.LeftPress = FALSE]
  /\ UNCHANGED <<view, closing, modes>>

\* framebuffer_size_callback: ogl-motion keeps the aspect ratio as well.
notifySize ==
  /\ prog = "motion" /\ Deliver("size")
  /\ view' = [port |-> Arg, Aspect |-> Arg]
  /\ UNCHANGED <<closing, cam, modes>>

framebuffer_size_callback ==
  /\ prog # "motion" /\ Deliver("size")
  /\ view' = [view EXCEPT !.port = Arg]
  /\ UNCHANGED <<closing, cam, modes>>

SetShouldClose ==
  /\ Deliver("close")
  /\ closing' = TRUE
  /\ UNCHANGED <<view, cam, modes>>

-----------------------------------------------------------------------------

Setup == \/ glfwInit \/ glfwCreateWindow \/ Load \/ Own \/ Generate \/ installShader
         \/ LinkProgram \/ SetModes \/ MakeRenderer

Loop == \/ Test \/ simplest_render \/ extensions_render \/ frag_render \/ display
        \/ Swap \/ PollDone

Callbacks == \/ notifyKey \/ notifyMouseMove \/ notifyMouseButton
             \/ notifySize \/ framebuffer_size_callback \/ SetShouldClose

Next == Setup \/ Loop \/ Callbacks \/ UserActs \/ Delete \/ Cleanup \/ StaticDestructors

Spec == Init /\ [][Next]_vars

-----------------------------------------------------------------------------
(* Properties.                                                             *)

Handled(kind) == \A i \in DOMAIN pending : pending[i].kind # kind

\* The callbacks run late and read the cursor out of step with the events; yet
\* when none is left to deliver, a drag starts from where the cursor is, the
\* context's modes are those of the line mode, and the viewport fits the
\* framebuffer (in ogl-motion, which assumes SZX by SZY, once it was resized).
CallbacksCatchUp ==
  phase # "none" =>
    /\ cam.LeftPress /\ Handled("move") /\ Handled("left") => cam.Old = cursor
    /\ prog = "motion" =>
         modes = [line |-> cam.LineMode, depth |-> ~cam.LineMode, cull |-> ~cam.LineMode]
    /\ Handled("size") => view.port = fb \/ (prog = "motion" /\ view.port = SZ)
    /\ prog = "motion" /\ view.port # SZ => view.Aspect = view.port

\* The cross product of the edges that meet after corner i of quad q.
Normal(q, i) ==
  LET Edge(j) == [a \in 1..3 |-> Corner(q, (j % 4) + 1)[a] - Corner(q, j)[a]]
      u == Edge(i)
      v == Edge((i % 4) + 1)
  IN  <<u[2] * v[3] - u[3] * v[2], u[3] * v[1] - u[1] * v[3], u[1] * v[2] - u[2] * v[1]>>

\* Every side of the cube is wound counter-clockwise as seen from outside, and is
\* a side of its own.
CubeClosed ==
  /\ \A q \in DOMAIN Indices, i \in 1..4 :
       LET n == Normal(q, i)
           c == Corner(q, i)
       IN  n = Normal(q, 1) /\ n[1] * c[1] + n[2] * c[2] + n[3] * c[3] > 0
  /\ IsInjective([q \in DOMAIN Indices |-> Normal(q, 1)])

Differ(v, w) == Cardinality({a \in 1..2 : v[a] # w[a]})

\* A square of quads goes round its corners; a strip has a diagonal in its middle.
SquareWhole(p) ==
  LET v == Corners[p]
  IN /\ Cardinality({v[i] : i \in 1..4}) = 4
     /\ IF p = "frag_shader" THEN Differ(v[2], v[3]) = 2
        ELSE \A i \in 1..3 : Differ(v[i], v[i + 1]) = 1

\* No callback runs without a renderer to notify, and the loop draws only in a
\* context, with every object it uses in place, no angle that looks straight
\* along the up vector, and a whole square or, where faces are culled, no side
\* of the cube lost.
DrawsWhatExists ==
  phase # "none" /\ status = "run" =>
    /\ Context /\ owned
    /\ prog = "motion" => TheRenderer
    /\ LET used == CASE prog = "simplest" -> {}
                     [] prog = "extensions" -> {"VAO", "VBO"}
                     [] prog = "frag_shader" -> {"VAO", "VBO", "ProgID"}
                     [] prog = "motion" -> {"VAO", "VBO", "IBO", "ProgID"}
       IN  used \subseteq objs.live
    /\ \A a \in 1..2 : cam.Angle[a] \in -AngleLimit..AngleLimit
    /\ prog # "motion" => SquareWhole(prog)
    /\ modes.cull => CubeClosed

\* GLFW is terminated at most once, and before main returns if the window came
\* to be owned; all but ogl-motion never delete without a context.
WindowOutlivesObjects ==
  /\ glfw.terms <= glfw.inits
  /\ status # "run" => ~owned
  /\ prog # "motion" => lost = {}
=============================================================================
