------------------------------ MODULE GlutApps ------------------------------
(***************************************************************************)
(* The three GLUT programs of the archive (cube, lightsample, movelight).  *)
(* GLUT calls back from one loop: a reshape, a key, the mouse, a menu, and *)
(* display whenever a redisplay was posted.  display is a long run of      *)
(* OpenGL calls on the matrix stacks, the attribute stack and the enables, *)
(* all of which outlive the frame; a frame is what it has drawn, each      *)
(* thing with the matrices and lights it was drawn under.                  *)
(***************************************************************************)
EXTENDS Integers, SequencesExt

CONSTANTS Xs,            \* where the mouse may be, horizontally
          MaxCallbacks   \* bound on the callbacks other than display

VARIABLES app,
          gl,            \* matrix mode, stacks, enables, position of light 0
          size,          \* of the window
          posted,        \* a redisplay is due
          frame,         \* what the window shows
          spin, obj, begin, light_sample,   \* the programs' globals
          mouse,         \* where the mouse is, and the button held, if any
          callbacks, running

vars == <<app, gl, size, posted, frame, spin, obj, begin, light_sample, mouse, callbacks, running>>

-----------------------------------------------------------------------------
(* OpenGL: a call is an operator on [gl, drawn].  A matrix is the list of  *)
(* transformations it is the product of.                                   *)

Top(s) == Last(s.gl.stack[s.gl.mode])
SetStack(s, new) == [s EXCEPT !.gl.stack[s.gl.mode] = new]

Apply(s, call) ==
  LET k == call[1]
      here == s.gl.stack[s.gl.mode]
  IN  CASE k = "mode" -> [s EXCEPT !.gl.mode = call[2]]
        [] k = "push" -> SetStack(s, Append(here, Top(s)))
        [] k = "pop" -> SetStack(s, Front(here))
        [] k = "identity" -> SetStack(s, Append(Front(here), << >>))
        [] k = "mult" -> SetStack(s, Append(Front(here), Append(Top(s), call[2])))
        [] k = "pushattrib" -> [s EXCEPT !.gl.attribs = Append(@, s.gl.enabled)]
        [] k = "popattrib" -> [s EXCEPT !.gl.enabled = Last(s.gl.attribs),
                                        !.gl.attribs = Front(@)]
        [] k = "enable" -> [s EXCEPT !.gl.enabled = @ \cup {call[2]}]
        [] k = "disable" -> [s EXCEPT !.gl.enabled = @ \ {call[2]}]
        [] k = "light" -> [s EXCEPT !.gl.light = Last(s.gl.stack["modelview"])]
        [] k = "draw" -> [s EXCEPT !.drawn = Append(@,
                            [what |-> call[2], mv |-> Last(s.gl.stack["modelview"]),
                             pr |-> Last(s.gl.stack["projection"]),
                             on |-> s.gl.enabled, light |-> s.gl.light])]

Calls(cs) == FoldLeft(Apply, [gl |-> gl, drawn |-> << >>], cs)

Mode(m) == <<"mode", m>>
Push == <<"push">>
Pop == <<"pop">>
LoadIdentity == <<"identity">>
Mult(t) == <<"mult", t>>
PushAttrib == <<"pushattrib">>
PopAttrib == <<"popattrib">>
Enable(c) == <<"enable", c>>
Disable(c) == <<"disable", c>>
Light == <<"light">>
Draw(w) == <<"draw", w>>

-----------------------------------------------------------------------------
(* cube.c                                                                  *)

\* The light is placed before the view is set up: it stays with the eye.
cube_init ==
  <<Light, Enable("L0"), Enable("lighting"), Enable("depth"),
    Mode("projection"), Mult("perspective"), Mode("modelview"),
    Mult("lookAt"), Mult("translate"), Mult("rotate")>>

drawBox == <<Draw("box")>>

cube_display == drawBox

-----------------------------------------------------------------------------
(* lightsample.c                                                           *)

lights_init == <<Enable("lighting"), Enable("normalize")>>

lights_reshape ==
  <<Mode("projection"), LoadIdentity, Mult("ortho"), Mode("modelview"), LoadIdentity>>

Lights == <<"L0", "L1", "L2", "L3", "L4", "L5", "L6", "L7">>

\* The last sample has three lights, the others one.
switch_light ==
  IF light_sample = 6 THEN <<Enable("L5"), Enable("L6"), Enable("L7")>>
  ELSE <<Enable(Lights[light_sample])>>

plane == <<Draw("plane")>>

\* Slip: the lights are left on.
LightsStayOn == << >>

disable_lights == [i \in 1..8 |-> Disable(Lights[i])]

lights_display == switch_light \o plane \o disable_lights

-----------------------------------------------------------------------------
(* movelight.c                                                             *)

TORUS == "torus"
DOD == "dodecahedron"
QUIT == "quit"

move_init == <<Enable("lighting"), Enable("L0"), Enable("depth")>>

output == <<Push, Mult("translate"), Draw("text"), Pop>>

move_object ==
  IF obj = DOD THEN <<Push, Mult("scale"), Draw(DOD), Pop>> ELSE <<Draw(obj)>>

move_display ==
  <<Mode("modelview"), Push, Mult("back"),
    Push, Mult(<<"spin", spin>>), Light, Mult("out"),
    Disable("lighting"), Draw("cube"), Enable("lighting"), Pop>>
  \o move_object
  \o <<Pop, PushAttrib, Disable("depth"), Disable("lighting"),
       Mode("projection"), Push, LoadIdentity, Mult("ortho"),
       Mode("modelview"), Push, LoadIdentity>>
  \o output
  \o <<Pop, Mode("projection"), Pop, PopAttrib>>

myReshape ==
  <<Mode("projection"), LoadIdentity, Mult(<<"perspective", size'>>), Mode("modelview")>>

-----------------------------------------------------------------------------

init == CASE app = "cube" -> cube_init
          [] app = "lightsample" -> lights_init
          [] app = "movelight" -> move_init

\* main of each program has registered its callbacks; GLUT then reshapes the
\* window once before it displays.
Fresh == [mode |-> "modelview",
          stack |-> [m \in {"modelview", "projection"} |-> <<<< >>>>],
          attribs |-> << >>, enabled |-> {}, light |-> << >>]

Init == /\ app \in {"cube", "lightsample", "movelight"}
        /\ gl = FoldLeft(Apply, [gl |-> Fresh, drawn |-> << >>], init).gl
        /\ size = 0                 \* no reshape yet
        /\ posted = TRUE /\ frame = << >>
        /\ spin = 0 /\ obj = TORUS /\ begin = 0 /\ light_sample = 1
        /\ mouse = [x |-> 0, held |-> "none"]
        /\ callbacks = 0 /\ running = TRUE

globals == <<spin, obj, begin, light_sample>>

Event == running /\ size # 0 /\ callbacks < MaxCallbacks /\ callbacks' = callbacks + 1

\* cube.c has no reshape callback.  The window system exposes the new window.
reshape(s) ==
  /\ running /\ size # s
  /\ size = 0 \/ callbacks < MaxCallbacks
  /\ callbacks' = IF size = 0 THEN callbacks ELSE callbacks + 1
  /\ size' = s /\ posted' = TRUE
  /\ gl' = CASE app = "cube" -> gl
             [] app = "lightsample" -> Calls(lights_reshape).gl
             [] app = "movelight" -> Calls(myReshape).gl
  /\ UNCHANGED <<app, frame, globals, mouse, running>>

display ==
  /\ running /\ posted /\ size # 0
  /\ posted' = FALSE
  /\ LET s == Calls(CASE app = "cube" -> cube_display
                      [] app = "lightsample" -> lights_display
                      [] app = "movelight" -> move_display)
     IN  gl' = s.gl /\ frame' = s.drawn
  /\ UNCHANGED <<app, size, globals, mouse, callbacks, running>>

\* Any key redisplays; '1' to '6' choose a sample.
keyboard_function(key) ==
  /\ Event /\ app = "lightsample"
  /\ light_sample' = IF key \in 1..6 THEN key ELSE light_sample
  /\ posted' = TRUE
  /\ UNCHANGED <<app, gl, size, frame, spin, obj, begin, mouse, running>>

menu_select(item) ==
  /\ Event /\ app = "movelight" /\ mouse.held = "none"
  /\ IF item = QUIT THEN running' = FALSE /\ UNCHANGED <<obj, posted>>
     ELSE obj' = item /\ posted' = TRUE /\ UNCHANGED running
  /\ UNCHANGED <<app, gl, size, frame, spin, begin, light_sample, mouse>>

\* A button goes down or up where the mouse is; only the left one counts.
movelight(b) ==
  /\ Event /\ app = "movelight"
  /\ mouse.held \in {"none", b}
  /\ mouse' = [mouse EXCEPT !.held = IF mouse.held = b THEN "none" ELSE b]
  /\ begin' = IF b = "left" /\ mouse.held = "none" THEN mouse.x ELSE begin
  /\ UNCHANGED <<app, gl, size, posted, frame, spin, obj, light_sample, running>>

\* C's remainder: the sign is that of the dividend.
Rem360(n) == IF n >= 0 THEN n % 360 ELSE -((-n) % 360)

\* Slip: the place the drag has come to is not remembered.
MotionForgets(x) ==
  /\ Event /\ app = "movelight" /\ mouse.held # "none" /\ x # mouse.x
  /\ mouse' = [mouse EXCEPT !.x = x]
  /\ spin' = Rem360(spin + (x - begin)) /\ UNCHANGED begin
  /\ posted' = TRUE
  /\ UNCHANGED <<app, gl, size, frame, obj, light_sample, running>>

\* GLUT reports motion while any button is held.
motion(x) ==
  /\ Event /\ app = "movelight" /\ mouse.held # "none" /\ x # mouse.x
  /\ mouse' = [mouse EXCEPT !.x = x]
  /\ spin' = Rem360(spin + (x - begin)) /\ begin' = x
  /\ posted' = TRUE
  /\ UNCHANGED <<app, gl, size, frame, obj, light_sample, running>>

\* The mouse moves with no button held: no callback.
Hover(x) ==
  /\ Event /\ app = "movelight" /\ mouse.held = "none" /\ x # mouse.x
  /\ mouse' = [mouse EXCEPT !.x = x]
  /\ UNCHANGED <<app, gl, size, posted, frame, globals, running>>

dials(value) ==
  /\ Event /\ app = "movelight"
  /\ spin' = Rem360(value) /\ posted' = TRUE
  /\ UNCHANGED <<app, gl, size, frame, obj, begin, light_sample, mouse, running>>

Next == \/ \E s \in 1..2 : reshape(s)
        \/ display
        \/ \E key \in {0, 2, 6} : keyboard_function(key)
        \/ \E item \in {TORUS, DOD, QUIT} : menu_select(item)
        \/ \E b \in {"left", "middle"} : movelight(b)
        \/ \E x \in Xs : motion(x) \/ Hover(x)
        \/ \E v \in {-1, 360} : dials(v)

Spec == Init /\ [][Next]_vars

-----------------------------------------------------------------------------
(* Properties.                                                             *)

Shown(w) == SelectSeq(frame, LAMBDA d : d.what = w)

\* With no redisplay due the window shows the globals as they are: the sample's
\* lights and no others, the chosen object lit from where spin has put the
\* light, in perspective for the window's size, and the text flat and unlit.
\* Nothing is left on a stack, so no frame spoils the next.
FrameCurrent ==
  running /\ ~posted =>
    /\ \A m \in DOMAIN gl.stack : Len(gl.stack[m]) = 1
    /\ gl.attribs = << >>
    /\ app = "cube" => frame[1].mv = <<"lookAt", "translate", "rotate">> /\ frame[1].light = << >>
    /\ app = "lightsample" =>
         /\ frame[1].on = {"lighting", "normalize"} \cup
                          (IF light_sample = 6 THEN {"L5", "L6", "L7"} ELSE {Lights[light_sample]})
         /\ frame[1].mv = << >> /\ frame[1].pr = <<"ortho">>
    /\ app = "movelight" =>
         /\ Len(Shown(obj)) = 1 /\ Len(frame) = 3
         /\ LET o == Shown(obj)[1]
            IN  /\ o.light = <<"back", <<"spin", spin>>>>
                /\ o.mv[1] = "back" /\ {"lighting", "L0", "depth"} \subseteq o.on
                /\ o.pr = <<<<"perspective", size>>>>
         /\ LET t == Shown("text")[1]
            IN  t.mv = <<"translate">> /\ t.pr = <<"ortho">> /\ t.on = {"L0"}

\* While the left button is held the next motion turns the light by as much as
\* the mouse moves and no more.
DragSmooth == mouse.held = "left" => begin = mouse.x
=============================================================================
