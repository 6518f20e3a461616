----------------------------- MODULE Drawables ------------------------------
(***************************************************************************)
(* The programs of 09-solid that draw.  common-model.cc and str-model.cc:  *)
(* a Model of Drawables with value semantics, each holding its object by a *)
(* unique_ptr that copies deeply.  ocp-good.cc and ocp-bad.cc: a screen    *)
(* that keeps figures by shared_ptr or by address until it renders them.   *)
(* srp-good.cc and srp-bad.cc: polygons drawn to one stream or another.    *)
(***************************************************************************)
EXTENDS Naturals, Sequences, FiniteSets, SequencesExt

CONSTANTS Nodes,      \* addresses of objects, numbers
          MaxTop,     \* bound on the elements of a model and of a screen
          MaxMade     \* bound on the caller's figures and on drawings

VARIABLES
  prog,    \* the program
  heap,    \* what is at an address
  doc,     \* the model, the figures_ of a screen, or the polygon of srp
  own,     \* the figures that the caller still has
  want,    \* history: the values pushed, or the figures drawn
  out      \* what is on cout and in a file; of a model or a screen, since it last changed

vars == <<prog, heap, doc, own, want, out>>

Models == {"common", "str"}
Screens == {"ocp-good", "ocp-bad"}
Streams == {"srp-good", "srp-bad"}

Object(kind, kids, tag) == [kind |-> kind, kids |-> kids, tag |-> tag, at |-> 0]
Free == Object("free", << >>, 0)
NoOutput == [cout |-> << >>, file |-> << >>]
Live(h) == {n \in Nodes : h[n].kind # "free"}
Fresh(h) == CHOOSE n \in Nodes \ Live(h) : TRUE

Init ==
  /\ prog \in Models \cup Screens \cup Streams
  /\ heap = [n \in Nodes |-> Free]
  /\ doc = IF prog \in Streams THEN <<"v1", "v2">> ELSE << >>
  /\ own = {}
  /\ want = << >>
  /\ out = NoOutput

-----------------------------------------------------------------------------
(* Drawable and Model                                                      *)

Kinds == {"int", "vector", "polygon"}

\* The value of a Drawable, all the way down.
RECURSIVE Value(_, _)
Value(h, n) == <<h[n].kind, [i \in DOMAIN h[n].kids |-> Value(h, h[n].kids[i])]>>

RECURSIVE Tree(_, _)
Tree(h, n) == {n} \cup UNION {Tree(h, h[n].kids[i]) : i \in DOMAIN h[n].kids}

\* Slip: the copy of a model shares its elements.
CopyShallow(h, n) == LET new == Fresh(h) IN <<[h EXCEPT ![new] = h[n]], new>>

\* copy_() makes a DrawableObject from this one; the copy constructor of data_ copies
\* the elements of a model, each by its own copy_().
RECURSIVE copy_(_, _)
copy_(h, n) ==
  LET kids == FoldLeft(LAMBDA acc, k : LET c == copy_(acc[1], k)
                                       IN <<c[1], Append(acc[2], c[2])>>,
                       <<h, << >>>>, h[n].kids)
      new == Fresh(kids[1])
  IN <<[kids[1] EXCEPT ![new] = [h[n] EXCEPT !.kids = kids[2]]], new>>

\* The destructor of a Drawable, and of what it owns.
Without(h, n) == [x \in Nodes |-> IF x \in Tree(h, n) THEN Free ELSE h[x]]

Room(k) == Cardinality(Nodes \ Live(heap)) >= k

Pushed(kind) ==
  /\ Len(doc) < MaxTop /\ Room(1)
  /\ heap' = [heap EXCEPT ![Fresh(heap)] = Object(kind, << >>, 0)]
  /\ doc' = Append(doc, Fresh(heap))
  /\ want' = Append(want, <<kind, << >>>>)
  /\ out' = NoOutput
  /\ UNCHANGED <<prog, own>>

\* Drawable(T x) takes any type, the constructors of str-model.cc int and Vector3D.
push_back(kind) == prog = "common" /\ Pushed(kind)
push_int == prog = "str" /\ Pushed("int")
push_vector == prog = "str" /\ Pushed("vector")

\* document.push_back(document): the parameter x is a copy of the model.
push_model ==
  /\ prog = "common" /\ Len(doc) < MaxTop
  /\ Room(1 + Cardinality(Live(heap)))
  /\ LET copies == FoldLeft(LAMBDA acc, n : LET c == copy_(acc[1], n)
                                            IN <<c[1], Append(acc[2], c[2])>>,
                            <<heap, << >>>>, doc)
         new == Fresh(copies[1])
     IN /\ heap' = [copies[1] EXCEPT ![new] = Object("world", copies[2], 0)]
        /\ doc' = Append(doc, new)
        /\ want' = Append(want, <<"world", want>>)
  /\ out' = NoOutput
  /\ UNCHANGED <<prog, own>>

\* operator=(Drawable x): x is copied first, then takes the place of the old object.
Assigned(i, j) ==
  /\ Room(Cardinality(Tree(heap, doc[j])))
  /\ LET c == copy_(heap, doc[j])
     IN /\ heap' = Without(c[1], doc[i])
        /\ doc' = [doc EXCEPT ![i] = c[2]]
        /\ want' = [want EXCEPT ![i] = want[j]]
  /\ out' = NoOutput
  /\ UNCHANGED <<prog, own>>

assign(i, j) == prog = "common" /\ Assigned(i, j)
str_assign(i, j) == prog = "str" /\ Assigned(i, j)

\* The lines of an element, each with its indentation.
RECURSIVE draw_(_, _)
draw_(n, position) ==
  CASE heap[n].kind \in {"int", "vector"} -> <<<<position, heap[n].kind>>>>
    [] heap[n].kind = "polygon" ->
         <<<<position, "open">>, <<position + 2, "vector">>, <<position + 2, "vector">>, <<position, "close">>>>
    [] heap[n].kind = "world" ->
         <<<<position, "open">>>>
         \o FlattenSeq([i \in DOMAIN heap[n].kids |-> draw_(heap[n].kids[i], position + 2)])
         \o <<<<position, "close">>>>
    [] OTHER -> <<<<position, "dangling">>>>

World == <<<<0, "open">>>> \o FlattenSeq([i \in DOMAIN doc |-> draw_(doc[i], 2)]) \o <<<<0, "close">>>>

Show(lines) == out' = [out EXCEPT !.cout = lines] /\ UNCHANGED <<prog, heap, doc, own, want>>

draw == prog = "common" /\ Show(World)
str_draw == prog = "str" /\ Show(World)

-----------------------------------------------------------------------------
(* Screens.  A figure is numbered when it is made, so that another at its  *)
(* address is told from it.                                                *)

NewTag == CHOOSE t \in 1..(MaxTop + Cardinality(Nodes) + 1) :
            t \notin {heap[n].tag : n \in Nodes} \cup ToSet(want)

make(kind) ==
  /\ prog \in Screens /\ Cardinality(own) < MaxMade /\ Room(1)
  /\ heap' = [heap EXCEPT ![Fresh(heap)] = Object(kind, << >>, NewTag)]
  /\ own' = own \cup {Fresh(heap)}
  /\ out' = NoOutput
  /\ UNCHANGED <<prog, doc, want>>

Given(f) ==
  /\ f \in own /\ Len(doc) < MaxTop
  /\ doc' = Append(doc, f)
  /\ want' = Append(want, heap[f].tag)
  /\ out' = NoOutput
  /\ UNCHANGED <<prog, heap, own>>

\* figures_.push_back(f) of the shared_ptr, figures_.push_back(&f) of the address;
\* serialize does the same.
screen_draw(f) == prog = "ocp-good" /\ Given(f)
screen_draw_bad(f) == prog = "ocp-bad" /\ Given(f)

Translated(f) ==
  /\ f \in own /\ heap[f].at = 0      \* a bound
  /\ heap[f].kind = "polygon"
  /\ heap' = [heap EXCEPT ![f].at = @ + 1]
  /\ out' = NoOutput
  /\ UNCHANGED <<prog, doc, own, want>>

\* Polygon3D::translate
translate(f) == prog = "ocp-good" /\ Translated(f)
translate_bad(f) == prog = "ocp-bad" /\ Translated(f)

\* Slip: the screen has no share in the figure.
GoneForgets(f) == TRUE

\* Is nobody left that holds it?
Gone(f) == prog = "ocp-bad" \/ f \notin ToSet(doc)

leave(f) ==
  /\ prog \in Screens /\ f \in own
  /\ own' = own \ {f}
  /\ heap' = IF Gone(f) THEN [heap EXCEPT ![f] = Free] ELSE heap
  /\ out' = NoOutput
  /\ UNCHANGED <<prog, doc, want>>

\* What a figure draws of itself: a polygon a line for each vector.
Figure(f) == [shape |-> heap[f].kind, lines |-> IF heap[f].kind = "polygon" THEN 2 ELSE 0,
              at |-> heap[f].at, tag |-> heap[f].tag]

\* The switch of ocp-bad.cc knows both shapes, and not what was deleted.
Switched(f) == IF heap[f].kind \in {"polygon", "vector"} THEN Figure(f)
               ELSE [shape |-> "undefined", lines |-> 0, at |-> 0, tag |-> 0]

render == prog = "ocp-good" /\ Show([i \in DOMAIN doc |-> Figure(doc[i])])
render_bad == prog = "ocp-bad" /\ Show([i \in DOMAIN doc |-> Switched(doc[i])])

\* ~Screen, and the next one.
screen_gone ==
  /\ prog \in Screens /\ doc # << >>
  /\ heap' = IF prog = "ocp-bad" THEN heap
             ELSE [n \in Nodes |-> IF n \in ToSet(doc) \ own THEN Free ELSE heap[n]]
  /\ doc' = << >> /\ want' = << >> /\ out' = NoOutput
  /\ UNCHANGED <<prog, own>>

-----------------------------------------------------------------------------
(* Streams                                                                 *)

\* Slip: the vector goes to cout as well.
DrawnToCout(o, s, v) == [o EXCEPT !.cout = Append(Append(@, v), "newline")]

\* A vector goes to the stream, the newline to std::cout.
Drawn(o, s, v) ==
  LET written == [o EXCEPT ![s] = Append(@, v)]
  IN [written EXCEPT !.cout = Append(@, "newline")]

DrawnPolygon(s) ==
  /\ Len(want) < MaxMade
  /\ out' = FoldLeft(LAMBDA o, v : LET p == o IN Drawn(p, s, v), out, doc)
  /\ want' = Append(want, [to |-> s, vs |-> doc])
  /\ UNCHANGED <<prog, heap, doc, own>>

Moved == [v1 |-> "w1", v2 |-> "w2"]

\* translate adds to every vector of the polygon, once within the bound.
translate_srp ==
  /\ prog \in Streams /\ doc[1] = "v1"
  /\ doc' = [i \in DOMAIN doc |-> Moved[doc[i]]]
  /\ UNCHANGED <<prog, heap, own, want, out>>

\* draw(s, p) and serialize, which is draw; p.draw(s) and p.serialize(bs).
draw_polygon(s) == prog = "srp-good" /\ DrawnPolygon(s)
serialize == draw_polygon("file")
member_draw(s) == prog = "srp-bad" /\ DrawnPolygon(s)
member_serialize == member_draw("file")

\* The bound on drawings.
Over == prog \in Streams /\ Len(want) = MaxMade /\ doc[1] # "v1" /\ UNCHANGED vars

-----------------------------------------------------------------------------
Next ==
  \/ \E kind \in Kinds : push_back(kind)
  \/ push_int \/ push_vector \/ push_model
  \/ \E i, j \in DOMAIN doc : assign(i, j) \/ str_assign(i, j)
  \/ draw \/ str_draw
  \/ \E kind \in {"vector", "polygon"} : make(kind)
  \/ \E f \in own : \/ screen_draw(f) \/ translate(f) \/ leave(f)
                     \/ screen_draw_bad(f) \/ translate_bad(f)
  \/ render \/ render_bad \/ screen_gone
  \/ draw_polygon("cout") \/ serialize \/ member_draw("cout") \/ member_serialize
  \/ translate_srp \/ Over

Spec == Init /\ [][Next]_vars

-----------------------------------------------------------------------------
(* Properties.                                                             *)

Holders(n) == Cardinality({i \in DOMAIN doc : doc[i] = n})
              + Cardinality({<<p, i>> \in Nodes \X (1..MaxTop) :
                               i \in DOMAIN heap[p].kids /\ heap[p].kids[i] = n})

Depth(lines, k) == LET opened == SelectSeq(SubSeq(lines, 1, k - 1), LAMBDA l : l[2] = "open")
                       closed == SelectSeq(SubSeq(lines, 1, k), LAMBDA l : l[2] = "close")
                   IN Len(opened) - Len(closed)

\* A Model has value semantics: after any pushes of itself and assignments among its
\* elements it has exactly the values they had when they were pushed, every
\* object has one owner and none is left over, and what is drawn is nested and
\* indented accordingly.
ModelByValue ==
  prog \in Models =>
    /\ [i \in DOMAIN doc |-> Value(heap, doc[i])] = want
    /\ \A n \in Live(heap) : Holders(n) = 1
    /\ \A k \in DOMAIN out.cout : out.cout[k][1] = 2 * Depth(out.cout, k) /\ out.cout[k][2] # "dangling"

Shown == out.cout
Serialized == SelectSeq(want, LAMBDA w : w.to = "file")

\* With shared_ptr a screen shows each figure it was given as it is when it renders,
\* and a figure lives as long as the caller or the screen has it.  With addresses
\* it shows another one, or none, only if the caller has given the figure up.
\* The file has the vectors of every polygon serialized, as it was then, and none of
\* the newlines, which are all on cout.
FiguresShown ==
  /\ prog = "ocp-good" =>
       /\ \A i \in DOMAIN doc : heap[doc[i]].tag = want[i]
       /\ Live(heap) = own \cup ToSet(doc)
       /\ \A i \in DOMAIN Shown : Shown[i].tag = want[i] /\ Shown[i].at = heap[doc[i]].at
  /\ prog = "ocp-bad" =>
       \A i \in DOMAIN doc : heap[doc[i]].tag # want[i] => ~\E f \in own : heap[f].tag = want[i]
  /\ prog \in Streams =>
       /\ out.file = FlattenSeq([k \in DOMAIN Serialized |-> Serialized[k].vs])
       /\ Len(SelectSeq(out.cout, LAMBDA x : x = "newline")) = 2 * Len(want)
=============================================================================
