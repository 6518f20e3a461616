--------------------------- MODULE GraphicsProofs ---------------------------
(***************************************************************************)
(* Proofs about the programs of 10-3d that MCGraphics has: the objects of  *)
(* vk-simplest through any number of swap chains, the life of the OpenGL   *)
(* programs' window, and what the callbacks note of any number of events.  *)
(***************************************************************************)
EXTENDS MCGraphics, FiniteSetTheorems, SequenceTheorems, NaturalsInduction,
        WellFoundedInduction, TLAPS

-----------------------------------------------------------------------------
(* The order of the calls of vk-simplest.                                  *)

Temporary == {"stagingBuffer", "commandBuffer"}

\* What the window is drawn with.
Lasting ==
  {"Wnd", "Instance", "Surface", "PhysDevice", "Families", "Device", "Queues", "ShaderIDs",
   "SurfaceFormat", "Extent", "SwapChain", "SwapChainImages", "SwapChainImageFormat",
   "SwapChainExtent", "SwapChainImageViews", "RenderPass", "PipelineLayout",
   "GraphicsPipeline", "SwapChainFramebuffers", "CommandPool", "VertexBuffer", "IndexBuffer",
   "CommandBuffers", "ImagesInFlight", "SyncObjects"}

Names == Lasting \cup Temporary

\* What is made from an object.
Children(p) ==
  CASE p = "Wnd" -> {"Surface", "Extent"}
    [] p = "Instance" -> {"Surface", "PhysDevice"}
    [] p = "Surface" -> {"Families", "SurfaceFormat", "Extent", "SwapChain"}
    [] p = "PhysDevice" -> {"Families", "Device", "SurfaceFormat", "Extent", "stagingBuffer",
                            "VertexBuffer", "IndexBuffer"}
    [] p = "Families" -> {"Device", "Queues", "SwapChain", "CommandPool"}
    [] p = "Device" ->
         {"Queues", "ShaderIDs", "SwapChain", "SwapChainImages", "SwapChainImageViews",
          "RenderPass", "PipelineLayout", "GraphicsPipeline", "SwapChainFramebuffers",
          "CommandPool", "stagingBuffer", "VertexBuffer", "IndexBuffer", "commandBuffer",
          "CommandBuffers", "SyncObjects"}
    [] p = "Queues" -> {"commandBuffer"}
    [] p = "ShaderIDs" -> {"GraphicsPipeline"}
    [] p = "SurfaceFormat" -> {"SwapChain", "SwapChainImageFormat"}
    [] p = "Extent" -> {"SwapChain", "SwapChainExtent"}
    [] p = "SwapChain" -> {"SwapChainImages"}
    [] p = "SwapChainImages" -> {"SwapChainImageViews", "ImagesInFlight"}
    [] p = "SwapChainImageFormat" -> {"SwapChainImageViews", "RenderPass"}
    [] p = "SwapChainExtent" -> {"GraphicsPipeline", "SwapChainFramebuffers", "CommandBuffers"}
    [] p = "SwapChainImageViews" -> {"SwapChainFramebuffers"}
    [] p = "RenderPass" -> {"GraphicsPipeline", "SwapChainFramebuffers", "CommandBuffers"}
    [] p = "PipelineLayout" -> {"GraphicsPipeline"}
    [] p = "GraphicsPipeline" -> {"CommandBuffers"}
    [] p = "SwapChainFramebuffers" -> {"CommandBuffers"}
    [] p = "CommandPool" -> {"commandBuffer", "CommandBuffers"}
    [] p \in {"VertexBuffer", "IndexBuffer"} -> {"commandBuffer", "CommandBuffers"}
    [] OTHER -> {}

ObjectCall == [op : {"make", "destroy"}, object : Names, from : SUBSET Names]

\* What is known of the objects between two calls: those that are alive, those
\* that may be, and those that may have been made from one that was replaced.
View == [alive : SUBSET Names, most : SUBSET Names, stale : SUBSET Names]

\* One view says no more than another.
Within(v, w) == v.alive \subseteq w.alive /\ w.most \subseteq v.most /\ w.stale \subseteq v.stale

\* Children that are destroyed before their parents.
Held(p) == (Children(p) \cap Vk!Handles) \ Vk!Abandoned

\* The call c is in order in view v, and leads to one that says at least w.
Follows(c, v, w) ==
  \/ /\ c.op = "make"
     /\ c.from \subseteq v.alive /\ c.object \notin c.from
     /\ \A p \in c.from \ Temporary : c.object \in Children(p)
     /\ w.alive \subseteq v.alive \cup {c.object}
     /\ v.most \cup {c.object} \subseteq w.most
     /\ (v.stale \cup Children(c.object)) \ {c.object} \subseteq w.stale
  \/ /\ c.op = "destroy"
     /\ c.object \in v.alive
     /\ c.object \in Vk!Handles => Held(c.object) \cap v.most = {}
     /\ w.alive \subseteq v.alive \ {c.object}
     /\ v.most \ {c.object} \subseteq w.most
     /\ v.stale \subseteq w.stale

\* The calls s are in order from view v on, and lead to one that says at least w.
IsRun(g, s, v, w) ==
  /\ g \in [0..Len(s) -> View]
  /\ Within(g[0], v) /\ Within(w, g[Len(s)])
  /\ \A i \in 1..Len(s) : Follows(s[i], g[i - 1], g[i])

Runs(s, v, w) == s \in Seq(ObjectCall) /\ v \in View /\ w \in View /\ \E g : IsRun(g, s, v, w)

\* A call stays in order in a view that says more.
LEMMA FollowsMonotone ==
  ASSUME NEW c \in ObjectCall, NEW u \in View, NEW v \in View, NEW w \in View, NEW x \in View,
         Within(u, v), Follows(c, u, w), Within(x, w)
  PROVE  Follows(c, v, x)
BY DEF Follows, Within, View, ObjectCall

\* No calls at all are in order.
LEMMA RunsNothing ==
  ASSUME NEW v \in View, NEW w \in View, Within(w, v)
  PROVE  Runs(<< >>, v, w)
<1>1. IsRun([i \in 0..0 |-> v], << >>, v, w)
  BY DEF IsRun, Within, View
<1> QED
  BY <1>1 DEF Runs

\* One call is in order when it follows.
LEMMA RunsOne ==
  ASSUME NEW c \in ObjectCall, NEW v \in View, NEW w \in View, Follows(c, v, w)
  PROVE  Runs(<<c>>, v, w)
<1> DEFINE g == [i \in 0..1 |-> IF i = 0 THEN v ELSE w]
<1>1. IsRun(g, <<c>>, v, w)
  BY DEF IsRun, Within, View
<1> QED
  BY <1>1 DEF Runs

\* Two runs make one when the first leads to where the second starts.
LEMMA RunsJoined ==
  ASSUME NEW s, NEW t, NEW v, NEW w, NEW x, NEW y,
         Runs(s, v, w), Runs(t, x, y), Within(x, w)
  PROVE  Runs(s \o t, v, y)
<1>1. PICK g : IsRun(g, s, v, w)
  BY DEF Runs
<1>2. PICK h : IsRun(h, t, x, y)
  BY DEF Runs
<1>3. /\ s \in Seq(ObjectCall) /\ t \in Seq(ObjectCall) /\ s \o t \in Seq(ObjectCall)
      /\ v \in View /\ w \in View /\ x \in View /\ y \in View
      /\ Len(s) \in Nat /\ Len(t) \in Nat /\ Len(s \o t) = Len(s) + Len(t)
      /\ \A i \in 1..Len(s) : s[i] \in ObjectCall /\ (s \o t)[i] = s[i]
      /\ \A i \in 1..Len(t) : t[i] \in ObjectCall /\ (s \o t)[Len(s) + i] = t[i]
  BY DEF Runs
<1> DEFINE N == Len(s)
           M == Len(t)
           f == [i \in 0..(N + M) |-> IF i <= N THEN g[i] ELSE h[i - N]]
<1>4. f \in [0..(N + M) -> View]
  BY <1>1, <1>2, <1>3 DEF IsRun
<1>5. Within(f[0], v)
  BY <1>1, <1>3 DEF IsRun
<1>6. Within(h[0], g[N])
  BY <1>1, <1>2, <1>3 DEF IsRun, Within, View
<1>7. Within(y, f[N + M])
  <2>1. CASE M = 0
    BY <2>1, <1>1, <1>2, <1>3, <1>6 DEF IsRun, Within, View
  <2>2. CASE M > 0
    BY <2>2, <1>1, <1>2, <1>3 DEF IsRun
  <2> QED
    BY <2>1, <2>2, <1>3
<1>8. ASSUME NEW i \in 1..(N + M)
      PROVE  Follows((s \o t)[i], f[i - 1], f[i])
  <2>1. CASE i <= N
    BY <2>1, <1>1, <1>3 DEF IsRun
  <2>2. CASE i = N + 1
    <3>1. f[i - 1] = g[N] /\ f[i] = h[1] /\ (s \o t)[i] = t[1] /\ 1 \in 1..M
      BY <2>2, <1>3
    <3>2. Follows(t[1], h[0], h[1])
      BY <3>1, <1>2 DEF IsRun
    <3>3. h[0] \in View /\ h[1] \in View /\ g[N] \in View /\ t[1] \in ObjectCall /\ Within(h[1], h[1])
      <4>1. 0 \in 0..M /\ 1 \in 0..M /\ N \in 0..N
        BY <3>1, <1>3
      <4> QED
        BY <4>1, <3>1, <1>1, <1>2, <1>3 DEF IsRun, Within
    <3> QED
      BY <3>1, <3>2, <3>3, <1>6, FollowsMonotone
  <2>3. CASE i > N + 1
    <3>1. i - N \in 1..M /\ f[i - 1] = h[(i - N) - 1] /\ f[i] = h[i - N]
      BY <2>3, <1>3
    <3>2. (s \o t)[N + (i - N)] = t[i - N] /\ N + (i - N) = i
      BY <3>1, <1>3
    <3> QED
      BY <3>1, <3>2, <1>2 DEF IsRun
  <2> QED
    BY <2>1, <2>2, <2>3, <1>3
<1>9. IsRun(f, s \o t, v, y)
  BY <1>3, <1>4, <1>5, <1>7, <1>8 DEF IsRun
<1> QED
  BY <1>9, <1>3 DEF Runs

\* A run may start from more and be said to lead to less.
LEMMA RunsWeaker ==
  ASSUME NEW s, NEW v \in View, NEW w \in View, NEW x, NEW y,
         Runs(s, x, y), Within(x, v), Within(w, y)
  PROVE  Runs(s, v, w)
<1>1. PICK g : IsRun(g, s, x, y)
  BY DEF Runs
<1>2. s \in Seq(ObjectCall) /\ x \in View /\ y \in View
  BY DEF Runs
<1>3. IsRun(g, s, v, w)
  BY <1>1, <1>2 DEF IsRun, Within, View
<1> QED
  BY <1>3, <1>2 DEF Runs

\* The first call, and the run of the others.
LEMMA RunsFirst ==
  ASSUME NEW s, NEW v, NEW w, Runs(s, v, w), s # << >>
  PROVE  /\ Head(s) \in ObjectCall /\ Tail(s) \in Seq(ObjectCall)
         /\ \E x \in View : Follows(Head(s), v, x) /\ Runs(Tail(s), x, w)
<1>1. PICK g : IsRun(g, s, v, w)
  BY DEF Runs
<1>2. /\ s \in Seq(ObjectCall) /\ v \in View /\ w \in View
      /\ Len(s) \in Nat /\ Len(s) >= 1 /\ Head(s) = s[1] /\ s[1] \in ObjectCall
      /\ Tail(s) \in Seq(ObjectCall) /\ Len(Tail(s)) = Len(s) - 1
      /\ \A i \in 1..Len(Tail(s)) : Tail(s)[i] = s[i + 1]
  BY DEF Runs
<1>3. g[0] \in View /\ g[1] \in View /\ Within(g[0], v) /\ Follows(s[1], g[0], g[1])
  BY <1>1, <1>2 DEF IsRun
<1>4. Follows(s[1], v, g[1])
  <2>1. Within(g[1], g[1])
    BY DEF Within
  <2> QED
    BY <2>1, <1>2, <1>3, FollowsMonotone
<1> DEFINE h == [i \in 0..Len(Tail(s)) |-> g[i + 1]]
<1>5. IsRun(h, Tail(s), g[1], w)
  <2>1. h \in [0..Len(Tail(s)) -> View]
    BY <1>1, <1>2 DEF IsRun
  <2>2. Within(h[0], g[1]) /\ Within(w, h[Len(Tail(s))])
    BY <1>1, <1>2 DEF IsRun, Within
  <2>3. ASSUME NEW i \in 1..Len(Tail(s)) PROVE Follows(Tail(s)[i], h[i - 1], h[i])
    <3>1. h[i - 1] = g[(i + 1) - 1] /\ h[i] = g[i + 1] /\ i + 1 \in 1..Len(s)
      BY <1>2
    <3> QED
      BY <3>1, <1>1, <1>2 DEF IsRun
  <2> QED
    BY <2>1, <2>2, <2>3 DEF IsRun
<1> QED
  BY <1>2, <1>3, <1>4, <1>5 DEF Runs

-----------------------------------------------------------------------------
(* Runs of calls that make objects, each after what it is made from.       *)

\* An order in which every object comes after what it is made from.
Rank(o) ==
  CASE o = "Wnd" -> 1 [] o = "Instance" -> 2 [] o = "Surface" -> 3 [] o = "PhysDevice" -> 4
    [] o = "Families" -> 5 [] o = "Device" -> 6 [] o = "Queues" -> 7 [] o = "ShaderIDs" -> 8
    [] o = "SurfaceFormat" -> 9 [] o = "Extent" -> 10 [] o = "SwapChain" -> 11
    [] o = "SwapChainImages" -> 12 [] o = "SwapChainImageFormat" -> 13
    [] o = "SwapChainExtent" -> 14 [] o = "SwapChainImageViews" -> 15
    [] o = "RenderPass" -> 16 [] o = "PipelineLayout" -> 17 [] o = "GraphicsPipeline" -> 18
    [] o = "SwapChainFramebuffers" -> 19 [] o = "CommandPool" -> 20 [] o = "stagingBuffer" -> 21
    [] o \in {"VertexBuffer", "IndexBuffer"} -> 22 [] o = "commandBuffer" -> 23
    [] o = "CommandBuffers" -> 24 [] o = "ImagesInFlight" -> 25 [] OTHER -> 26

\* Ranks are numbers.
LEMMA RankType == \A o : Rank(o) \in Nat
BY DEF Rank

\* Children are objects of the program.
LEMMA ChildrenNamed == \A o : Children(o) \in SUBSET Names
BY DEF Children, Names, Lasting, Temporary

\* What is made from an object comes after it.
LEMMA ChildrenLater == \A p \in Names : \A x \in Children(p) : Rank(p) < Rank(x)
BY DEF Children, Rank, Names, Lasting, Temporary

Made(s) == {s[i].object : i \in 1..Len(s)}

Spoiled(R) == UNION {Children(o) : o \in R}

\* The object o may be made from P.
Parented(o, P) == /\ o \in Names /\ P \subseteq Names /\ o \notin P
                  /\ \A p \in P \ Temporary : o \in Children(p)

\* The calls s make objects from those in A and from one another, in the order of
\* their ranks, of which the first is lo.
Orderly(s, A, lo) ==
  /\ s \in Seq(ObjectCall) /\ lo \in Nat
  /\ \A i \in 1..Len(s) :
       /\ s[i].op = "make" /\ Parented(s[i].object, s[i].from)
       /\ s[i].from \subseteq A \cup {s[j].object : j \in 1..(i - 1)}
       /\ Rank(s[i].object) >= lo
       /\ \A j \in 1..(i - 1) : Rank(s[j].object) < Rank(s[i].object)

\* What is known when the objects R have been made, or made anew.
Remade(v, R) ==
  [alive |-> v.alive \cup R, most |-> v.most \cup R, stale |-> (v.stale \cup Spoiled(R)) \ R]

\* What is known after objects have been made anew is a view.
LEMMA RemadeView == \A v \in View : \A R \in SUBSET Names : Remade(v, R) \in View
<1> SUFFICES ASSUME NEW v \in View, NEW R \in SUBSET Names
             PROVE  Remade(v, R) \in View
  OBVIOUS
<1>1. Spoiled(R) \subseteq Names
  BY ChildrenNamed DEF Spoiled
<1> QED
  BY <1>1 DEF View, Remade

\* Calls in the order of their ranks are in order, and make fresh what they make.
LEMMA OrderlyRuns ==
  ASSUME NEW v \in View, NEW s, NEW A, NEW lo, Orderly(s, A, lo),
         NEW R \in SUBSET Names, A \subseteq v.alive \cup R,
         \A o \in R : Rank(o) < lo
  PROVE  /\ Made(s) \subseteq Names
         /\ Runs(s, Remade(v, R), Remade(v, R \cup Made(s)))
<1> DEFINE N == Len(s)
           M(i) == {s[j].object : j \in 1..i}
           g == [i \in 0..N |-> Remade(v, R \cup M(i))]
<1>1. /\ s \in Seq(ObjectCall) /\ N \in Nat /\ lo \in Nat
      /\ \A i \in 1..N : s[i] \in ObjectCall /\ s[i].object \in Names /\ s[i].from \subseteq Names
  <2>1. s \in Seq(ObjectCall) /\ N \in Nat /\ lo \in Nat /\ \A i \in 1..N : s[i] \in ObjectCall
    BY DEF Orderly
  <2> QED
    BY <2>1 DEF ObjectCall
<1>2. \A i \in 0..N : M(i) \in SUBSET Names
  BY <1>1
<1>3. M(0) = {} /\ M(N) = Made(s)
  BY DEF Made
<1>4. \A i \in 0..N : g[i] = Remade(v, R \cup M(i)) /\ g[i] \in View
  BY <1>2, RemadeView
<1>5. g[0] = Remade(v, R) /\ g[N] = Remade(v, R \cup Made(s))
  <2>1. R \cup M(0) = R
    BY <1>3
  <2>2. g[0] = Remade(v, R \cup M(0)) /\ g[N] = Remade(v, R \cup M(N))
    BY <1>1, <1>4
  <2> QED
    BY <2>1, <2>2, <1>3
<1>6. ASSUME NEW i \in 1..N
      PROVE  Follows(s[i], g[i - 1], g[i])
  <2> DEFINE o == s[i].object
  <2>1. /\ s[i].op = "make" /\ Parented(o, s[i].from) /\ Rank(o) >= lo
        /\ s[i].from \subseteq A \cup M(i - 1)
        /\ \A j \in 1..(i - 1) : Rank(s[j].object) < Rank(o)
    BY <1>1, RankType DEF Orderly
  <2>2. M(i) = M(i - 1) \cup {o} /\ i - 1 \in 0..N
    BY <1>1
  <2>3. /\ g[i - 1] = Remade(v, R \cup M(i - 1)) /\ g[i] = Remade(v, R \cup M(i))
        /\ M(i - 1) \subseteq Names
    BY <1>1, <1>2, <1>4, <2>2
  <2>4. s[i].from \subseteq g[i - 1].alive
    BY <2>1, <2>3 DEF Remade
  <2>5. ASSUME NEW x \in R \cup M(i - 1)
        PROVE  x \notin Children(o)
    <3>1. Rank(x) < Rank(o)
      <4>1. CASE x \in R
        BY <4>1, <2>1, <1>1, RankType
      <4>2. CASE x \in M(i - 1)
        BY <4>2, <2>1
      <4> QED
        BY <4>1, <4>2
    <3>2. o \in Names
      BY <1>1
    <3> QED
      BY <3>1, <3>2, ChildrenLater, RankType
  <2>6. (g[i - 1].stale \cup Children(o)) \ {o} \subseteq g[i].stale
    <3>1. Spoiled(R \cup M(i)) = Spoiled(R \cup M(i - 1)) \cup Children(o)
      BY <2>2 DEF Spoiled
    <3>2. o \notin Children(o)
      BY <1>1, ChildrenLater, RankType
    <3>3. g[i].stale = (v.stale \cup Spoiled(R \cup M(i))) \ (R \cup M(i))
      BY <2>3 DEF Remade
    <3>4. g[i - 1].stale = (v.stale \cup Spoiled(R \cup M(i - 1))) \ (R \cup M(i - 1))
      BY <2>3 DEF Remade
    <3> HIDE DEF M, g, o
    <3> QED
      BY <3>1, <3>2, <3>3, <3>4, <2>2, <2>5
  <2>7. g[i].alive \subseteq g[i - 1].alive \cup {o}
    BY <2>2, <2>3 DEF Remade
  <2>8. g[i - 1].most \cup {o} \subseteq g[i].most
    BY <2>3, <1>1 DEF Remade
  <2> QED
    BY <2>1, <2>4, <2>6, <2>7, <2>8 DEF Follows, Parented
<1>7. IsRun(g, s, Remade(v, R), Remade(v, R \cup Made(s)))
  <2>1. Within(g[0], Remade(v, R)) /\ Within(Remade(v, R \cup Made(s)), g[N])
    BY <1>5 DEF Within
  <2>2. g \in [0..N -> View]
    BY <1>4
  <2> QED
    BY <2>1, <2>2, <1>6 DEF IsRun
<1> QED
  BY <1>1, <1>2, <1>3, <1>7, RemadeView DEF Runs

\* A run goes on with calls that make more.
LEMMA RunsOn ==
  ASSUME NEW s, NEW t, NEW u, NEW v \in View, NEW A, NEW lo, Orderly(t, A, lo),
         NEW R \in SUBSET Names, A \subseteq v.alive \cup R,
         \A o \in R : Rank(o) < lo,
         Runs(s, u, Remade(v, R))
  PROVE  Runs(s \o t, u, Remade(v, R \cup Made(t)))
<1>1. Runs(t, Remade(v, R), Remade(v, R \cup Made(t)))
  BY OrderlyRuns
<1>2. Within(Remade(v, R), Remade(v, R))
  BY DEF Within
<1> QED
  BY <1>1, <1>2, RunsJoined
-----------------------------------------------------------------------------
(* Runs of calls that destroy.                                             *)

\* What is left when the objects in R are gone.
Without(v, R) == [alive |-> v.alive \ R, most |-> v.most \ R, stale |-> v.stale]

\* Calls that destroy each object once, children before parents, are in order.
LEMMA DestroysRun ==
  ASSUME NEW v \in View, NEW s \in Seq(ObjectCall),
         \A i \in 1..Len(s) : s[i].op = "destroy" /\ s[i].object \in v.alive,
         \A i \in 1..Len(s) : \A j \in 1..(i - 1) : s[j].object # s[i].object,
         \A i \in 1..Len(s) : s[i].object \in Vk!Handles =>
           \A x \in Held(s[i].object) \cap v.most : \E j \in 1..(i - 1) : x = s[j].object
  PROVE  Runs(s, v, Without(v, Made(s)))
<1> DEFINE N == Len(s)
           M(i) == {s[j].object : j \in 1..i}
           g == [i \in 0..N |-> Without(v, M(i))]
<1>1. N \in Nat /\ \A i \in 1..N : s[i] \in ObjectCall
  OBVIOUS
<1>2. M(0) = {} /\ M(N) = Made(s)
  BY DEF Made
<1>3. \A R : Without(v, R) \in View
  BY DEF Without, View
<1>4. \A i \in 0..N : g[i] = Without(v, M(i)) /\ g[i] \in View
  BY <1>3
<1>5. g[0] = v /\ g[N] = Without(v, Made(s))
  <2>1. g[0] = Without(v, {}) /\ g[N] = Without(v, Made(s))
    <3>1. g[0] = Without(v, M(0)) /\ g[N] = Without(v, M(N))
      BY <1>1, <1>4
    <3> QED
      BY <3>1, <1>2
  <2>2. Without(v, {}) = v
    BY DEF Without, View
  <2> QED
    BY <2>1, <2>2
<1>6. ASSUME NEW i \in 1..N
      PROVE  Follows(s[i], g[i - 1], g[i])
  <2> DEFINE o == s[i].object
  <2>1. M(i) = M(i - 1) \cup {o} /\ i - 1 \in 0..N
    BY <1>1
  <2>2. g[i - 1] = Without(v, M(i - 1)) /\ g[i] = Without(v, M(i))
    BY <1>1, <1>4, <2>1
  <2>3. o \in v.alive \ M(i - 1)
    BY <1>1
  <2>4. o \in Vk!Handles => Held(o) \cap v.most \subseteq M(i - 1)
    BY <1>1
  <2> HIDE DEF M, g
  <2> QED
    BY <2>1, <2>2, <2>3, <2>4 DEF Follows, Without
<1>7. IsRun(g, s, v, Without(v, Made(s)))
  <2>1. Within(g[0], v) /\ Within(Without(v, Made(s)), g[N])
    BY <1>5 DEF Within
  <2>2. g \in [0..N -> View]
    BY <1>4
  <2> QED
    BY <2>1, <2>2, <1>6 DEF IsRun
<1> QED
  BY <1>3, <1>7 DEF Runs

-----------------------------------------------------------------------------
(* The calls of main, update_swap_chain and ~VkApp.                        *)

Makes(o, P) == [op |-> "make", object |-> o, from |-> P]

\* One call that makes an object from objects that are there.
LEMMA OrderlyOne ==
  ASSUME NEW o, NEW P, NEW A, Parented(o, P), P \subseteq A
  PROVE  Orderly(<<Makes(o, P)>>, A, Rank(o)) /\ Made(<<Makes(o, P)>>) = {o}
<1> DEFINE s == <<Makes(o, P)>>
<1>1. Makes(o, P) \in ObjectCall
  BY DEF Makes, ObjectCall, Parented
<1>2. s \in Seq(ObjectCall) /\ Len(s) = 1 /\ s[1].op = "make" /\ s[1].object = o /\ s[1].from = P
  BY <1>1 DEF Makes
<1> HIDE DEF s
<1>3. Made(s) = {o}
  BY <1>2 DEF Made
<1>4. Orderly(s, A, Rank(o))
  BY <1>2, RankType DEF Orderly
<1> QED
  BY <1>3, <1>4 DEF s

\* Calls of higher ranks may follow.
LEMMA OrderlyAppend ==
  ASSUME NEW s, NEW A, NEW lo, Orderly(s, A, lo), NEW o, NEW P, Parented(o, P),
         P \subseteq A \cup Made(s), Rank(o) >= lo, \A x \in Made(s) : Rank(x) < Rank(o)
  PROVE  /\ Orderly(Append(s, Makes(o, P)), A, lo)
         /\ Made(Append(s, Makes(o, P))) = Made(s) \cup {o}
<1> DEFINE t == Append(s, Makes(o, P))
<1>1. Makes(o, P) \in ObjectCall
  BY DEF Makes, ObjectCall, Parented
<1>2. /\ s \in Seq(ObjectCall) /\ Len(s) \in Nat /\ lo \in Nat /\ t \in Seq(ObjectCall) /\ Len(t) = Len(s) + 1
      /\ \A i \in 1..Len(s) : t[i] = s[i]
      /\ t[Len(s) + 1] = Makes(o, P)
  BY <1>1 DEF Orderly
<1>3. t[Len(s) + 1].op = "make" /\ t[Len(s) + 1].object = o /\ t[Len(s) + 1].from = P
  BY <1>2 DEF Makes
<1> HIDE DEF t
<1>4. Made(t) = Made(s) \cup {o}
  BY <1>2, <1>3 DEF Made
<1>5. ASSUME NEW i \in 1..Len(t)
      PROVE  /\ t[i].op = "make" /\ Parented(t[i].object, t[i].from)
             /\ t[i].from \subseteq A \cup {t[j].object : j \in 1..(i - 1)}
             /\ Rank(t[i].object) >= lo
             /\ \A j \in 1..(i - 1) : Rank(t[j].object) < Rank(t[i].object)
  <2>1. CASE i = Len(s) + 1
    BY <2>1, <1>2, <1>3 DEF Made
  <2>2. CASE i \in 1..Len(s)
    <3>1. t[i] = s[i] /\ \A j \in 1..(i - 1) : t[j] = s[j]
      BY <2>2, <1>2
    <3>2. /\ s[i].op = "make" /\ Parented(s[i].object, s[i].from)
          /\ s[i].from \subseteq A \cup {s[j].object : j \in 1..(i - 1)}
          /\ Rank(s[i].object) >= lo
          /\ \A j \in 1..(i - 1) : Rank(s[j].object) < Rank(s[i].object)
      BY <2>2 DEF Orderly
    <3>3. {s[j].object : j \in 1..(i - 1)} = {t[j].object : j \in 1..(i - 1)}
      BY <3>1
    <3> QED
      BY <3>1, <3>2, <3>3
  <2> QED
    BY <2>1, <2>2, <1>2
<1> QED
  BY <1>2, <1>4, <1>5 DEF Orderly, t

\* Two calls that make objects.
LEMMA OrderlyTwo ==
  ASSUME NEW A, NEW a, NEW P, NEW b, NEW Q, Parented(a, P), Parented(b, Q),
         P \subseteq A, Q \subseteq A \cup {a}, Rank(a) < Rank(b)
  PROVE  /\ Orderly(<<Makes(a, P), Makes(b, Q)>>, A, Rank(a))
         /\ Made(<<Makes(a, P), Makes(b, Q)>>) = {a, b}
<1>1. Orderly(<<Makes(a, P)>>, A, Rank(a)) /\ Made(<<Makes(a, P)>>) = {a}
  BY OrderlyOne
<1>2. <<Makes(a, P), Makes(b, Q)>> = Append(<<Makes(a, P)>>, Makes(b, Q))
  OBVIOUS
<1> DEFINE s == <<Makes(a, P)>>
<1> HIDE DEF s
<1>3. Orderly(s, A, Rank(a)) /\ Made(s) = {a}
  BY <1>1 DEF s
<1>4. /\ Q \subseteq A \cup Made(s) /\ Rank(b) >= Rank(a)
      /\ \A x \in Made(s) : Rank(x) < Rank(b)
  BY <1>3, RankType
<1>5. Orderly(Append(s, Makes(b, Q)), A, Rank(a)) /\ Made(Append(s, Makes(b, Q))) = Made(s) \cup {b}
  BY <1>3, <1>4, OrderlyAppend
<1>6. Made(s) \cup {b} = {a, b}
  BY <1>3
<1> QED
  BY <1>2, <1>5, <1>6 DEF s

\* Three.
LEMMA OrderlyThree ==
  ASSUME NEW A, NEW a, NEW P, NEW b, NEW Q, NEW c, NEW R,
         Parented(a, P), Parented(b, Q), Parented(c, R),
         P \subseteq A, Q \subseteq A \cup {a}, R \subseteq A \cup {a, b},
         Rank(a) < Rank(b), Rank(b) < Rank(c)
  PROVE  /\ Orderly(<<Makes(a, P), Makes(b, Q), Makes(c, R)>>, A, Rank(a))
         /\ Made(<<Makes(a, P), Makes(b, Q), Makes(c, R)>>) = {a, b, c}
<1> DEFINE s == <<Makes(a, P), Makes(b, Q)>>
<1>1. Orderly(s, A, Rank(a)) /\ Made(s) = {a, b}
  BY OrderlyTwo, SMTT(30)
<1>2. <<Makes(a, P), Makes(b, Q), Makes(c, R)>> = Append(s, Makes(c, R))
  OBVIOUS
<1> HIDE DEF s
<1>3. /\ R \subseteq A \cup Made(s) /\ Rank(c) >= Rank(a)
      /\ \A x \in Made(s) : Rank(x) < Rank(c)
  BY <1>1, RankType
<1>4. /\ Orderly(Append(s, Makes(c, R)), A, Rank(a))
      /\ Made(Append(s, Makes(c, R))) = Made(s) \cup {c}
  BY <1>1, <1>3, OrderlyAppend
<1>5. Made(s) \cup {c} = {a, b, c}
  BY <1>1
<1> QED
  BY <1>2, <1>4, <1>5

\* The functions, with what each needs and makes.
LEMMA WindowOrderly ==
  /\ Orderly(Vk!initialize_window, {}, 1)
  /\ Made(Vk!initialize_window) = {"Wnd"}
<1>1. Parented("Wnd", {}) /\ Rank("Wnd") = 1
  BY DEF Parented, Names, Lasting, Temporary, Children, Rank
<1>2. Vk!initialize_window = <<Makes("Wnd", {})>>
  BY DEF Vk!initialize_window, Vk!Make, Makes
<1> QED
  BY <1>1, <1>2, OrderlyOne

LEMMA InstanceOrderly ==
  /\ Orderly(Vk!create_instance,
             {"Wnd"}, 2)
  /\ Made(Vk!create_instance) =
       {"Instance", "Surface"}
<1>1. Parented("Instance",
               {}) /\ Rank("Instance") = 2
  BY DEF Parented, Names, Lasting, Temporary, Children, Rank
<1>2. Parented("Surface",
               {"Instance", "Wnd"}) /\ Rank("Surface") = 3
  BY DEF Parented, Names, Lasting, Temporary, Children, Rank
<1>3. Vk!create_instance =
        <<Makes("Instance",
                {}),
          Makes("Surface",
                {"Instance", "Wnd"})>>
  BY DEF Vk!create_instance, Vk!Make, Makes
<1> QED
  BY <1>1, <1>2, <1>3, OrderlyTwo

LEMMA PhysDeviceOrderly ==
  /\ Orderly(Vk!peek_device,
             {"Instance"}, 4)
  /\ Made(Vk!peek_device) =
       {"PhysDevice"}
<1>1. Parented("PhysDevice",
               {"Instance"}) /\ Rank("PhysDevice") = 4
  BY DEF Parented, Names, Lasting, Temporary, Children, Rank
<1>2. Vk!peek_device =
        <<Makes("PhysDevice",
                {"Instance"})>>
  BY DEF Vk!peek_device, Vk!Make, Makes
<1> QED
  BY <1>1, <1>2, OrderlyOne

LEMMA QueuesOrderly ==
  /\ Orderly(Vk!find_queues,
             {"PhysDevice", "Surface"}, 5)
  /\ Made(Vk!find_queues) =
       {"Families"}
<1>1. Parented("Families",
               {"PhysDevice", "Surface"}) /\ Rank("Families") = 5
  BY DEF Parented, Names, Lasting, Temporary, Children, Rank
<1>2. Vk!find_queues =
        <<Makes("Families",
                {"PhysDevice", "Surface"})>>
  BY DEF Vk!find_queues, Vk!Make, Makes
<1> QED
  BY <1>1, <1>2, OrderlyOne

LEMMA DeviceOrderly ==
  /\ Orderly(Vk!create_logical_device,
             {"PhysDevice", "Families"}, 6)
  /\ Made(Vk!create_logical_device) =
       {"Device", "Queues"}
<1>1. Parented("Device",
               {"PhysDevice", "Families"}) /\ Rank("Device") = 6
  BY DEF Parented, Names, Lasting, Temporary, Children, Rank
<1>2. Parented("Queues",
               {"Device", "Families"}) /\ Rank("Queues") = 7
  BY DEF Parented, Names, Lasting, Temporary, Children, Rank
<1>3. Vk!create_logical_device =
        <<Makes("Device",
                {"PhysDevice", "Families"}),
          Makes("Queues",
                {"Device", "Families"})>>
  BY DEF Vk!create_logical_device, Vk!Make, Makes
<1> QED
  BY <1>1, <1>2, <1>3, OrderlyTwo

LEMMA ShaderOrderly ==
  /\ Orderly(Vk!installShader,
             {"Device"}, 8)
  /\ Made(Vk!installShader) =
       {"ShaderIDs"}
<1>1. Parented("ShaderIDs",
               {"Device"}) /\ Rank("ShaderIDs") = 8
  BY DEF Parented, Names, Lasting, Temporary, Children, Rank
<1>2. Vk!installShader =
        <<Makes("ShaderIDs",
                {"Device"})>>
  BY DEF Vk!installShader, Vk!Make, Makes
<1> QED
  BY <1>1, <1>2, OrderlyOne

LEMMA SwapChainOrderly ==
  /\ Orderly(Vk!create_swap_chain,
             {"PhysDevice", "Surface", "Wnd", "Device", "Families"}, 9)
  /\ Made(Vk!create_swap_chain) =
       {"SurfaceFormat", "Extent", "SwapChain"}
<1>1. Parented("SurfaceFormat",
               {"PhysDevice", "Surface"}) /\ Rank("SurfaceFormat") = 9
  BY DEF Parented, Names, Lasting, Temporary, Children, Rank
<1>2. Parented("Extent",
               {"PhysDevice", "Surface", "Wnd"}) /\ Rank("Extent") = 10
  BY DEF Parented, Names, Lasting, Temporary, Children, Rank
<1>3. Parented("SwapChain",
               {"Device", "Surface", "SurfaceFormat", "Extent", "Families"}) /\ Rank("SwapChain") = 11
  BY DEF Parented, Names, Lasting, Temporary, Children, Rank
<1>4. Vk!create_swap_chain =
        <<Makes("SurfaceFormat",
                {"PhysDevice", "Surface"}),
          Makes("Extent",
                {"PhysDevice", "Surface", "Wnd"}),
          Makes("SwapChain",
                {"Device", "Surface", "SurfaceFormat", "Extent", "Families"})>>
  BY DEF Vk!create_swap_chain, Vk!Make, Makes
<1> QED
  BY <1>1, <1>2, <1>3, <1>4, OrderlyThree

LEMMA ViewsOrderly ==
  /\ Orderly(Vk!create_image_views,
             {"Device", "SwapChain", "SurfaceFormat", "Extent"}, 12)
  /\ Made(Vk!create_image_views) =
       {"SwapChainImages", "SwapChainImageFormat", "SwapChainExtent", "SwapChainImageViews"}
<1> DEFINE A == {"Device", "SwapChain", "SurfaceFormat", "Extent"}
           P == {"Device", "SwapChain"}
           Q == {"SurfaceFormat"}
           R == {"Extent"}
           S == {"Device", "SwapChainImages", "SwapChainImageFormat"}
           a == "SwapChainImages"
           b == "SwapChainImageFormat"
           c == "SwapChainExtent"
           d == "SwapChainImageViews"
           s == <<Makes(a, P), Makes(b, Q), Makes(c, R)>>
<1>1. Parented(a, P) /\ Parented(b, Q) /\ Parented(c, R) /\ Parented(d, S)
  BY DEF Parented, Names, Lasting, Temporary, Children
<1>2. Rank(a) = 12 /\ Rank(b) = 13 /\ Rank(c) = 14 /\ Rank(d) = 15
  BY DEF Rank
<1>3. Vk!create_image_views = <<Makes(a, P), Makes(b, Q), Makes(c, R), Makes(d, S)>>
  BY DEF Vk!create_image_views, Vk!Make, Makes
<1>4. /\ P \subseteq A /\ Q \subseteq A \cup {a} /\ R \subseteq A \cup {a, b}
      /\ S \subseteq A \cup {a, b, c}
  OBVIOUS
<1> HIDE DEF A, P, Q, R, S, a, b, c, d
<1>5. Rank(a) < Rank(b) /\ Rank(b) < Rank(c) /\ Rank(c) < Rank(d) /\ Rank(a) <= Rank(d)
  BY <1>2
<1>6. Orderly(s, A, Rank(a)) /\ Made(s) = {a, b, c}
  BY <1>1, <1>4, <1>5, OrderlyThree
<1>7. <<Makes(a, P), Makes(b, Q), Makes(c, R), Makes(d, S)>> = Append(s, Makes(d, S))
  OBVIOUS
<1> HIDE DEF s
<1>8. /\ S \subseteq A \cup Made(s) /\ Rank(d) >= Rank(a)
      /\ \A x \in Made(s) : Rank(x) < Rank(d)
  BY <1>2, <1>4, <1>6
<1>9. /\ Orderly(Append(s, Makes(d, S)), A, Rank(a))
      /\ Made(Append(s, Makes(d, S))) = Made(s) \cup {d}
  BY <1>1, <1>6, <1>8, OrderlyAppend
<1>10. Made(s) \cup {d} = {a, b, c, d}
  BY <1>6
<1> QED
  BY <1>2, <1>3, <1>7, <1>9, <1>10 DEF A, a, b, c, d

LEMMA RenderPassOrderly ==
  /\ Orderly(Vk!create_render_pass,
             {"Device", "SwapChainImageFormat"}, 16)
  /\ Made(Vk!create_render_pass) =
       {"RenderPass"}
<1>1. Parented("RenderPass",
               {"Device", "SwapChainImageFormat"}) /\ Rank("RenderPass") = 16
  BY DEF Parented, Names, Lasting, Temporary, Children, Rank
<1>2. Vk!create_render_pass =
        <<Makes("RenderPass",
                {"Device", "SwapChainImageFormat"})>>
  BY DEF Vk!create_render_pass, Vk!Make, Makes
<1> QED
  BY <1>1, <1>2, OrderlyOne

LEMMA PipelineOrderly ==
  /\ Orderly(Vk!create_pipeline,
             {"Device", "ShaderIDs", "SwapChainExtent", "RenderPass"}, 17)
  /\ Made(Vk!create_pipeline) =
       {"PipelineLayout", "GraphicsPipeline"}
<1>1. Parented("PipelineLayout",
               {"Device"}) /\ Rank("PipelineLayout") = 17
  BY DEF Parented, Names, Lasting, Temporary, Children, Rank
<1>2. Parented("GraphicsPipeline",
               {"Device", "ShaderIDs", "SwapChainExtent", "PipelineLayout", "RenderPass"}) /\ Rank("GraphicsPipeline") = 18
  BY DEF Parented, Names, Lasting, Temporary, Children, Rank
<1>3. Vk!create_pipeline =
        <<Makes("PipelineLayout",
                {"Device"}),
          Makes("GraphicsPipeline",
                {"Device", "ShaderIDs", "SwapChainExtent", "PipelineLayout", "RenderPass"})>>
  BY DEF Vk!create_pipeline, Vk!Make, Makes
<1> QED
  BY <1>1, <1>2, <1>3, OrderlyTwo

LEMMA FrameBufferOrderly ==
  /\ Orderly(Vk!create_frame_buffer,
             {"Device", "RenderPass", "SwapChainImageViews", "SwapChainExtent"}, 19)
  /\ Made(Vk!create_frame_buffer) =
       {"SwapChainFramebuffers"}
<1>1. Parented("SwapChainFramebuffers",
               {"Device", "RenderPass", "SwapChainImageViews", "SwapChainExtent"}) /\ Rank("SwapChainFramebuffers") = 19
  BY DEF Parented, Names, Lasting, Temporary, Children, Rank
<1>2. Vk!create_frame_buffer =
        <<Makes("SwapChainFramebuffers",
                {"Device", "RenderPass", "SwapChainImageViews", "SwapChainExtent"})>>
  BY DEF Vk!create_frame_buffer, Vk!Make, Makes
<1> QED
  BY <1>1, <1>2, OrderlyOne

LEMMA CommandPoolOrderly ==
  /\ Orderly(Vk!create_command_pool,
             {"Device", "Families"}, 20)
  /\ Made(Vk!create_command_pool) =
       {"CommandPool"}
<1>1. Parented("CommandPool",
               {"Device", "Families"}) /\ Rank("CommandPool") = 20
  BY DEF Parented, Names, Lasting, Temporary, Children, Rank
<1>2. Vk!create_command_pool =
        <<Makes("CommandPool",
                {"Device", "Families"})>>
  BY DEF Vk!create_command_pool, Vk!Make, Makes
<1> QED
  BY <1>1, <1>2, OrderlyOne

LEMMA CommandBuffersOrderly ==
  /\ Orderly(Vk!create_command_buffers,
             {"Device", "CommandPool", "SwapChainFramebuffers", "RenderPass",
             "SwapChainExtent", "GraphicsPipeline", "VertexBuffer", "IndexBuffer"}, 24)
  /\ Made(Vk!create_command_buffers) =
       {"CommandBuffers"}
<1>1. Parented("CommandBuffers",
               {"Device", "CommandPool", "SwapChainFramebuffers", "RenderPass", "SwapChainExtent", "GraphicsPipeline", "VertexBuffer", "IndexBuffer"}) /\ Rank("CommandBuffers") = 24
  BY DEF Parented, Names, Lasting, Temporary, Children, Rank
<1>2. Vk!create_command_buffers =
        <<Makes("CommandBuffers",
                {"Device", "CommandPool", "SwapChainFramebuffers", "RenderPass", "SwapChainExtent", "GraphicsPipeline", "VertexBuffer", "IndexBuffer"})>>
  BY DEF Vk!create_command_buffers, Vk!Make, Makes
<1> QED
  BY <1>1, <1>2, OrderlyOne

LEMMA InFlightOrderly ==
  /\ Orderly(Vk!resizeImagesInFlight,
             {"SwapChainImages"}, 25)
  /\ Made(Vk!resizeImagesInFlight) =
       {"ImagesInFlight"}
<1>1. Parented("ImagesInFlight",
               {"SwapChainImages"}) /\ Rank("ImagesInFlight") = 25
  BY DEF Parented, Names, Lasting, Temporary, Children, Rank
<1>2. Vk!resizeImagesInFlight =
        <<Makes("ImagesInFlight",
                {"SwapChainImages"})>>
  BY DEF Vk!resizeImagesInFlight, Vk!Make, Makes
<1> QED
  BY <1>1, <1>2, OrderlyOne

\* Two calls after one, and after three.
LEMMA JoinOne == \A c, d : <<c>> \o <<d>> = <<c, d>>
<1> SUFFICES ASSUME NEW c, NEW d
             PROVE  <<c>> \o <<d>> = <<c, d>>
  OBVIOUS
<1>1. <<c>> \in Seq({c, d}) /\ d \in {c, d}
  OBVIOUS
<1>2. <<c, d>> = Append(<<c>>, d)
  OBVIOUS
<1> QED
  BY <1>1, <1>2, AppendIsConcat

LEMMA JoinTwo == \A c, d, e, f, g : <<c, d, e>> \o <<f, g>> = <<c, d, e, f, g>>
<1> SUFFICES ASSUME NEW c, NEW d, NEW e, NEW f, NEW g
             PROVE  <<c, d, e>> \o <<f, g>> = <<c, d, e, f, g>>
  OBVIOUS
<1> DEFINE S == {c, d, e, f, g}
<1>1. ASSUME NEW s \in Seq(S)
      PROVE  s \o <<f, g>> = Append(Append(s, f), g)
  OBVIOUS
<1>2. <<c, d, e>> \in Seq(S)
  OBVIOUS
<1>3. <<c, d, e>> \o <<f, g>> = Append(Append(<<c, d, e>>, f), g)
  BY <1>1, <1>2
<1>4. <<c, d, e, f>> = Append(<<c, d, e>>, f)
  OBVIOUS
<1>5. <<c, d, e, f, g>> = Append(<<c, d, e, f>>, g)
  OBVIOUS
<1> QED
  BY <1>3, <1>4, <1>5

LEMMA SyncOrderly ==
  /\ Orderly(Vk!create_sync_objs, {"SwapChainImages", "Device"}, 25)
  /\ Made(Vk!create_sync_objs) = {"ImagesInFlight", "SyncObjects"}
<1>1. Parented("ImagesInFlight", {"SwapChainImages"}) /\ Rank("ImagesInFlight") = 25
  BY DEF Parented, Names, Lasting, Temporary, Children, Rank
<1>2. Parented("SyncObjects", {"Device"}) /\ Rank("SyncObjects") = 26
  BY DEF Parented, Names, Lasting, Temporary, Children, Rank
<1>3. Vk!create_sync_objs =
        <<Makes("ImagesInFlight", {"SwapChainImages"}), Makes("SyncObjects", {"Device"})>>
  <2> QED
    BY JoinOne DEF Vk!create_sync_objs, Vk!resizeImagesInFlight, Vk!Make, Makes
<1> QED
  BY <1>1, <1>2, <1>3, OrderlyTwo

\* create_buffers: the staging buffer and the command buffer come and go, twice.
LEMMA BufferedRuns ==
  ASSUME NEW v \in View, NEW b \in {"VertexBuffer", "IndexBuffer"}, NEW w \in View,
         {"Device", "PhysDevice", "CommandPool", "Queues"} \subseteq v.alive,
         w.alive \subseteq (v.alive \cup {b}) \ Temporary,
         (v.most \cup {b}) \ Temporary \subseteq w.most,
         (v.stale \cup {"CommandBuffers"}) \ ({b} \cup Temporary) \subseteq w.stale
  PROVE  Runs(Vk!Buffered(b), v, w)
<1> DEFINE P == {"Device", "PhysDevice"}
           Q == {"Device", "CommandPool", "Queues", "stagingBuffer", b}
           A == {"Device", "PhysDevice", "CommandPool", "Queues"}
           s == <<Makes("stagingBuffer", P), Makes(b, P), Makes("commandBuffer", Q)>>
           Destroys(o) == [op |-> "destroy", object |-> o, from |-> {}]
           t == <<Destroys("commandBuffer"), Destroys("stagingBuffer")>>
           M == {"stagingBuffer", b, "commandBuffer"}
           x == Remade(v, M)
<1>1. /\ Rank("stagingBuffer") = 21 /\ Rank(b) = 22 /\ Rank("commandBuffer") = 23
      /\ Parented("stagingBuffer", P) /\ Parented(b, P)
  BY DEF Parented, Names, Lasting, Temporary, Children, Rank
<1>2. Parented("commandBuffer", Q)
  <2>1. CASE b = "VertexBuffer"
    BY <2>1 DEF Parented, Names, Lasting, Temporary, Children
  <2>2. CASE b = "IndexBuffer"
    BY <2>2 DEF Parented, Names, Lasting, Temporary, Children
  <2> QED
    BY <2>1, <2>2
<1>3. Orderly(s, A, 21) /\ Made(s) = M
  <2>1. P \subseteq A /\ P \subseteq A \cup {"stagingBuffer"} /\ Q \subseteq A \cup {"stagingBuffer", b}
    OBVIOUS
  <2> HIDE DEF P, Q, A
  <2>2. Rank("stagingBuffer") < Rank(b) /\ Rank(b) < Rank("commandBuffer")
    BY <1>1
  <2> QED
    BY <1>1, <1>2, <2>1, <2>2, OrderlyThree
<1>4. Runs(s, Remade(v, {}), Remade(v, {} \cup M))
  BY <1>3, OrderlyRuns
<1>5. x \in View
  BY <1>1, RemadeView DEF Parented, Names, Temporary
<1>6. Runs(s, v, x)
  <2>1. Within(Remade(v, {}), v)
    BY DEF Within, Remade, Spoiled, View
  <2>2. Within(x, x) /\ {} \cup M = M
    BY DEF Within
  <2> HIDE DEF s, M
  <2> QED
    BY <1>4, <1>5, <2>1, <2>2, RunsWeaker
<1>7. Runs(t, x, Without(x, Made(t))) /\ Made(t) = Temporary
  <2>1. Destroys("commandBuffer") \in ObjectCall /\ Destroys("stagingBuffer") \in ObjectCall
    BY DEF ObjectCall, Names, Temporary
  <2>2. /\ t \in Seq(ObjectCall) /\ Len(t) = 2 /\ \A i \in 1..2 : t[i].op = "destroy"
        /\ t[1].object = "commandBuffer" /\ t[2].object = "stagingBuffer"
    BY <2>1
  <2>3. "commandBuffer" \in x.alive /\ "stagingBuffer" \in x.alive
    BY DEF Remade
  <2>4. "commandBuffer" \notin Vk!Handles /\ "stagingBuffer" \notin Vk!Handles
    BY DEF Vk!Handles
  <2> HIDE DEF t, x
  <2>5. Runs(t, x, Without(x, Made(t)))
    <3>1. \A i \in 1..Len(t) : i = 1 \/ i = 2
      BY <2>2
    <3>2. \A i \in 1..Len(t) : t[i].op = "destroy" /\ t[i].object \in x.alive
      BY <2>2, <2>3, <3>1
    <3>3. \A i \in 1..Len(t) : \A j \in 1..(i - 1) : t[j].object # t[i].object
      BY <2>2, <3>1
    <3>4. \A i \in 1..Len(t) : t[i].object \notin Vk!Handles
      BY <2>2, <2>4, <3>1
    <3> QED
      BY <1>5, <2>2, <3>2, <3>3, <3>4, DestroysRun
  <2> QED
    BY <2>2, <2>5 DEF Made, Temporary
<1>8. Within(w, Without(x, Temporary))
  <2>1. Spoiled(M) \subseteq {"CommandBuffers"} \cup Temporary
    BY DEF Spoiled, Children, Temporary
  <2> QED
    BY <2>1 DEF Within, Without, Remade, View, Temporary
<1>9. Runs(s \o t, v, w)
  <2>1. Within(x, x)
    BY DEF Within
  <2> HIDE DEF s, t, x
  <2>2. Runs(s \o t, v, Without(x, Temporary))
    BY <1>6, <1>7, <2>1, RunsJoined
  <2>3. Within(v, v)
    BY DEF Within
  <2> QED
    BY <1>8, <2>2, <2>3, RunsWeaker
<1>10. Vk!Buffered(b) = s \o t
  <2>1. \A c, d, e, f, g : <<c, d, e>> \o <<f, g>> = <<c, d, e, f, g>>
    BY JoinTwo
  <2>2. Vk!Buffered(b) = <<Makes("stagingBuffer", P), Makes(b, P), Makes("commandBuffer", Q),
                                    Destroys("commandBuffer"), Destroys("stagingBuffer")>>
    BY DEF Vk!Buffered, Vk!Make, Vk!Destroy, Makes
  <2> QED
    BY <2>1, <2>2
<1> QED
  BY <1>9, <1>10

\* The objects of S that are made before the n-th.
Below(S, n) == {o \in S : Rank(o) < n}

\* What the objects of each rank add.
LEMMA BelowGrows ==
  ASSUME NEW S \in SUBSET Lasting
  PROVE  /\ Below(S, 1) = {}
         /\ Lasting \subseteq S => /\ Below(S, 2) = Below(S, 1) \cup {"Wnd"}
                                   /\ Below(S, 4) = Below(S, 2) \cup {"Instance", "Surface"}
                                   /\ Below(S, 5) = Below(S, 4) \cup {"PhysDevice"}
                                   /\ Below(S, 6) = Below(S, 5) \cup {"Families"}
                                   /\ Below(S, 8) = Below(S, 6) \cup {"Device", "Queues"}
                                   /\ Below(S, 9) = Below(S, 8) \cup {"ShaderIDs"}
                                   /\ Below(S, 21) = Below(S, 20) \cup {"CommandPool"}
                                   /\ Below(S, 23) = Below(S, 21) \cup {"VertexBuffer", "IndexBuffer"}
                                   /\ Below(S, 27) = Below(S, 25) \cup {"ImagesInFlight", "SyncObjects"}
                                   /\ Below(S, 27) = Lasting
         /\ {"SurfaceFormat", "Extent", "SwapChain"} \subseteq S =>
              Below(S, 12) = Below(S, 9) \cup {"SurfaceFormat", "Extent", "SwapChain"}
         /\ {"SwapChainImages", "SwapChainImageFormat", "SwapChainExtent", "SwapChainImageViews"} \subseteq S =>
              Below(S, 16) = Below(S, 12) \cup {"SwapChainImages", "SwapChainImageFormat", "SwapChainExtent",
                                                "SwapChainImageViews"}
         /\ "RenderPass" \in S => Below(S, 17) = Below(S, 16) \cup {"RenderPass"}
         /\ {"PipelineLayout", "GraphicsPipeline"} \subseteq S =>
              Below(S, 19) = Below(S, 17) \cup {"PipelineLayout", "GraphicsPipeline"}
         /\ "SwapChainFramebuffers" \in S => Below(S, 20) = Below(S, 19) \cup {"SwapChainFramebuffers"}
         /\ "CommandBuffers" \in S => Below(S, 25) = Below(S, 24) \cup {"CommandBuffers"}
         /\ "ImagesInFlight" \in S => Below(S, 26) = Below(S, 25) \cup {"ImagesInFlight"}
         /\ Below(S, 23) = Below(S, 24)
         /\ {"CommandPool", "VertexBuffer", "IndexBuffer"} \cap S = {} => Below(S, 24) = Below(S, 20)
<1> USE DEF Below, Rank, Lasting
<1>1. Below(S, 1) = {}
  OBVIOUS
<1>2. ASSUME Lasting \subseteq S
      PROVE  /\ Below(S, 2) = Below(S, 1) \cup {"Wnd"}
             /\ Below(S, 4) = Below(S, 2) \cup {"Instance", "Surface"}
             /\ Below(S, 5) = Below(S, 4) \cup {"PhysDevice"}
             /\ Below(S, 6) = Below(S, 5) \cup {"Families"}
             /\ Below(S, 8) = Below(S, 6) \cup {"Device", "Queues"}
             /\ Below(S, 9) = Below(S, 8) \cup {"ShaderIDs"}
  BY <1>2
<1>3. ASSUME Lasting \subseteq S
      PROVE  /\ Below(S, 21) = Below(S, 20) \cup {"CommandPool"}
             /\ Below(S, 23) = Below(S, 21) \cup {"VertexBuffer", "IndexBuffer"}
             /\ Below(S, 27) = Below(S, 25) \cup {"ImagesInFlight", "SyncObjects"}
             /\ Below(S, 27) = Lasting
  BY <1>3
<1>4. {"SurfaceFormat", "Extent", "SwapChain"} \subseteq S =>
        Below(S, 12) = Below(S, 9) \cup {"SurfaceFormat", "Extent", "SwapChain"}
  OBVIOUS
<1>5. {"SwapChainImages", "SwapChainImageFormat", "SwapChainExtent", "SwapChainImageViews"} \subseteq S =>
        Below(S, 16) = Below(S, 12) \cup {"SwapChainImages", "SwapChainImageFormat", "SwapChainExtent",
                                          "SwapChainImageViews"}
  OBVIOUS
<1>6. /\ "RenderPass" \in S => Below(S, 17) = Below(S, 16) \cup {"RenderPass"}
      /\ {"PipelineLayout", "GraphicsPipeline"} \subseteq S =>
           Below(S, 19) = Below(S, 17) \cup {"PipelineLayout", "GraphicsPipeline"}
      /\ "SwapChainFramebuffers" \in S => Below(S, 20) = Below(S, 19) \cup {"SwapChainFramebuffers"}
  OBVIOUS
<1>7. /\ "CommandBuffers" \in S => Below(S, 25) = Below(S, 24) \cup {"CommandBuffers"}
      /\ "ImagesInFlight" \in S => Below(S, 26) = Below(S, 25) \cup {"ImagesInFlight"}
      /\ Below(S, 23) = Below(S, 24)
      /\ {"CommandPool", "VertexBuffer", "IndexBuffer"} \cap S = {} => Below(S, 24) = Below(S, 20)
  OBVIOUS
<1> QED
  <2> HIDE DEF Below, Rank, Lasting
  <2> QED
    BY <1>1, <1>2, <1>3, <1>4, <1>5, <1>6, <1>7

\* What is made before the n-th object is part of what is made.
LEMMA BelowPart == \A S \in SUBSET Lasting : \A n \in Nat :
                     Below(S, n) \in SUBSET Names /\ \A o \in Below(S, n) : Rank(o) < n
BY DEF Below, Names

\* A run that has made the objects of S up to rank m makes those up to rank n.
LEMMA RunsUpTo ==
  ASSUME NEW s, NEW t, NEW u, NEW v \in View, NEW S \in SUBSET Lasting, NEW A, NEW m \in Nat, NEW n,
         Runs(s, u, Remade(v, Below(S, m))),
         Orderly(t, A, m), A \subseteq v.alive \cup Below(S, m),
         Below(S, n) = Below(S, m) \cup Made(t)
  PROVE  Runs(s \o t, u, Remade(v, Below(S, n)))
<1>1. Below(S, m) \in SUBSET Names /\ \A o \in Below(S, m) : Rank(o) < m
  BY BelowPart
<1>2. Runs(s \o t, u, Remade(v, Below(S, m) \cup Made(t)))
  BY <1>1, RunsOn
<1> QED
  BY <1>2

\* Before the first call nothing is alive; at the end everything is but what was
\* temporary, and nothing else is stale.
Start == [alive |-> {}, most |-> {}, stale |-> {}]
Ready == [alive |-> Lasting, most |-> Lasting, stale |-> Temporary]

\* What each function needs was made before it.
LEMMA Needs ==
  /\ {"Wnd"} \subseteq Below(Lasting, 2)
  /\ {"Instance"} \subseteq Below(Lasting, 4)
  /\ {"PhysDevice", "Surface"} \subseteq Below(Lasting, 5)
  /\ {"PhysDevice", "Families"} \subseteq Below(Lasting, 6)
  /\ {"Device"} \subseteq Below(Lasting, 8)
  /\ {"PhysDevice", "Surface", "Wnd", "Device", "Families"} \subseteq Below(Lasting, 9)
  /\ {"Device", "SwapChain", "SurfaceFormat", "Extent"} \subseteq Below(Lasting, 12)
  /\ {"Device", "SwapChainImageFormat"} \subseteq Below(Lasting, 16)
  /\ {"Device", "ShaderIDs", "SwapChainExtent", "RenderPass"} \subseteq Below(Lasting, 17)
  /\ {"Device", "RenderPass", "SwapChainImageViews", "SwapChainExtent"} \subseteq Below(Lasting, 19)
  /\ {"Device", "Families"} \subseteq Below(Lasting, 20)
  /\ {"Device", "PhysDevice", "CommandPool", "Queues"} \subseteq Below(Lasting, 21)
  /\ {"Device", "CommandPool", "SwapChainFramebuffers", "RenderPass", "SwapChainExtent",
      "GraphicsPipeline", "VertexBuffer", "IndexBuffer"} \subseteq Below(Lasting, 24)
  /\ {"SwapChainImages", "Device"} \subseteq Below(Lasting, 25)
BY DEF Below, Rank, Lasting

\* The calls of main up to the loop are in order, and make everything.
LEMMA MainRuns == Runs(Vk!main, Start, Ready)
<1> USE DEF Vk!main
<1> DEFINE S == Lasting
           V == Start
           P(n) == Remade(V, Below(S, n))
           a == Vk!initialize_window
           b == a \o Vk!create_instance
           c == b \o Vk!peek_device
           d == c \o Vk!find_queues
           e == d \o Vk!create_logical_device
           f == e \o Vk!installShader
           g == f \o Vk!create_swap_chain
           h == g \o Vk!create_image_views
           i == h \o Vk!create_render_pass
           j == i \o Vk!create_pipeline
           k == j \o Vk!create_frame_buffer
           l == k \o Vk!create_command_pool
<1>0. V \in View /\ V.alive = {} /\ S \in SUBSET Lasting /\ Lasting \subseteq S
  BY DEF Start, View
<1>00. /\ {"SurfaceFormat", "Extent", "SwapChain"} \subseteq S
       /\ {"SwapChainImages", "SwapChainImageFormat", "SwapChainExtent", "SwapChainImageViews"} \subseteq S
       /\ {"PipelineLayout", "GraphicsPipeline"} \subseteq S
       /\ "RenderPass" \in S /\ "SwapChainFramebuffers" \in S /\ "CommandBuffers" \in S
  BY DEF Lasting
<1>1. Runs(a, V, P(2))
  <2>1. Runs(a, Remade(V, {}), Remade(V, {} \cup {"Wnd"}))
    BY <1>0, OrderlyRuns, WindowOrderly
  <2>2. Remade(V, {}) = V
    BY DEF Remade, Start, Spoiled
  <2>3. Below(S, 2) = {} \cup {"Wnd"}
    BY BelowGrows
  <2> QED
    BY <2>1, <2>2, <2>3
<1> HIDE DEF a
<1>2. Runs(b, V, P(4))
  BY <1>0, <1>1, RunsUpTo, InstanceOrderly, BelowGrows, Needs
<1> HIDE DEF b
<1>3. Runs(c, V, P(5))
  BY <1>0, <1>2, RunsUpTo, PhysDeviceOrderly, BelowGrows, Needs
<1> HIDE DEF c
<1>4. Runs(d, V, P(6))
  BY <1>0, <1>3, RunsUpTo, QueuesOrderly, BelowGrows, Needs
<1> HIDE DEF d
<1>5. Runs(e, V, P(8))
  BY <1>0, <1>4, RunsUpTo, DeviceOrderly, BelowGrows, Needs
<1> HIDE DEF e
<1>6. Runs(f, V, P(9))
  BY <1>0, <1>5, RunsUpTo, ShaderOrderly, BelowGrows, Needs
<1> HIDE DEF f
<1>7. Runs(g, V, P(12))
  BY <1>0, <1>00, <1>6, RunsUpTo, SwapChainOrderly, BelowGrows, Needs
<1> HIDE DEF g
<1>8. Runs(h, V, P(16))
  BY <1>0, <1>00, <1>7, RunsUpTo, ViewsOrderly, BelowGrows, Needs
<1> HIDE DEF h
<1>9. Runs(i, V, P(17))
  BY <1>0, <1>00, <1>8, RunsUpTo, RenderPassOrderly, BelowGrows, Needs
<1> HIDE DEF i
<1>10. Runs(j, V, P(19))
  BY <1>0, <1>00, <1>9, RunsUpTo, PipelineOrderly, BelowGrows, Needs
<1> HIDE DEF j
<1>11. Runs(k, V, P(20))
  BY <1>0, <1>00, <1>10, RunsUpTo, FrameBufferOrderly, BelowGrows, Needs
<1> HIDE DEF k
<1>12. Runs(l, V, P(21))
  BY <1>0, <1>11, RunsUpTo, CommandPoolOrderly, BelowGrows, Needs
<1> HIDE DEF l
<1> DEFINE W == [alive |-> P(21).alive \cup {"VertexBuffer"}, most |-> P(21).most \cup {"VertexBuffer"},
                 stale |-> (P(21).stale \cup {"CommandBuffers"}) \ ({"VertexBuffer"} \cup Temporary)]
           m == l \o Vk!create_buffers
           n == m \o Vk!create_command_buffers
           o == n \o Vk!create_sync_objs
<1>13. \A q \in Nat : P(q) \in View /\ Within(P(q), P(q))
  BY <1>0, BelowPart, RemadeView DEF Within
<1>14. W \in View
  BY <1>13 DEF View, Names, Lasting
<1>15. Runs(Vk!create_buffers, P(21), P(24))
  <2>1. /\ "CommandBuffers" \in Spoiled(Below(S, 24)) /\ Spoiled(Below(S, 21)) \subseteq Spoiled(Below(S, 24))
        /\ "CommandBuffers" \notin Below(S, 24)
        /\ Below(S, 24) = (Below(S, 21) \cup {"VertexBuffer"}) \cup {"IndexBuffer"}
        /\ Below(S, 24) \cap Temporary = {}
        /\ Below(S, 21) \cap Temporary = {}
    <3>1. Below(S, 24) = (Below(S, 21) \cup {"VertexBuffer"}) \cup {"IndexBuffer"}
      BY BelowGrows
    <3>2. "CommandBuffers" \in Children("VertexBuffer")
      BY DEF Children
    <3>3. "CommandBuffers" \notin Below(S, 24)
      BY DEF Below, Rank
    <3>4. Below(S, 24) \cap Temporary = {} /\ Below(S, 21) \cap Temporary = {}
      BY DEF Below, Lasting, Temporary
    <3> QED
      BY <3>1, <3>2, <3>3, <3>4 DEF Spoiled
  <2>2. Runs(Vk!Buffered("VertexBuffer"), P(21), W)
    <3>1. {"Device", "PhysDevice", "CommandPool", "Queues"} \subseteq P(21).alive
      BY Needs DEF Remade
    <3>2. W.alive \subseteq (P(21).alive \cup {"VertexBuffer"}) \ Temporary
      BY <2>1, <1>0 DEF Remade, Temporary
    <3> QED
      BY <3>1, <3>2, <1>13, <1>14, BufferedRuns
  <2>3. Runs(Vk!Buffered("IndexBuffer"), W, P(24))
    <3>1. {"Device", "PhysDevice", "CommandPool", "Queues"} \subseteq W.alive
      BY Needs DEF Remade
    <3>2. P(24).alive \subseteq (W.alive \cup {"IndexBuffer"}) \ Temporary
      BY <2>1, <1>0 DEF Remade
    <3>3. (W.most \cup {"IndexBuffer"}) \ Temporary \subseteq P(24).most
      BY <2>1, <1>0 DEF Remade
    <3>4. (W.stale \cup {"CommandBuffers"}) \ ({"IndexBuffer"} \cup Temporary) \subseteq P(24).stale
      BY <2>1, <1>0 DEF Remade
    <3> HIDE DEF W, P
    <3> QED
      BY <3>1, <3>2, <3>3, <3>4, <1>13, <1>14, BufferedRuns
  <2>4. Within(W, W)
    BY DEF Within
  <2> HIDE DEF W, P
  <2> QED
    BY <2>2, <2>3, <2>4, RunsJoined DEF Vk!create_buffers
<1>16. Runs(m, V, P(24))
  BY <1>12, <1>13, <1>15, RunsJoined
<1> HIDE DEF m
<1>17. Runs(n, V, P(25))
  BY <1>0, <1>00, <1>16, RunsUpTo, CommandBuffersOrderly, BelowGrows, Needs
<1> HIDE DEF n
<1>18. Runs(o, V, P(27))
  BY <1>0, <1>17, RunsUpTo, SyncOrderly, BelowGrows, Needs
<1>19. Within(Ready, P(27))
  <2>1. Below(S, 27) = Lasting
    BY BelowGrows
  <2>2. Spoiled(Lasting) \ Lasting \subseteq Temporary
    BY ChildrenNamed DEF Spoiled, Names
  <2> QED
    BY <2>1, <2>2, <1>0 DEF Within, Ready, Remade, Start
<1>20. Ready \in View
  BY DEF Ready, View, Names
<1>21. Runs(o, V, Ready)
  <2>1. Within(V, V)
    BY DEF Within
  <2> HIDE DEF o, P
  <2> QED
    BY <1>0, <1>18, <1>19, <1>20, <2>1, RunsWeaker
<1>22. Vk!main = o
  BY DEF a, b, c, d, e, f, g, h, i, j, k, l, m, n
<1> QED
  BY <1>21, <1>22

\* What cleanup_swap_chain destroys, and what update_swap_chain makes anew.
Cleaned == {"SwapChainFramebuffers", "CommandBuffers", "GraphicsPipeline", "PipelineLayout",
            "RenderPass", "SwapChainImageViews", "SwapChain"}
Replaced == {"SurfaceFormat", "Extent", "SwapChain", "SwapChainImages", "SwapChainImageFormat",
             "SwapChainExtent", "SwapChainImageViews", "RenderPass", "PipelineLayout",
             "GraphicsPipeline", "SwapChainFramebuffers", "CommandBuffers", "ImagesInFlight"}

Destroys(o) == [op |-> "destroy", object |-> o, from |-> {}]

\* A destruction is a call.
LEMMA DestroysCall == \A o \in Names : /\ Destroys(o) \in ObjectCall
                                       /\ Destroys(o).op = "destroy" /\ Destroys(o).object = o
BY DEF Destroys, ObjectCall

\* cleanup_swap_chain is in order when everything is there.
LEMMA CleanupRuns ==
  ASSUME NEW v \in View, Cleaned \subseteq v.alive
  PROVE  Runs(Vk!cleanup_swap_chain, v, Without(v, Cleaned))
<1> DEFINE s == Vk!cleanup_swap_chain
<1>1. s = <<Destroys("SwapChainFramebuffers"), Destroys("CommandBuffers"),
            Destroys("GraphicsPipeline"), Destroys("PipelineLayout"), Destroys("RenderPass"),
            Destroys("SwapChainImageViews"), Destroys("SwapChain")>>
  BY DEF Vk!cleanup_swap_chain, Vk!Destroy, Destroys
<1>2. Cleaned \subseteq Names
  BY DEF Cleaned, Names, Lasting
<1>3. \A o \in Cleaned : Destroys(o) \in ObjectCall
  BY <1>2, DestroysCall
<1>4. s \in Seq(ObjectCall) /\ Len(s) = 7
  BY <1>1, <1>3 DEF Cleaned
<1>5. /\ s[1].object = "SwapChainFramebuffers" /\ s[2].object = "CommandBuffers"
      /\ s[3].object = "GraphicsPipeline" /\ s[4].object = "PipelineLayout"
      /\ s[5].object = "RenderPass" /\ s[6].object = "SwapChainImageViews"
      /\ s[7].object = "SwapChain"
  BY <1>1 DEF Destroys
<1>6. \A i \in 1..7 : s[i].op = "destroy"
  BY <1>1 DEF Destroys
<1> HIDE DEF s
<1>7. Made(s) = Cleaned
  BY <1>4, <1>5 DEF Made, Cleaned
<1>8. \A i \in 1..7 : s[i].object \in v.alive
  BY <1>4, <1>7 DEF Made
<1>9. \A i \in 1..7 : \A j \in 1..(i - 1) : s[j].object # s[i].object
  BY <1>5
<1>10. /\ Held("SwapChainFramebuffers") = {} /\ "CommandBuffers" \notin Vk!Handles
       /\ Held("GraphicsPipeline") = {} /\ Held("PipelineLayout") \subseteq {"GraphicsPipeline"}
       /\ Held("RenderPass") \subseteq {"GraphicsPipeline", "SwapChainFramebuffers"}
       /\ Held("SwapChainImageViews") \subseteq {"SwapChainFramebuffers"}
       /\ Held("SwapChain") = {}
  BY DEF Held, Children, Vk!Handles
<1>11. \A i \in 1..7 : s[i].object \in Vk!Handles =>
         \A x \in Held(s[i].object) : \E j \in 1..(i - 1) : x = s[j].object
  BY <1>5, <1>10
<1>12. Runs(s, v, Without(v, Made(s)))
  <2>1. \A i \in 1..Len(s) : s[i].op = "destroy" /\ s[i].object \in v.alive
    BY <1>4, <1>6, <1>8
  <2>2. \A i \in 1..Len(s) : \A j \in 1..(i - 1) : s[j].object # s[i].object
    BY <1>4, <1>9
  <2>3. \A i \in 1..Len(s) : s[i].object \in Vk!Handles =>
          \A x \in Held(s[i].object) \cap v.most : \E j \in 1..(i - 1) : x = s[j].object
    BY <1>4, <1>11
  <2> QED
    BY <1>4, <2>1, <2>2, <2>3, DestroysRun
<1> QED
  BY <1>7, <1>12 DEF s

\* ~VkApp is in order whatever there is.
Everything == [alive |-> Lasting, most |-> Names, stale |-> Names]

\* ~VkApp is in order when all that lasts is there.
LEMMA DestructorRuns ==
  /\ \E w \in View : Runs(Vk!destructor, Everything, w)
  /\ \A i \in 1..Len(Vk!destructor) : Vk!destructor[i].op = "destroy"
<1> DEFINE s == <<Destroys("Device"), Destroys("Surface"), Destroys("Instance"), Destroys("Wnd")>>
           v == Without(Everything, Cleaned)
           c == Vk!cleanup_swap_chain
<1>1. Everything \in View /\ v \in View
  BY DEF Everything, View, Without, Names
<1>2. Runs(c, Everything, v)
  BY <1>1, CleanupRuns DEF Cleaned, Everything, Lasting
<1>3. {"Device", "Surface", "Instance", "Wnd"} \subseteq Lasting \ Cleaned
  BY DEF Lasting, Cleaned
<1>4. s \in Seq(ObjectCall) /\ Len(s) = 4
  BY <1>3, DestroysCall DEF Names
<1>5. /\ s[1].object = "Device" /\ s[2].object = "Surface" /\ s[3].object = "Instance"
      /\ s[4].object = "Wnd" /\ \A i \in 1..4 : s[i].op = "destroy"
  BY DEF Destroys
<1> HIDE DEF s
<1>6. \A i \in 1..4 : s[i].object \in v.alive
  BY <1>3, <1>5 DEF Without, Everything
<1>7. /\ Held("Device") \subseteq Cleaned /\ Held("Surface") \subseteq Cleaned
      /\ Held("Instance") \subseteq {"Surface"} /\ Held("Wnd") \subseteq {"Surface"}
  BY DEF Held, Children, Vk!Handles, Vk!Abandoned, Cleaned
<1>8. v.most \cap Cleaned = {}
  BY DEF Without
<1> HIDE DEF v
<1>9. \A i \in 1..4 : s[i].object \in Vk!Handles =>
        \A x \in Held(s[i].object) \cap v.most : \E j \in 1..(i - 1) : x = s[j].object
  BY <1>5, <1>7, <1>8
<1>10. \A i \in 1..4 : \A j \in 1..(i - 1) : s[j].object # s[i].object
  BY <1>5
<1>11. Runs(s, v, Without(v, Made(s)))
  <2>1. \A i \in 1..Len(s) : s[i].op = "destroy" /\ s[i].object \in v.alive
    BY <1>4, <1>5, <1>6
  <2>2. \A i \in 1..Len(s) : \A j \in 1..(i - 1) : s[j].object # s[i].object
    BY <1>4, <1>10
  <2>3. \A i \in 1..Len(s) : s[i].object \in Vk!Handles =>
          \A x \in Held(s[i].object) \cap v.most : \E j \in 1..(i - 1) : x = s[j].object
    BY <1>4, <1>9
  <2> QED
    BY <1>1, <1>4, <2>1, <2>2, <2>3, DestroysRun
<1>12. Vk!destructor = c \o s
  BY DEF Vk!destructor, Vk!Destroy, Destroys, s
<1>13. Runs(Vk!destructor, Everything, Without(v, Made(s)))
  <2>1. Within(v, v)
    BY DEF Within
  <2> QED
    BY <1>2, <1>11, <1>12, <2>1, RunsJoined
<1>14. ASSUME NEW i \in 1..Len(Vk!destructor)
       PROVE  Vk!destructor[i].op = "destroy"
  <2>1. c \in Seq(ObjectCall) /\ \A j \in 1..Len(c) : c[j].op = "destroy"
    <3>1. c \in Seq(ObjectCall)
      BY <1>2 DEF Runs
    <3> QED
      BY <3>1 DEF Vk!cleanup_swap_chain, Vk!Destroy
  <2> HIDE DEF c
  <2>4. /\ Len(Vk!destructor) = Len(c) + 4
        /\ \A j \in 1..(Len(c) + 4) :
             Vk!destructor[j] = IF j <= Len(c) THEN c[j] ELSE s[j - Len(c)]
    <3>1. /\ Len(c \o s) = Len(c) + Len(s)
          /\ \A j \in 1..(Len(c) + Len(s)) : (c \o s)[j] = IF j <= Len(c) THEN c[j] ELSE s[j - Len(c)]
      BY <2>1, <1>4, ConcatProperties
    <3> QED
      BY <3>1, <1>4, <1>12
  <2>2. CASE i <= Len(c)
    BY <2>1, <2>2, <2>4
  <2>3. CASE ~(i <= Len(c))
    <3>1. i - Len(c) \in 1..4 /\ Vk!destructor[i] = s[i - Len(c)]
      BY <2>1, <2>3, <2>4
    <3> QED
      BY <3>1, <1>5
  <2> QED
    BY <2>2, <2>3
<1> QED
  BY <1>13, <1>14 DEF Runs

\* update_swap_chain is in order, and leaves everything there and fresh.
LEMMA UpdateRuns == Runs(Vk!update_swap_chain, Ready, Ready)
<1> DEFINE S == Replaced
           V == Without(Ready, Cleaned)
           P(n) == Remade(V, Below(S, n))
           f == Vk!cleanup_swap_chain
           g == f \o Vk!create_swap_chain
           h == g \o Vk!create_image_views
           i == h \o Vk!create_render_pass
           j == i \o Vk!create_pipeline
           k == j \o Vk!create_frame_buffer
           n == k \o Vk!create_command_buffers
           o == n \o Vk!resizeImagesInFlight
<1>1. Ready \in View /\ V \in View /\ V.alive = Lasting \ Cleaned
  BY DEF Ready, View, Without, Names
<1>2. /\ {"SurfaceFormat", "Extent", "SwapChain"} \subseteq S
      /\ {"SwapChainImages", "SwapChainImageFormat", "SwapChainExtent", "SwapChainImageViews"} \subseteq S
      /\ {"PipelineLayout", "GraphicsPipeline"} \subseteq S
      /\ "RenderPass" \in S /\ "SwapChainFramebuffers" \in S /\ "CommandBuffers" \in S
      /\ "ImagesInFlight" \in S /\ S \in SUBSET Lasting
      /\ {"CommandPool", "VertexBuffer", "IndexBuffer"} \cap S = {}
  BY DEF Lasting, Replaced
<1>3. /\ {"PhysDevice", "Surface", "Wnd", "Device", "Families"} \subseteq V.alive
      /\ {"Device", "SwapChain", "SurfaceFormat", "Extent"} \subseteq V.alive \cup Below(S, 12)
      /\ {"Device", "SwapChainImageFormat"} \subseteq V.alive \cup Below(S, 16)
      /\ {"Device", "ShaderIDs", "SwapChainExtent", "RenderPass"} \subseteq V.alive \cup Below(S, 17)
      /\ {"Device", "RenderPass", "SwapChainImageViews", "SwapChainExtent"}
           \subseteq V.alive \cup Below(S, 19)
      /\ {"Device", "CommandPool", "SwapChainFramebuffers", "RenderPass", "SwapChainExtent",
          "GraphicsPipeline", "VertexBuffer", "IndexBuffer"} \subseteq V.alive \cup Below(S, 24)
      /\ {"SwapChainImages"} \subseteq V.alive \cup Below(S, 25)
  BY <1>1 DEF Below, Rank, Lasting, Replaced, Cleaned
<1>4. Runs(f, Ready, P(9))
  <2>1. Runs(f, Ready, V)
    BY <1>1, CleanupRuns DEF Ready, Cleaned, Lasting
  <2>2. Below(S, 9) = {}
    BY DEF Below, Rank, Replaced
  <2>3. Remade(V, {}) = V
    BY DEF Remade, Spoiled, Without
  <2> QED
    BY <2>1, <2>2, <2>3
<1> HIDE DEF f
<1>7. Runs(g, Ready, P(12))
  BY <1>1, <1>2, <1>3, <1>4, RunsUpTo, SwapChainOrderly, BelowGrows
<1> HIDE DEF g
<1>8. Runs(h, Ready, P(16))
  BY <1>1, <1>2, <1>3, <1>7, RunsUpTo, ViewsOrderly, BelowGrows
<1> HIDE DEF h
<1>9. Runs(i, Ready, P(17))
  BY <1>1, <1>2, <1>3, <1>8, RunsUpTo, RenderPassOrderly, BelowGrows
<1> HIDE DEF i
<1>10. Runs(j, Ready, P(19))
  BY <1>1, <1>2, <1>3, <1>9, RunsUpTo, PipelineOrderly, BelowGrows
<1> HIDE DEF j
<1>11. Runs(k, Ready, P(20))
  BY <1>1, <1>2, <1>3, <1>10, RunsUpTo, FrameBufferOrderly, BelowGrows
<1> HIDE DEF k
<1>12. Runs(n, Ready, P(25))
  <2>1. Below(S, 24) = Below(S, 20)
    BY <1>2, BelowGrows
  <2> QED
    BY <2>1, <1>1, <1>2, <1>3, <1>11, RunsUpTo, CommandBuffersOrderly, BelowGrows
<1> HIDE DEF n
<1>13. Runs(o, Ready, P(26))
  BY <1>1, <1>2, <1>3, <1>12, RunsUpTo, InFlightOrderly, BelowGrows
<1>14. Within(Ready, P(26))
  <2>1. Below(S, 26) = Replaced
    BY DEF Below, Rank, Replaced
  <2>2. Spoiled(Replaced) \subseteq Replaced \cup Temporary
    BY DEF Spoiled, Children, Replaced, Temporary
  <2>3. Lasting \subseteq (Lasting \ Cleaned) \cup Replaced /\ Replaced \subseteq Lasting
    BY DEF Cleaned, Replaced, Lasting
  <2> QED
    BY <2>1, <2>2, <2>3 DEF Within, Ready, Remade, Without
<1>15. Runs(o, Ready, Ready)
  <2>1. Within(Ready, Ready)
    BY DEF Within
  <2> HIDE DEF o, P
  <2> QED
    BY <1>1, <1>13, <1>14, <2>1, RunsWeaker
<1>16. Vk!update_swap_chain = o
  BY DEF Vk!update_swap_chain, f, g, h, i, j, k, n
<1> QED
  BY <1>15, <1>16

-----------------------------------------------------------------------------
(* The state of vk-simplest.                                               *)

\* A set of naturals has a smallest element.
LEMMA Smallest ==
  ASSUME NEW T \in SUBSET Nat, T # {}
  PROVE  \E x \in T : \A y \in T : x <= y
<1>1. PICK x \in T : \A y \in T : <<y, x>> \notin OpToRel(<, Nat)
  BY NatLessThanWellFounded, WFMin, Zenon
<1>2. \A y \in T : ~(y < x)
  BY <1>1, Zenon DEF OpToRel
<1> QED
  BY <1>2

\* What is alive at the end of a run and was not at its start is made by one of its calls.
LEMMA RunsMake ==
  ASSUME NEW s, NEW v, NEW w, Runs(s, v, w), NEW o \in w.alive, o \notin v.alive
  PROVE  o \in Made(s)
<1>1. PICK g : IsRun(g, s, v, w)
  BY DEF Runs
<1>2. s \in Seq(ObjectCall) /\ Len(s) \in Nat
  BY DEF Runs
<1> DEFINE T == {i \in 0..Len(s) : o \in g[i].alive}
<1>3. Len(s) \in T
  BY <1>1, <1>2 DEF IsRun, Within
<1>4. PICK i \in T : \A j \in T : i <= j
  <2>1. T \in SUBSET Nat /\ T # {}
    BY <1>2, <1>3
  <2> HIDE DEF T
  <2> QED
    BY <2>1, Smallest
<1>5. i # 0
  BY <1>1, <1>4 DEF IsRun, Within
<1>6. i \in 1..Len(s) /\ i - 1 \in 0..Len(s) /\ i - 1 \notin T
  BY <1>2, <1>4, <1>5
<1>7. o \in g[i].alive /\ o \notin g[i - 1].alive
  BY <1>6
<1>8. Follows(s[i], g[i - 1], g[i])
  BY <1>1, <1>6 DEF IsRun
<1>9. o = s[i].object
  BY <1>7, <1>8 DEF Follows
<1> QED
  BY <1>6, <1>9 DEF Made

\* Two runs make what each makes.
LEMMA MadeBoth ==
  ASSUME NEW s \in Seq(ObjectCall), NEW t \in Seq(ObjectCall)
  PROVE  Made(s) \subseteq Made(s \o t) /\ Made(t) \subseteq Made(s \o t)
<1>1. /\ Len(s) \in Nat /\ Len(t) \in Nat /\ Len(s \o t) = Len(s) + Len(t)
      /\ \A i \in 1..Len(s) : (s \o t)[i] = s[i] /\ i \in 1..(Len(s) + Len(t))
      /\ \A i \in 1..Len(t) : (s \o t)[Len(s) + i] = t[i] /\ Len(s) + i \in 1..(Len(s) + Len(t))
  OBVIOUS
<1> DEFINE u == s \o t
<1> HIDE DEF u
<1>2. ASSUME NEW i \in 1..Len(s) PROVE s[i].object \in Made(u)
  BY <1>1 DEF Made, u
<1>3. ASSUME NEW i \in 1..Len(t) PROVE t[i].object \in Made(u)
  <2>1. u[Len(s) + i] = t[i] /\ Len(s) + i \in 1..Len(u)
    BY <1>1 DEF u
  <2> QED
    BY <2>1 DEF Made
<1> QED
  BY <1>2, <1>3 DEF Made, u

\* The objects of the program are the named ones.
LEMMA ObjectsAre == Vk!Objects = Names
<1> DEFINE s == Vk!main
           b == Vk!create_buffers
<1>1. s \in Seq(ObjectCall) /\ Vk!Objects = Made(s)
  <2>1. s \in Seq(ObjectCall) /\ Vk!Objects = {s[i].object : i \in DOMAIN s}
    BY MainRuns DEF Runs, Vk!Objects
  <2> HIDE DEF s
  <2> QED
    BY <2>1 DEF Made
<1>2. Made(s) \subseteq Names
  <2>1. \A i \in 1..Len(s) : s[i] \in ObjectCall
    BY <1>1
  <2> QED
    BY <2>1 DEF Made, ObjectCall
<1>3. Lasting \subseteq Made(s)
  BY MainRuns, RunsMake DEF Start, Ready
<1>4. Temporary \subseteq Made(b) /\ b \in Seq(ObjectCall)
  <2> DEFINE c == Vk!Buffered("VertexBuffer")
             d == Vk!Buffered("IndexBuffer")
             v == [alive |-> Names \ Temporary, most |-> Names, stale |-> Names]
  <2>1. c \in Seq(ObjectCall) /\ d \in Seq(ObjectCall)
    <3>1. v \in View
      BY DEF View
    <3>2. {"Device", "PhysDevice", "CommandPool", "Queues"} \subseteq v.alive
      BY DEF Names, Lasting, Temporary
    <3> HIDE DEF v
    <3>3. \A x \in {"VertexBuffer", "IndexBuffer"} : Runs(Vk!Buffered(x), v, v)
      <4>1. \A x \in {"VertexBuffer", "IndexBuffer"} : v.alive \subseteq (v.alive \cup {x}) \ Temporary
        BY DEF v
      <4>2. \A x : (v.most \cup {x}) \ Temporary \subseteq Names \cup {x}
        BY DEF v
      <4>3. {"VertexBuffer", "IndexBuffer", "CommandBuffers"} \subseteq Names
        BY DEF Names, Lasting
      <4>4. v.most = Names /\ v.stale = Names
        BY DEF v
      <4> QED
        BY <3>1, <3>2, <4>1, <4>2, <4>3, <4>4, BufferedRuns
    <3> QED
      BY <3>3 DEF Runs
  <2>2. Len(c) = 5 /\ c[1].object = "stagingBuffer" /\ c[3].object = "commandBuffer"
    BY DEF Vk!Buffered, Vk!Make
  <2>3. Temporary \subseteq Made(c)
    BY <2>2 DEF Made, Temporary
  <2>4. b = c \o d
    BY DEF Vk!create_buffers
  <2> HIDE DEF b, c, d
  <2> QED
    BY <2>1, <2>3, <2>4, MadeBoth
<1>5. Made(b) \subseteq Made(s)
  <2> DEFINE l == ((((((((((Vk!initialize_window \o Vk!create_instance) \o Vk!peek_device)
                   \o Vk!find_queues) \o Vk!create_logical_device) \o Vk!installShader)
                   \o Vk!create_swap_chain) \o Vk!create_image_views)
                   \o Vk!create_render_pass) \o Vk!create_pipeline) \o Vk!create_frame_buffer)
                   \o Vk!create_command_pool
             m == Vk!create_command_buffers
             n == Vk!create_sync_objs
  <2>1. s = ((l \o b) \o m) \o n
    BY DEF Vk!main
  <2>2. /\ Vk!initialize_window \in Seq(ObjectCall) /\ Vk!create_instance \in Seq(ObjectCall)
        /\ Vk!peek_device \in Seq(ObjectCall) /\ Vk!find_queues \in Seq(ObjectCall)
        /\ Vk!create_logical_device \in Seq(ObjectCall) /\ Vk!installShader \in Seq(ObjectCall)
        /\ Vk!create_swap_chain \in Seq(ObjectCall) /\ Vk!create_image_views \in Seq(ObjectCall)
        /\ Vk!create_render_pass \in Seq(ObjectCall) /\ Vk!create_pipeline \in Seq(ObjectCall)
        /\ Vk!create_frame_buffer \in Seq(ObjectCall) /\ Vk!create_command_pool \in Seq(ObjectCall)
        /\ m \in Seq(ObjectCall) /\ n \in Seq(ObjectCall)
    BY WindowOrderly, InstanceOrderly, PhysDeviceOrderly, QueuesOrderly, DeviceOrderly, ShaderOrderly,
       SwapChainOrderly, ViewsOrderly, RenderPassOrderly, PipelineOrderly, FrameBufferOrderly,
       CommandPoolOrderly, CommandBuffersOrderly, SyncOrderly DEF Orderly
  <2>3. \A x, y \in Seq(ObjectCall) : x \o y \in Seq(ObjectCall)
    OBVIOUS
  <2>4. l \in Seq(ObjectCall)
    BY <2>2, <2>3, Zenon
  <2> HIDE DEF l, b, m, n, s
  <2>5. Made(b) \subseteq Made(l \o b) /\ l \o b \in Seq(ObjectCall) /\ (l \o b) \o m \in Seq(ObjectCall)
    BY <2>2, <2>3, <2>4, <1>4, MadeBoth
  <2>6. Made(l \o b) \subseteq Made((l \o b) \o m) /\ Made((l \o b) \o m) \subseteq Made(s)
    BY <2>1, <2>2, <2>5, MadeBoth
  <2> QED
    BY <2>5, <2>6
<1> QED
  BY <1>1, <1>2, <1>3, <1>4, <1>5 DEF Names

\* What a view says of the objects' parents: none has been replaced.
Fresh(v) == \A o \in Names \ v.stale : \A p \in DOMAIN view[o] \ Temporary : view[o][p] = cam[p]

\* The calls still to be made are in order, from what is there.
InOrder ==
  \E v, w \in View :
    /\ Runs(pending, v, w)
    /\ objs \subseteq v.most
    /\ (phase = "destroy" /\ status) \/ v.alive \subseteq objs
    /\ phase # "destroy" => w = Ready /\ Fresh(v)

\* The inductive invariant of vk-simplest's objects.
VInv ==
  /\ phase \in {"setup", "run", "update", "destroy", "end"}
  /\ status \in BOOLEAN
  /\ objs \in SUBSET Names
  /\ pending \in Seq(ObjectCall)
  /\ cam \in [Names -> Nat]
  /\ view = [o \in Names |-> view[o]]
  /\ \A o \in Names : \A p \in DOMAIN view[o] : p \in Names /\ (p \notin Temporary => o \in Children(p))
  /\ phase \in {"run", "end"} => pending = << >>
  /\ phase = "destroy" => \A i \in 1..Len(pending) : pending[i].op = "destroy"
  /\ phase # "end" => InOrder
  /\ Vk!ChildrenFirst

\* With no call left the view is the last one.
LEMMA RunsDone ==
  ASSUME NEW v, NEW w, Runs(<< >>, v, w)
  PROVE  Within(w, v)
<1>1. PICK g : IsRun(g, << >>, v, w)
  BY DEF Runs
<1>2. g[0] \in View /\ Within(g[0], v) /\ Within(w, g[0])
  BY <1>1 DEF IsRun
<1> QED
  BY <1>2 DEF Within

\* The first call finds the invariant true.
LEMMA VInit == ASSUME Vk!Init PROVE VInv
<1> USE DEF Vk!Init
<1>1. Start \in View /\ Ready \in View
  BY MainRuns DEF Runs
<1>2. Vk!main \in Seq(ObjectCall)
  BY MainRuns DEF Runs
<1>3. InOrder
  <2>1. Fresh(Start)
    BY ObjectsAre DEF Fresh
  <2> QED
    BY <1>1, <2>1, MainRuns DEF InOrder, Start
<1>4. Vk!ChildrenFirst
  BY DEF Vk!ChildrenFirst
<1>5. view = [o \in Names |-> << >>] /\ cam = [o \in Names |-> 0]
  BY ObjectsAre
<1>6. view = [o \in Names |-> view[o]] /\ \A o \in Names : DOMAIN view[o] = {}
  BY <1>5
<1>7. cam \in [Names -> Nat]
  BY <1>5
<1> QED
  BY <1>2, <1>3, <1>4, <1>6, <1>7 DEF VInv

\* Making the next object keeps it.
LEMMA VMakes ==
  ASSUME VInv, Vk!MakeNext
  PROVE  VInv'
<1> DEFINE c == Head(pending)
           o == c.object
<1>1. /\ pending # << >> /\ c.op = "make" /\ pending' = Tail(pending)
      /\ objs' = objs \cup {o} /\ cam' = [cam EXCEPT ![o] = @ + 1]
      /\ view' = [view EXCEPT ![o] = [p \in c.from |-> cam[p]]]
      /\ phase' = phase /\ status' = status
  BY DEF Vk!MakeNext, Vk!Call
<1>2. phase \in {"setup", "update"} /\ InOrder
  <2>1. phase # "destroy"
    BY <1>1, SMTT(30) DEF VInv
  <2> QED
    BY <1>1, <2>1 DEF VInv
<1>3. PICK v \in View : Runs(pending, v, Ready) /\ objs \subseteq v.most /\ v.alive \subseteq objs /\ Fresh(v)
  BY <1>2 DEF InOrder
<1>4. PICK x \in View : Follows(c, v, x) /\ Runs(Tail(pending), x, Ready)
  BY <1>1, <1>3, RunsFirst
<1>5. /\ c \in ObjectCall /\ o \in Names /\ c.from \subseteq v.alive /\ o \notin c.from
      /\ \A p \in c.from \ Temporary : o \in Children(p)
      /\ x.alive \subseteq v.alive \cup {o} /\ v.most \cup {o} \subseteq x.most
      /\ (v.stale \cup Children(o)) \ {o} \subseteq x.stale
      /\ c.from \subseteq Names /\ Tail(pending) \in Seq(ObjectCall)
  BY <1>1, <1>3, <1>4, RunsFirst DEF Follows, ObjectCall
<1> HIDE DEF c, o
<1>6. /\ cam' \in [Names -> Nat] /\ view' = [a \in Names |-> view'[a]]
      /\ \A a \in Names : view'[a] = IF a = o THEN [p \in c.from |-> cam[p]] ELSE view[a]
      /\ \A p \in Names : p # o => cam'[p] = cam[p]
  <2>1. cam \in [Names -> Nat] /\ DOMAIN view = Names
    BY DEF VInv
  <2>2. cam' \in [Names -> Nat] /\ \A p \in Names : p # o => cam'[p] = cam[p]
    BY <1>1, <1>5, <2>1
  <2>3. view' = [a \in Names |-> IF a = o THEN [p \in c.from |-> cam[p]] ELSE view[a]]
    BY <1>1, <2>1
  <2>4. \A a \in Names : view'[a] = IF a = o THEN [p \in c.from |-> cam[p]] ELSE view[a]
    BY <2>3, Zenon
  <2>5. view' = [a \in Names |-> view'[a]]
    BY <2>3
  <2> QED
    BY <2>2, <2>4, <2>5
<1>7. \A a \in Names : \A p \in DOMAIN view'[a] :
        p \in Names /\ (p \notin Temporary => a \in Children(p))
  BY <1>5, <1>6 DEF VInv
<1>8. Fresh(x)'
  <2> SUFFICES ASSUME NEW a \in Names \ x.stale, NEW p \in DOMAIN view'[a] \ Temporary
               PROVE  view'[a][p] = cam'[p]
    BY DEF Fresh
  <2>1. CASE a = o
    BY <2>1, <1>5, <1>6
  <2>2. CASE a # o
    <3>1. a \notin v.stale /\ a \notin Children(o) /\ view'[a] = view[a]
      BY <2>2, <1>5, <1>6
    <3>2. p # o /\ p \in Names
      BY <3>1, <1>7
    <3>3. view[a][p] = cam[p]
      BY <3>1, <1>3 DEF Fresh
    <3> QED
      BY <3>1, <3>2, <3>3, <1>6
  <2> QED
    BY <2>1, <2>2
<1>9. InOrder'
  <2>1. x.alive \subseteq objs' /\ objs' \subseteq x.most
    BY <1>1, <1>3, <1>5
  <2>2. Ready \in View
    BY <1>3 DEF Runs
  <2> QED
    BY <2>1, <2>2, <1>1, <1>2, <1>4, <1>8 DEF InOrder
<1>10. Vk!ChildrenFirst'
  <2> SUFFICES ASSUME NEW a \in (objs' \cap Vk!Handles) \ Vk!Abandoned,
                      NEW p \in DOMAIN view'[a] \cap Vk!Handles
               PROVE  p \in objs'
    BY DEF Vk!ChildrenFirst, Vk!Handles, Vk!Abandoned
  <2>1. a \in Names
    BY <1>1, <1>5 DEF VInv
  <2>2. CASE a = o
    BY <2>1, <2>2, <1>1, <1>3, <1>5, <1>6
  <2>3. CASE a # o
    BY <2>1, <2>3, <1>1, <1>6 DEF VInv, Vk!ChildrenFirst
  <2> QED
    BY <2>2, <2>3
<1>11. objs' \in SUBSET Names /\ pending' \in Seq(ObjectCall)
  BY <1>1, <1>5 DEF VInv
<1> QED
  BY <1>1, <1>2, <1>6, <1>7, <1>9, <1>10, <1>11 DEF VInv

\* Destroying the next object keeps it.
LEMMA VDestroys ==
  ASSUME VInv, Vk!DestroyNext
  PROVE  VInv'
<1> DEFINE c == Head(pending)
           o == c.object
<1>1. /\ pending # << >> /\ c.op = "destroy" /\ pending' = Tail(pending)
      /\ objs' = objs \ {o} /\ cam' = cam /\ view' = view /\ phase' = phase /\ status' = status
  BY DEF Vk!DestroyNext, Vk!Call
<1>2. phase \in {"setup", "update", "destroy"} /\ InOrder
  BY <1>1 DEF VInv
<1>3. PICK v \in View, w \in View :
        /\ Runs(pending, v, w) /\ objs \subseteq v.most
        /\ (phase = "destroy" /\ status) \/ v.alive \subseteq objs
        /\ phase # "destroy" => w = Ready /\ Fresh(v)
  BY <1>2 DEF InOrder
<1>4. PICK x \in View : Follows(c, v, x) /\ Runs(Tail(pending), x, w)
  BY <1>1, <1>3, RunsFirst
<1>5. /\ c \in ObjectCall /\ Tail(pending) \in Seq(ObjectCall)
      /\ o \in Vk!Handles => Held(o) \cap v.most = {}
      /\ x.alive \subseteq v.alive \ {o} /\ v.most \ {o} \subseteq x.most /\ v.stale \subseteq x.stale
  BY <1>1, <1>3, <1>4, RunsFirst DEF Follows
<1> HIDE DEF c, o
<1>6. InOrder'
  <2>1. phase # "destroy" => Fresh(x)'
    BY <1>1, <1>3, <1>5 DEF Fresh
  <2>2. objs' \subseteq x.most
    BY <1>1, <1>3, <1>5
  <2>3. (phase = "destroy" /\ status) \/ x.alive \subseteq objs'
    BY <1>1, <1>3, <1>5
  <2> QED
    BY <2>1, <2>2, <2>3, <1>1, <1>3, <1>4 DEF InOrder
<1>7. Vk!ChildrenFirst'
  <2> SUFFICES ASSUME NEW a \in (objs' \cap Vk!Handles) \ Vk!Abandoned,
                      NEW p \in DOMAIN view'[a] \cap Vk!Handles
               PROVE  p \in objs'
    BY DEF Vk!ChildrenFirst, Vk!Handles, Vk!Abandoned
  <2>1. a \in objs /\ p \in objs /\ p \in DOMAIN view[a] /\ a \in Names
    BY <1>1 DEF VInv, Vk!ChildrenFirst
  <2>2. p \notin Temporary
    BY DEF Temporary, Vk!Handles
  <2>3. a \in Held(p)
    BY <2>1, <2>2 DEF VInv, Held
  <2>4. p # o
    BY <2>1, <2>3, <1>3, <1>5
  <2> QED
    BY <2>1, <2>4, <1>1
<1>8. phase = "destroy" => \A i \in 1..Len(pending') : pending'[i].op = "destroy"
  <2>1. \A i \in 1..Len(pending') : pending'[i] = pending[i + 1] /\ i + 1 \in 1..Len(pending)
    BY <1>1 DEF VInv
  <2> QED
    BY <2>1 DEF VInv
<1> QED
  BY <1>1, <1>2, <1>5, <1>6, <1>7, <1>8 DEF VInv

\* An exception while an object is made leaves the rest to ~VkApp.
LEMMA VThrows ==
  ASSUME VInv, Vk!MakeThrows
  PROVE  VInv'
<1>1. /\ status' = TRUE /\ phase' = "destroy" /\ pending' = Vk!destructor
      /\ objs' = objs /\ cam' = cam /\ view' = view
  BY DEF Vk!MakeThrows
<1>2. PICK w \in View : Runs(pending', Everything, w)
  BY <1>1, DestructorRuns
<1>3. pending' \in Seq(ObjectCall) /\ Everything \in View
  BY <1>2 DEF Runs
<1>4. InOrder'
  BY <1>1, <1>2, <1>3 DEF InOrder, Everything, VInv
<1> QED
  BY <1>1, <1>3, <1>4, DestructorRuns DEF VInv, Vk!ChildrenFirst

\* When nothing is left to be called everything is there and fresh.
LEMMA VReady ==
  ASSUME VInv, phase \in {"setup", "update", "run"}, pending = << >>
  PROVE  /\ Lasting \subseteq objs /\ objs \subseteq Lasting
         /\ Fresh(Ready)
<1>1. PICK v \in View : Runs(pending, v, Ready) /\ objs \subseteq v.most /\ v.alive \subseteq objs /\ Fresh(v)
  BY DEF VInv, InOrder
<1>2. Within(Ready, v)
  BY <1>1, RunsDone
<1> QED
  BY <1>1, <1>2 DEF Within, Ready, Fresh

\* Entering the loop keeps it: all there was to call has been called.
LEMMA VRuns ==
  ASSUME VInv, Vk!Run
  PROVE  VInv'
<1>1. /\ pending = << >> /\ phase \in {"setup", "update"} /\ phase' = "run"
      /\ UNCHANGED <<pending, objs, cam, view, status>>
  BY DEF Vk!Run
<1>2. InOrder'
  BY <1>1 DEF VInv, InOrder, Fresh
<1> QED
  BY <1>1, <1>2 DEF VInv, Vk!ChildrenFirst

\* update_swap_chain begins with everything there.
LEMMA VUpdates ==
  ASSUME VInv, Vk!Update
  PROVE  VInv'
<1>1. /\ phase = "run" /\ phase' = "update" /\ pending' = Vk!update_swap_chain
      /\ UNCHANGED <<objs, cam, view, status>>
  BY DEF Vk!Update
<1>2. Lasting \subseteq objs /\ objs \subseteq Lasting /\ Fresh(Ready)
  BY <1>1, VReady DEF VInv
<1>3. Runs(pending', Ready, Ready) /\ Ready \in View /\ pending' \in Seq(ObjectCall)
  BY <1>1, UpdateRuns DEF Runs
<1>4. InOrder'
  BY <1>1, <1>2, <1>3 DEF InOrder, Fresh, Ready
<1> QED
  BY <1>1, <1>3, <1>4 DEF VInv, Vk!ChildrenFirst

\* ~VkApp begins with everything there.
LEMMA VLeaves ==
  ASSUME VInv, Vk!Leave
  PROVE  VInv'
<1>1. /\ phase = "run" /\ phase' = "destroy" /\ pending' = Vk!destructor
      /\ status' \in BOOLEAN /\ UNCHANGED <<objs, cam, view>>
  BY DEF Vk!Leave
<1>2. Lasting \subseteq objs
  BY <1>1, VReady DEF VInv
<1>3. PICK w \in View : Runs(pending', Everything, w)
  BY <1>1, DestructorRuns
<1>4. pending' \in Seq(ObjectCall) /\ Everything \in View
  BY <1>3 DEF Runs
<1>5. InOrder'
  BY <1>1, <1>2, <1>3, <1>4 DEF InOrder, Everything, VInv
<1> QED
  BY <1>1, <1>4, <1>5, DestructorRuns DEF VInv, Vk!ChildrenFirst

\* Every step of vk-simplest's objects keeps the invariant.
LEMMA VStep ==
  ASSUME VInv, Vk!Next \/ UNCHANGED Vk!vars
  PROVE  VInv'
<1>1. CASE Vk!MakeNext
  BY <1>1, VMakes
<1>2. CASE Vk!MakeThrows
  BY <1>2, VThrows
<1>3. CASE Vk!DestroyNext
  BY <1>3, VDestroys
<1>4. CASE Vk!Run
  BY <1>4, VRuns
<1>5. CASE Vk!Update
  BY <1>5, VUpdates
<1>6. CASE Vk!Leave
  BY <1>6, VLeaves
<1>7. CASE Vk!End
  <2>1. /\ phase' = "end" /\ pending = << >> /\ UNCHANGED <<pending, objs, cam, view, status>>
    BY <1>7 DEF Vk!End
  <2> QED
    BY <2>1 DEF VInv, Vk!ChildrenFirst
<1>8. CASE Vk!Terminated \/ UNCHANGED Vk!vars
  <2>1. UNCHANGED <<phase, pending, objs, cam, view, status>>
    BY <1>8 DEF Vk!Terminated, Vk!vars
  <2>2. InOrder => InOrder'
    BY <2>1 DEF InOrder, Fresh
  <2> QED
    BY <2>1, <2>2 DEF VInv, Vk!ChildrenFirst
<1> QED
  BY <1>1, <1>2, <1>3, <1>4, <1>5, <1>6, <1>7, <1>8 DEF Vk!Next

\* The invariant is stronger than what is promised of the objects.
LEMMA VProperties ==
  ASSUME VInv
  PROVE  /\ Vk!RequirementsMet /\ Vk!NothingStale
         /\ Vk!ChildrenFirst /\ Vk!DestroyedOnce
<1>1. ASSUME pending # << >>
      PROVE  /\ Head(pending).op = "make" => Head(pending).from \subseteq objs
             /\ ~status /\ Head(pending).op = "destroy" => Head(pending).object \in objs
  <2>1. phase \in {"setup", "update", "destroy"} /\ InOrder
    BY <1>1 DEF VInv
  <2>2. PICK v \in View, w \in View :
          Runs(pending, v, w) /\ ((phase = "destroy" /\ status) \/ v.alive \subseteq objs)
    BY <2>1 DEF InOrder
  <2>3. PICK x \in View : Follows(Head(pending), v, x)
    BY <1>1, <2>2, RunsFirst
  <2>4. phase = "destroy" => Head(pending).op = "destroy"
    BY <1>1 DEF VInv
  <2> QED
    BY <2>2, <2>3, <2>4 DEF Follows
<1>2. Vk!RequirementsMet /\ Vk!DestroyedOnce
  BY <1>1 DEF Vk!RequirementsMet, Vk!DestroyedOnce, Vk!Call
<1>3. ASSUME phase = "run"
      PROVE  /\ Vk!Objects \ {"stagingBuffer", "commandBuffer"} \subseteq objs
             /\ \A o \in objs : \A p \in DOMAIN view[o] \ {"stagingBuffer", "commandBuffer"} :
                  view[o][p] = cam[p]
  <2>1. Lasting \subseteq objs /\ objs \subseteq Lasting /\ Fresh(Ready)
    BY <1>3, VReady DEF VInv
  <2>2. Lasting \cap Temporary = {}
    BY DEF Lasting, Temporary
  <2> QED
    BY <2>1, <2>2, ObjectsAre DEF Names, Temporary, Fresh, Ready
<1>4. Vk!NothingStale
  BY <1>3 DEF Vk!NothingStale
<1> QED
  BY <1>2, <1>4 DEF VInv

-----------------------------------------------------------------------------
(* The OpenGL programs.                                                    *)

Programs == {"simplest", "extensions", "frag_shader", "motion"}

\* The scripts: GLFW is initialised first, then the window comes, and termination is the
\* last call; only ogl-motion has modes and a renderer, and sets them before its loop.
ScriptRight(p, s) ==
  /\ Len(s) \in Nat /\ Len(s) >= 1
  /\ \A i \in 1..Len(s) :
       /\ s[i].op = "init" <=> i = 1
       /\ s[i].op = "window" <=> i = 2
       /\ s[i].op = "terminate" <=> i = Len(s)
       /\ s[i].op = "renderer" => p = "motion"
       /\ s[i].op = "modes" <=> p = "motion" /\ i = 13
       /\ s[i].op = "loop" => i > 2 /\ (p = "motion" => i > 13)

StepOf(s) == [op : s, obj : {"none", "VAO", "VBO", "IBO", "ProgID", "VertexID", "FragmentID"}]
AnyStep == StepOf({"init", "window", "glad", "own", "loop", "terminate", "new", "del", "readFile",
                   "compile", "link", "modes", "renderer"})

\* The calls of the scripts.
LEMMA StepsAre ==
  /\ \A f \in {"init", "window", "glad", "own", "loop", "terminate", "readFile", "compile",
               "link", "modes", "renderer"} :
       Call(f) \in AnyStep /\ Call(f).op = f
  /\ \A o \in {"VAO", "VBO", "IBO", "ProgID", "VertexID", "FragmentID"} :
       /\ New(o) \in AnyStep /\ New(o).op = "new"
       /\ Del(o) \in AnyStep /\ Del(o).op = "del"
BY DEF Call, New, Del, AnyStep, StepOf

\* A script in two parts.
LEMMA Joined ==
  ASSUME NEW s \in Seq(AnyStep), NEW t \in Seq(AnyStep)
  PROVE  /\ s \o t \in Seq(AnyStep) /\ Len(s \o t) = Len(s) + Len(t) /\ Len(s) \in Nat /\ Len(t) \in Nat
         /\ \A i \in 1..Len(s) : (s \o t)[i] = s[i]
         /\ \A i \in (Len(s) + 1)..(Len(s) + Len(t)) :
              (s \o t)[i] = t[i - Len(s)] /\ i - Len(s) \in 1..Len(t)
<1>1. /\ s \o t \in Seq(AnyStep) /\ Len(s \o t) = Len(s) + Len(t)
      /\ \A i \in 1..(Len(s) + Len(t)) : (s \o t)[i] = IF i <= Len(s) THEN s[i] ELSE t[i - Len(s)]
  BY ConcatProperties
<1>2. Len(s) \in Nat /\ Len(t) \in Nat
  OBVIOUS
<1> QED
  BY <1>1, <1>2

\* The same, with the lengths given.
LEMMA JoinedAt ==
  ASSUME NEW s \in Seq(AnyStep), NEW t \in Seq(AnyStep), NEW m \in Nat, NEW n \in Nat, NEW k \in Nat,
         Len(s) = m, Len(t) = n, k = m + n
  PROVE  /\ s \o t \in Seq(AnyStep) /\ Len(s \o t) = k
         /\ \A i \in 1..m : (s \o t)[i] = s[i]
         /\ \A i \in (m + 1)..k : (s \o t)[i] = t[i - m] /\ i - m \in 1..n
BY Joined

Landmarks == {"init", "window", "terminate", "modes", "renderer", "loop"}

\* n calls that do none of what the properties speak of.
Quiet(s, n) == /\ n \in Nat /\ s \in Seq(AnyStep) /\ Len(s) = n
               /\ \A i \in 1..n : s[i].op \notin Landmarks

\* The first n calls of a program, without its loop.
Opening(s, n) == /\ n \in Nat /\ n >= 2 /\ s \in Seq(AnyStep) /\ Len(s) = n
                 /\ s[1].op = "init" /\ s[2].op = "window"
                 /\ \A i \in 3..n : s[i].op \notin Landmarks

\* The last n.
Closing(s, n) == /\ n \in Nat /\ n >= 1 /\ s \in Seq(AnyStep) /\ Len(s) = n /\ s[n].op = "terminate"
                 /\ \A i \in 1..(n - 1) : s[i].op \in {"new", "del", "loop"}

\* Quiet calls may be followed by more.
LEMMA QuietJoined ==
  ASSUME NEW s, NEW m, NEW t, NEW n, Quiet(s, m), Quiet(t, n)
  PROVE  Quiet(s \o t, m + n)
<1>0. m + n \in Nat
  BY DEF Quiet
<1>1. /\ s \o t \in Seq(AnyStep) /\ Len(s \o t) = m + n
      /\ \A i \in 1..m : (s \o t)[i] = s[i]
      /\ \A i \in (m + 1)..(m + n) : (s \o t)[i] = t[i - m] /\ i - m \in 1..n
  BY <1>0, Joined DEF Quiet
<1> QED
  BY <1>0, <1>1 DEF Quiet

\* An opening may be followed by quiet calls.
LEMMA OpeningJoined ==
  ASSUME NEW s, NEW m, NEW t, NEW n, Opening(s, m), Quiet(t, n)
  PROVE  Opening(s \o t, m + n)
<1>1. m \in Nat /\ m >= 2 /\ s \in Seq(AnyStep) /\ Len(s) = m
  BY DEF Opening
<1>2. n \in Nat /\ t \in Seq(AnyStep) /\ Len(t) = n
  BY DEF Quiet
<1>3. m + n \in Nat /\ m + n >= 2
  BY <1>1, <1>2
<1>4. /\ s \o t \in Seq(AnyStep) /\ Len(s \o t) = m + n
      /\ \A i \in 1..m : (s \o t)[i] = s[i]
      /\ \A i \in (m + 1)..(m + n) : (s \o t)[i] = t[i - m] /\ i - m \in 1..n
  BY <1>1, <1>2, <1>3, Joined
<1>5. \A i \in 3..m : s[i].op \notin Landmarks
  BY DEF Opening
<1>6. \A i \in 1..n : t[i].op \notin Landmarks
  BY DEF Quiet
<1>7. \A i \in 3..(m + n) : (s \o t)[i].op \notin Landmarks
  BY <1>1, <1>2, <1>4, <1>5, <1>6
<1>8. (s \o t)[1].op = "init" /\ (s \o t)[2].op = "window"
  BY <1>1, <1>4 DEF Opening
<1> QED
  BY <1>3, <1>4, <1>7, <1>8 DEF Opening

\* An opening and a closing make a script.
LEMMA Closed ==
  ASSUME NEW p \in Programs, p # "motion", NEW s, NEW m, NEW t, NEW n, Opening(s, m), Closing(t, n)
  PROVE  ScriptRight(p, s \o t)
<1> DEFINE u == s \o t
<1>1. /\ Len(u) = m + n
      /\ \A i \in 1..m : u[i] = s[i]
      /\ \A i \in (m + 1)..(m + n) : u[i] = t[i - m] /\ i - m \in 1..n
  <2>1. m \in Nat /\ s \in Seq(AnyStep) /\ Len(s) = m
    BY DEF Opening
  <2>2. n \in Nat /\ t \in Seq(AnyStep) /\ Len(t) = n
    BY DEF Closing
  <2>3. m + n \in Nat
    BY <2>1, <2>2
  <2> QED
    BY <2>1, <2>2, <2>3, Joined
<1> HIDE DEF u
<1>2. m \in Nat /\ n \in Nat /\ m >= 2 /\ n >= 1 /\ u[1].op = "init" /\ u[2].op = "window"
  BY <1>1 DEF Opening, Closing
<1>3. \A i \in 3..m : u[i].op \notin Landmarks
  BY <1>1, <1>2 DEF Opening
<1>4. \A i \in (m + 1)..(m + n - 1) : u[i].op \in {"new", "del", "loop"}
  BY <1>1, <1>2 DEF Closing
<1>5. u[m + n].op = "terminate"
  BY <1>1, <1>2 DEF Closing
<1>6. \A i \in 1..(m + n) : i = 1 \/ i = 2 \/ i \in 3..m \/ i \in (m + 1)..(m + n - 1) \/ i = m + n
  BY <1>2
<1>7. ASSUME NEW i \in 1..Len(u)
      PROVE  /\ u[i].op = "init" <=> i = 1
             /\ u[i].op = "window" <=> i = 2
             /\ u[i].op = "terminate" <=> i = m + n
             /\ u[i].op = "renderer" => p = "motion"
             /\ u[i].op = "modes" <=> p = "motion" /\ i = 13
             /\ u[i].op = "loop" => i > 2 /\ (p = "motion" => i > 13)
  <2>1. CASE i = 1
    BY <1>2, <2>1
  <2>2. CASE i = 2
    BY <1>2, <2>2
  <2>3. CASE i \in 3..m
    BY <1>2, <1>3, <2>3 DEF Landmarks
  <2>4. CASE i \in (m + 1)..(m + n - 1)
    BY <1>2, <1>4, <2>4
  <2>5. CASE i = m + n
    BY <1>2, <1>5, <2>5
  <2> QED
    BY <1>1, <1>6, <2>1, <2>2, <2>3, <2>4, <2>5
<1>8. ScriptRight(p, u)
  BY <1>1, <1>2, <1>7 DEF ScriptRight
<1> QED
  BY <1>8 DEF u

\* linkShaders is eight quiet calls.
LEMMA ShadersQuiet ==
  Quiet(linkShaders, 8) /\ frag_linkShaders = linkShaders
<1> DEFINE a == <<New("ProgID")>>
           b == Installed("VertexID")
           c == Installed("FragmentID")
           d == <<Call("link")>>
<1>1. Quiet(a, 1)
  BY StepsAre DEF Quiet, Landmarks
<1>2. Quiet(b, 3)
  BY StepsAre DEF Quiet, Landmarks, Installed
<1>3. Quiet(c, 3)
  BY StepsAre DEF Quiet, Landmarks, Installed
<1>4. Quiet(d, 1)
  BY StepsAre DEF Quiet, Landmarks
<1>5. linkShaders = ((a \o b) \o c) \o d /\ frag_linkShaders = ((a \o b) \o c) \o d
  BY DEF linkShaders, frag_linkShaders
<1> HIDE DEF a, b, c, d
<1>6. Quiet(a \o b, 1 + 3)
  BY <1>1, <1>2, QuietJoined
<1>7. Quiet((a \o b) \o c, (1 + 3) + 3)
  BY <1>3, <1>6, QuietJoined
<1>8. Quiet(((a \o b) \o c) \o d, ((1 + 3) + 3) + 1)
  BY <1>4, <1>7, QuietJoined
<1> QED
  BY <1>5, <1>8

\* The script of ogl-simplest.
LEMMA SimplestRight == ScriptRight("simplest", simplest)
<1> DEFINE s == simplest
<1>1. Len(s) = 5 /\ s[1].op = "init" /\ s[2].op = "window" /\ s[3].op = "own" /\ s[4].op = "loop"
      /\ s[5].op = "terminate"
  BY DEF simplest, Call
<1> HIDE DEF s
<1> QED
  BY <1>1 DEF ScriptRight, s

\* The four calls all others begin with.
LEMMA WindowOpening ==
  Opening(<<Call("init"), Call("window"), Call("glad"), Call("own")>>, 4)
BY StepsAre DEF Opening, Landmarks

\* Of ogl-extensions.
LEMMA ExtensionsRight == ScriptRight("extensions", extensions)
<1> DEFINE b == <<New("VAO"), New("VBO"), Call("loop"), Del("VAO"),
                  Del("VBO"), Call("terminate")>>
<1>1. Closing(b, 6)
  BY StepsAre DEF Closing
<1>2. extensions = extensions_window \o b /\ Opening(extensions_window, 4)
  BY WindowOpening DEF extensions, extensions_window
<1> HIDE DEF b
<1> QED
  BY <1>1, <1>2, Closed DEF Programs

\* Of ogl-frag-shader.
LEMMA FragRight == ScriptRight("frag_shader", frag_shader)
<1> DEFINE a == frag_window
           b == <<New("VAO"), New("VBO")>>
           c == frag_linkShaders
           d == <<Call("loop"), Del("VAO"), Del("VBO"), Call("terminate")>>
<1>1. Opening(a, 4)
  BY WindowOpening DEF frag_window
<1>2. Quiet(b, 2)
  BY StepsAre DEF Quiet, Landmarks
<1>3. Quiet(c, 8)
  BY ShadersQuiet
<1>4. Closing(d, 4)
  BY StepsAre DEF Closing
<1>5. frag_shader = ((a \o b) \o c) \o d
  BY DEF frag_shader
<1> HIDE DEF a, b, c, d
<1>6. Opening(a \o b, 4 + 2)
  BY <1>1, <1>2, OpeningJoined
<1>7. Opening((a \o b) \o c, (4 + 2) + 8)
  BY <1>3, <1>6, OpeningJoined
<1> QED
  BY <1>4, <1>5, <1>7, Closed DEF Programs

\* Of ogl-motion, whose modes are set by the thirteenth call.
LEMMA MotionRight == ScriptRight("motion", motion)
<1> DEFINE a == initialize_window
           b == linkShaders
           c == <<Call("modes"), New("VAO"), New("VBO"), New("IBO"),
                  Call("renderer")>>
           d == <<Call("loop"), Call("terminate")>>
           x == b \o c
           y == a \o x
           s == y \o d
<1>1. Opening(a, 4)
  BY WindowOpening DEF initialize_window
<1>2. Quiet(b, 8)
  BY ShadersQuiet
<1>3. /\ c \in Seq(AnyStep) /\ Len(c) = 5
      /\ c[1].op = "modes" /\ c[2].op = "new" /\ c[3].op = "new" /\ c[4].op = "new" /\ c[5].op = "renderer"
  BY StepsAre
<1>4. d \in Seq(AnyStep) /\ Len(d) = 2 /\ d[1].op = "loop" /\ d[2].op = "terminate"
  BY StepsAre
<1>5. motion = s
  BY DEF motion, Renderer
<1> HIDE DEF a, b, c, d
<1>6. /\ x \in Seq(AnyStep) /\ Len(x) = 13 /\ \A i \in 1..8 : x[i] = b[i]
      /\ \A i \in 9..13 : x[i] = c[i - 8]
  <2>1. b \in Seq(AnyStep) /\ Len(b) = 8
    BY <1>2 DEF Quiet
  <2>2. 8 \in Nat /\ 5 \in Nat /\ 13 \in Nat /\ 13 = 8 + 5 /\ 8 + 1 = 9
    OBVIOUS
  <2> HIDE DEF x
  <2>3. x = b \o c
    BY DEF x
  <2>4. /\ b \o c \in Seq(AnyStep) /\ Len(b \o c) = 13
        /\ \A i \in 1..8 : (b \o c)[i] = b[i]
        /\ \A i \in (8 + 1)..13 : (b \o c)[i] = c[i - 8] /\ i - 8 \in 1..5
    BY <1>3, <2>1, <2>2, JoinedAt
  <2> QED
    BY <2>2, <2>3, <2>4
<1> HIDE DEF x
<1>7. /\ y \in Seq(AnyStep) /\ Len(y) = 17 /\ \A i \in 1..4 : y[i] = a[i]
      /\ \A i \in 5..17 : y[i] = x[i - 4]
  <2>1. a \in Seq(AnyStep) /\ Len(a) = 4
    BY <1>1 DEF Opening
  <2>2. 4 \in Nat /\ 13 \in Nat /\ 17 \in Nat /\ 17 = 4 + 13 /\ 4 + 1 = 5
    OBVIOUS
  <2> HIDE DEF y
  <2>3. y = a \o x
    BY DEF y
  <2>4. /\ a \o x \in Seq(AnyStep) /\ Len(a \o x) = 17
        /\ \A i \in 1..4 : (a \o x)[i] = a[i]
        /\ \A i \in (4 + 1)..17 : (a \o x)[i] = x[i - 4] /\ i - 4 \in 1..13
    BY <1>6, <2>1, <2>2, JoinedAt, ZenonT(60)
  <2> QED
    BY <2>2, <2>3, <2>4
<1> HIDE DEF y
<1>8. Len(s) = 19 /\ (\A i \in 1..17 : s[i] = y[i]) /\ \A i \in 18..19 : s[i] = d[i - 17]
  <2>1. 17 \in Nat /\ 2 \in Nat /\ 19 \in Nat /\ 19 = 17 + 2 /\ 17 + 1 = 18
    OBVIOUS
  <2> HIDE DEF s
  <2>2. s = y \o d
    BY DEF s
  <2>3. /\ y \o d \in Seq(AnyStep) /\ Len(y \o d) = 19
        /\ \A i \in 1..17 : (y \o d)[i] = y[i]
        /\ \A i \in (17 + 1)..19 : (y \o d)[i] = d[i - 17] /\ i - 17 \in 1..2
    BY <1>4, <1>7, <2>1, JoinedAt
  <2> QED
    BY <2>1, <2>2, <2>3
<1> HIDE DEF s
<1>9. s[1].op = "init" /\ s[2].op = "window" /\ \A i \in 3..4 : s[i].op \notin Landmarks
  BY <1>1, <1>7, <1>8 DEF Opening
<1>10. \A i \in 5..12 : s[i].op \notin Landmarks
  BY <1>2, <1>6, <1>7, <1>8, SMTT(30) DEF Quiet
<1>11. /\ s[13].op = "modes" /\ s[14].op = "new" /\ s[15].op = "new" /\ s[16].op = "new"
       /\ s[17].op = "renderer"
  BY <1>3, <1>6, <1>7, <1>8, SMTT(30)
<1>12. s[18].op = "loop" /\ s[19].op = "terminate"
  BY <1>4, <1>8
<1>13. \A i \in 1..19 : \/ i = 1 \/ i = 2 \/ i \in 3..4 \/ i \in 5..12
                        \/ i = 13 \/ i = 14 \/ i = 15 \/ i = 16 \/ i = 17 \/ i = 18 \/ i = 19
  OBVIOUS
<1> QED
  BY <1>5, <1>8, <1>9, <1>10, <1>11, <1>12, <1>13 DEF ScriptRight, Landmarks

\* The four scripts are right.
LEMMA ScriptsRight == \A p \in Programs : ScriptRight(p, Script[p])
BY SimplestRight, ExtensionsRight, FragRight, MotionRight DEF Programs, Script

-----------------------------------------------------------------------------
(* What the window system holds: of each kind of event the last one tells  *)
(* how things are now.                                                     *)

Events == [kind : {"move", "left", "key", "size", "close"},
           arg : Points \cup BOOLEAN \cup {"W", "S", "L", "none"} \cup Sizes]

NoneOf(q, kind) == \A i \in 1..Len(q) : q[i].kind # kind

Latest(q, kind, v) ==
  \A i \in 1..Len(q) :
    q[i].kind = kind /\ (\A j \in (i + 1)..Len(q) : q[j].kind # kind) => q[i].arg = v

\* Delivering an event leaves the last of each kind the last, or was that one.
LEMMA LatestDelivered ==
  ASSUME NEW q \in Seq(Events), q # << >>, NEW kind, NEW v, Latest(q, kind, v)
  PROVE  /\ Tail(q) \in Seq(Events) /\ Head(q) \in Events /\ Latest(Tail(q), kind, v)
         /\ NoneOf(Tail(q), kind) =>
              IF Head(q).kind = kind THEN Head(q).arg = v ELSE NoneOf(q, kind)
<1>1. /\ Tail(q) \in Seq(Events) /\ Len(q) \in Nat /\ Len(q) >= 1 /\ Len(Tail(q)) = Len(q) - 1
      /\ Head(q) = q[1] /\ q[1] \in Events
  OBVIOUS
<1>2. \A i \in 1..(Len(q) - 1) : Tail(q)[i] = q[i + 1]
  BY <1>1
<1>3. Latest(Tail(q), kind, v)
  <2> SUFFICES ASSUME NEW i \in 1..(Len(q) - 1), Tail(q)[i].kind = kind,
                      \A j \in (i + 1)..(Len(q) - 1) : Tail(q)[j].kind # kind
               PROVE  Tail(q)[i].arg = v
    BY <1>1 DEF Latest
  <2>1. \A j \in (i + 2)..Len(q) : j - 1 \in (i + 1)..(Len(q) - 1) /\ Tail(q)[j - 1] = q[j]
    BY <1>1, <1>2
  <2>2. i + 1 \in 1..Len(q) /\ Tail(q)[i] = q[i + 1] /\ (i + 1) + 1 = i + 2
    BY <1>1, <1>2
  <2>3. q[i + 1].kind = kind /\ (\A j \in ((i + 1) + 1)..Len(q) : q[j].kind # kind) => q[i + 1].arg = v
    BY <2>2 DEF Latest
  <2>4. \A j \in (i + 2)..Len(q) : q[j].kind # kind
    BY <2>1
  <2> QED
    BY <2>2, <2>3, <2>4
<1>4. ASSUME NoneOf(Tail(q), kind)
      PROVE  IF Head(q).kind = kind THEN Head(q).arg = v ELSE NoneOf(q, kind)
  <2>1. \A j \in 2..Len(q) : j - 1 \in 1..(Len(q) - 1) /\ Tail(q)[j - 1] = q[j]
    BY <1>1, <1>2
  <2>2. \A j \in 2..Len(q) : q[j].kind # kind
    BY <1>1, <1>4, <2>1 DEF NoneOf
  <2>3. 1 \in 1..Len(q) /\ 1 + 1 = 2 /\ \A j \in 1..Len(q) : j = 1 \/ j \in 2..Len(q)
    BY <1>1
  <2> QED
    BY <1>1, <2>2, <2>3 DEF Latest, NoneOf
<1> QED
  BY <1>1, <1>3, <1>4

\* An event that is held back is the last of its kind.
LEMMA LatestHeld ==
  ASSUME NEW q \in Seq(Events), NEW kind, NEW v, Latest(q, kind, v), NEW e \in Events
  PROVE  /\ Append(q, e) \in Seq(Events)
         /\ IF e.kind = kind THEN Latest(Append(q, e), kind, e.arg) /\ ~NoneOf(Append(q, e), kind)
            ELSE Latest(Append(q, e), kind, v) /\ (NoneOf(Append(q, e), kind) => NoneOf(q, kind))
<1> DEFINE r == Append(q, e)
           n == Len(q)
<1>1. /\ r \in Seq(Events) /\ n \in Nat /\ Len(r) = n + 1 /\ r[n + 1] = e
      /\ \A i \in 1..n : r[i] = q[i]
  OBVIOUS
<1> HIDE DEF r
<1>2. \A i \in 1..(n + 1) : i \in 1..n \/ i = n + 1
  BY <1>1
<1>3. CASE e.kind = kind
  <2>1. Latest(r, kind, e.arg)
    <3> SUFFICES ASSUME NEW i \in 1..(n + 1), r[i].kind = kind,
                        \A j \in (i + 1)..(n + 1) : r[j].kind # kind
                 PROVE  r[i].arg = e.arg
      BY <1>1 DEF Latest
    <3>1. i \in 1..n => n + 1 \in (i + 1)..(n + 1)
      BY <1>1
    <3> QED
      BY <1>1, <1>2, <1>3, <3>1
  <2>2. ~NoneOf(r, kind)
    BY <1>1, <1>3 DEF NoneOf
  <2> QED
    BY <1>1, <1>3, <2>1, <2>2 DEF r
<1>4. CASE e.kind # kind
  <2>1. Latest(r, kind, v)
    <3> SUFFICES ASSUME NEW i \in 1..(n + 1), r[i].kind = kind,
                        \A j \in (i + 1)..(n + 1) : r[j].kind # kind
                 PROVE  r[i].arg = v
      BY <1>1 DEF Latest
    <3>1. i \in 1..n /\ r[i] = q[i]
      BY <1>1, <1>2, <1>4
    <3>2. \A j \in (i + 1)..n : j \in (i + 1)..(n + 1) /\ r[j] = q[j]
      BY <1>1
    <3> QED
      BY <3>1, <3>2 DEF Latest
  <2>2. NoneOf(r, kind) => NoneOf(q, kind)
    <3>1. \A i \in 1..n : i \in 1..(n + 1)
      BY <1>1
    <3> QED
      BY <1>1, <3>1 DEF NoneOf
  <2> QED
    BY <1>1, <1>4, <2>1, <2>2 DEF r
<1> QED
  BY <1>3, <1>4

-----------------------------------------------------------------------------
(* The inductive invariant of the OpenGL programs.                         *)

The == Script[prog]

\* GLFW is up from its initialisation to the end of main, or to an exception.
Lives ==
  /\ prog \in Programs /\ pc \in Nat /\ pc >= 1
  /\ glfw \in [inits : Nat, terms : Nat] /\ glfw.terms <= glfw.inits
  /\ owned => status = "run" /\ glfw.terms < glfw.inits
  /\ status = "run" => pc <= Len(The) /\ (pc > 1 => glfw.terms < glfw.inits)
  /\ prog # "motion" => ~TheRenderer /\ lost = {}
  /\ phase # "none" => pc <= Len(The) /\ The[pc].op = "loop"

\* What was heard of the user, what is still to be heard, and what was made of it.
Hears ==
  /\ pending \in Seq(Events)
  /\ Latest(pending, "move", cursor) /\ Latest(pending, "size", fb)
  /\ prog # "motion" => ~cam.LeftPress /\ \A i \in 1..Len(pending) : pending[i].kind \in {"size", "close"}
  /\ {"LeftPress", "LineMode", "Old", "Angle", "Radius"} \subseteq DOMAIN cam
  /\ {"port", "Aspect"} \subseteq DOMAIN view
  /\ cam.LeftPress /\ NoneOf(pending, "move") => cam.Old = cursor
  /\ pc > 2 /\ NoneOf(pending, "size") => view.port = fb \/ (prog = "motion" /\ view.port = SZ)
  /\ prog = "motion" /\ pc <= 13 => cam.LineMode = FALSE /\ modes = [line |-> FALSE, depth |-> FALSE, cull |-> FALSE]
  /\ prog = "motion" /\ pc > 13 =>
       /\ modes = [line |-> cam.LineMode, depth |-> ~cam.LineMode, cull |-> ~cam.LineMode]
       /\ view.port # SZ => view.Aspect = view.port

OInv == Lives /\ Hears

\* What is due at a call.
LEMMA AtIs ==
  ASSUME OInv, NEW f, AtCall(f)
  PROVE  /\ status = "run" /\ pc \in 1..Len(The) /\ Len(The) \in Nat /\ The[pc].op = f
         /\ f = "init" <=> pc = 1
         /\ f # "init" => glfw.terms < glfw.inits
         /\ f = "window" <=> pc = 2
         /\ f = "terminate" <=> pc = Len(The)
         /\ f # "terminate" => pc + 1 <= Len(The)
         /\ f = "renderer" => prog = "motion"
         /\ f = "modes" <=> prog = "motion" /\ pc = 13
         /\ f = "loop" => pc > 2 /\ (prog = "motion" => pc > 13)
         /\ f # "loop" => phase = "none"
<1>1. prog \in Programs /\ pc \in Nat /\ pc >= 1
  BY DEF OInv, Lives
<1>2. ScriptRight(prog, The)
  BY <1>1, ScriptsRight DEF The
<1>3. status = "run" /\ pc <= Len(The) /\ The[pc].op = f
  BY DEF AtCall, Step, The
<1>4. Len(The) \in Nat /\ pc \in 1..Len(The)
  BY <1>1, <1>2, <1>3 DEF ScriptRight
<1>5. /\ f = "init" <=> pc = 1
      /\ f = "window" <=> pc = 2
      /\ f = "terminate" <=> pc = Len(The)
      /\ f = "renderer" => prog = "motion"
      /\ f = "modes" <=> prog = "motion" /\ pc = 13
      /\ f = "loop" => pc > 2 /\ (prog = "motion" => pc > 13)
  BY <1>2, <1>3, <1>4 DEF ScriptRight
<1>6. f # "loop" => phase = "none"
  BY <1>3 DEF OInv, Lives
<1>7. f # "init" => glfw.terms < glfw.inits
  BY <1>1, <1>3, <1>5 DEF OInv, Lives
<1> QED
  BY <1>3, <1>4, <1>5, <1>6, <1>7

\* Calls that leave alone what the user sees.
LEMMA HearsOn ==
  ASSUME OInv, UNCHANGED <<prog, pending, cursor, fb, view, cam, modes>>,
         pc' = pc \/ (pc' = pc + 1 /\ pc # 2 /\ ~(prog = "motion" /\ pc = 13))
  PROVE  Hears'
<1>1. pc \in Nat
  BY DEF OInv, Lives
<1>2. (pc' > 2 => pc > 2) /\ (prog = "motion" => (pc' <= 13 => pc <= 13) /\ (pc' > 13 => pc > 13))
  BY <1>1
<1> QED
  BY <1>2 DEF OInv, Hears, Latest, NoneOf

\* Calls that go on, or leave main by an exception.
LEMMA LivesOn ==
  ASSUME OInv, NEW f, AtCall(f), f # "loop", f # "terminate",
         Goes, UNCHANGED TheRenderer, UNCHANGED lost,
         IF f = "init" THEN glfw' = [glfw EXCEPT !.inits = @ + 1] ELSE UNCHANGED glfw,
         owned' => owned \/ f = "own"
  PROVE  Lives'
<1>1. /\ status = "run" /\ pc \in 1..Len(The) /\ Len(The) \in Nat /\ phase = "none" /\ pc + 1 <= Len(The)
      /\ f # "init" => glfw.terms < glfw.inits
  BY AtIs
<1>2. /\ pc' = pc + 1 /\ prog' = prog /\ status' = status /\ phase' = phase
      /\ TheRenderer' = TheRenderer /\ lost' = lost
  BY DEF Goes
<1>3. glfw' \in [inits : Nat, terms : Nat] /\ glfw'.terms < glfw'.inits
  BY <1>1 DEF OInv, Lives
<1>4. The' = The
  BY <1>2 DEF The, Script, simplest, extensions, frag_shader, motion
<1> QED
  BY <1>1, <1>2, <1>3, <1>4 DEF OInv, Lives

\* Terminating GLFW once is not too often.
LEMMA Terminates ==
  ASSUME Lives, glfw.terms < glfw.inits, Terminate
  PROVE  glfw' \in [inits : Nat, terms : Nat] /\ glfw'.terms <= glfw'.inits /\ ~owned'
BY DEF Lives, Terminate

\* An exception leaves main, and terminates GLFW if the window was owned.
LEMMA Throws ==
  ASSUME OInv, Throw
  PROVE  OInv'
<1>1. /\ status' = "returned"
      /\ UNCHANGED <<prog, pc, phase, lost, TheRenderer, pending, cursor, fb, view, cam, modes>>
  BY DEF Throw, input, scene
<1>2. glfw' \in [inits : Nat, terms : Nat] /\ glfw'.terms <= glfw'.inits /\ ~owned'
  <2>1. CASE owned
    BY <2>1, Terminates DEF OInv, Lives, Throw
  <2>2. CASE ~owned
    BY <2>2 DEF OInv, Lives, Throw
  <2> QED
    BY <2>1, <2>2
<1>3. The' = The
  BY <1>1 DEF The
<1>4. Lives'
  BY <1>1, <1>2, <1>3 DEF OInv, Lives
<1> QED
  BY <1>1, <1>4, HearsOn DEF OInv

\* Setting up keeps the invariant.
LEMMA SetupStep ==
  ASSUME OInv, Setup
  PROVE  OInv'
<1>1. CASE glfwInit
  <2>1. AtCall("init")
    BY <1>1 DEF glfwInit
  <2>2. CASE Throw
    BY <2>2, Throws
  <2>3. CASE ~Throw
    <3>1. /\ glfw' = [glfw EXCEPT !.inits = @ + 1] /\ Goes
          /\ UNCHANGED <<owned, lost, TheRenderer, pending, cursor, fb, view, cam, modes>>
      BY <1>1, <2>3 DEF glfwInit, input, scene
    <3>2. pc = 1 /\ pc' = pc + 1 /\ prog' = prog
      BY <2>1, <3>1, AtIs DEF Goes
    <3> QED
      BY <2>1, <3>1, <3>2, LivesOn, HearsOn DEF OInv
  <2> QED
    BY <2>2, <2>3
<1>2. CASE glfwCreateWindow
  <2>1. AtCall("window")
    BY <1>2 DEF glfwCreateWindow
  <2>2. CASE Throw
    BY <2>2, Throws
  <2>3. CASE ~Throw
    <3>1. /\ view' = [view EXCEPT !.port = fb] /\ Goes
          /\ UNCHANGED <<glfw, owned, lost, TheRenderer, pending, cursor, fb, cam, modes>>
      BY <1>2, <2>3 DEF glfwCreateWindow, input, life
    <3>2. pc = 2 /\ pc' = 3 /\ prog' = prog
      BY <2>1, <3>1, AtIs DEF Goes
    <3>3. {"port", "Aspect"} \subseteq DOMAIN view' /\ view'.port = fb
      BY <3>1 DEF OInv, Hears
    <3>4. Lives'
      BY <2>1, <3>1, LivesOn
    <3> QED
      BY <3>1, <3>2, <3>3, <3>4 DEF OInv, Hears, Latest, NoneOf
  <2> QED
    BY <2>2, <2>3
<1>3. CASE Load
  <2>1. PICK f \in {"glad", "readFile"} : AtCall(f)
    BY <1>3 DEF Load
  <2>2. CASE Throw
    BY <2>2, Throws
  <2>3. CASE ~Throw
    <3>1. /\ Goes
          /\ UNCHANGED <<glfw, owned, lost, TheRenderer, pending, cursor, fb, view, cam, modes>>
      BY <1>3, <2>3 DEF Load, input, scene, life
    <3>2. pc # 2 /\ pc' = pc + 1 /\ prog' = prog /\ ~(prog = "motion" /\ pc = 13) /\ f # "init"
      BY <2>1, <3>1, AtIs DEF Goes
    <3> QED
      BY <2>1, <3>1, <3>2, LivesOn, HearsOn DEF OInv
  <2> QED
    BY <2>2, <2>3
<1>4. CASE Own
  <2>1. /\ AtCall("own") /\ Goes
        /\ UNCHANGED <<glfw, lost, TheRenderer, pending, cursor, fb, view, cam, modes>>
    BY <1>4 DEF Own, input, scene
  <2>2. pc # 2 /\ pc' = pc + 1 /\ prog' = prog /\ ~(prog = "motion" /\ pc = 13)
    BY <2>1, AtIs DEF Goes
  <2> QED
    BY <2>1, <2>2, LivesOn, HearsOn DEF OInv
<1>5. CASE Generate
  <2>1. /\ AtCall("new") /\ Goes
        /\ UNCHANGED <<glfw, owned, lost, TheRenderer, pending, cursor, fb, view, cam, modes>>
    BY <1>5 DEF Generate, input, scene
  <2>2. pc # 2 /\ pc' = pc + 1 /\ prog' = prog /\ ~(prog = "motion" /\ pc = 13)
    BY <2>1, AtIs DEF Goes
  <2> QED
    BY <2>1, <2>2, LivesOn, HearsOn DEF OInv
<1>6. CASE installShader \/ LinkProgram
  <2>1. PICK f \in {"compile", "link"} : AtCall(f)
    BY <1>6 DEF installShader, LinkProgram
  <2>2. CASE Throw
    BY <2>2, Throws
  <2>3. CASE ~Throw
    <3>1. /\ Goes
          /\ UNCHANGED <<glfw, owned, lost, TheRenderer, pending, cursor, fb, view, cam, modes>>
      BY <1>6, <2>3 DEF installShader, LinkProgram, input, scene, life
    <3>2. pc # 2 /\ pc' = pc + 1 /\ prog' = prog /\ ~(prog = "motion" /\ pc = 13) /\ f # "init"
      BY <2>1, <3>1, AtIs DEF Goes
    <3> QED
      BY <2>1, <3>1, <3>2, LivesOn, HearsOn DEF OInv
  <2> QED
    BY <2>2, <2>3
<1>7. CASE SetModes
  <2>1. /\ AtCall("modes") /\ Goes
        /\ view' = [view EXCEPT !.port = SZ]
        /\ modes' = [modes EXCEPT !.depth = TRUE, !.cull = TRUE]
        /\ UNCHANGED <<glfw, owned, lost, TheRenderer, pending, cursor, fb, cam>>
    BY <1>7 DEF SetModes, input, life
  <2>2. pc = 13 /\ pc' = 14 /\ prog = "motion" /\ prog' = prog
    BY <2>1, AtIs DEF Goes
  <2>3. {"port", "Aspect"} \subseteq DOMAIN view' /\ view'.port = SZ
    BY <2>1 DEF OInv, Hears
  <2>4. cam.LineMode = FALSE /\ modes = [line |-> FALSE, depth |-> FALSE, cull |-> FALSE]
    BY <2>2 DEF OInv, Hears
  <2>5. modes' = [line |-> cam.LineMode, depth |-> ~cam.LineMode, cull |-> ~cam.LineMode]
    <3>1. modes' = [line |-> FALSE, depth |-> TRUE, cull |-> TRUE]
      BY <2>1, <2>4
    <3> QED
      BY <2>4, <3>1
  <2>6. Lives'
    BY <2>1, LivesOn
  <2>7. UNCHANGED <<pending, cursor, fb, cam, prog>>
    BY <2>1, <2>2
  <2>8. modes' = [line |-> cam'.LineMode, depth |-> ~cam'.LineMode, cull |-> ~cam'.LineMode]
    BY <2>5, <2>7
  <2>9. pc' > 13 /\ ~(pc' <= 13)
    BY <2>2
  <2> QED
    BY <2>2, <2>3, <2>6, <2>7, <2>8, <2>9 DEF OInv, Hears, Latest, NoneOf
<1>8. CASE MakeRenderer
  <2>1. /\ AtCall("renderer") /\ Goes
        /\ UNCHANGED <<glfw, owned, lost, pending, cursor, fb, view, cam, modes>>
    BY <1>8 DEF MakeRenderer, input, scene
  <2>2. pc # 2 /\ pc' = pc + 1 /\ prog' = prog /\ prog = "motion" /\ pc # 13
    BY <2>1, AtIs DEF Goes
  <2>3. /\ status = "run" /\ phase = "none" /\ pc + 1 <= Len(The) /\ glfw.terms < glfw.inits
    BY <2>1, AtIs
  <2>4. status' = status /\ phase' = phase /\ The' = The
    BY <2>1, <2>2 DEF Goes, The
  <2>5. Lives'
    BY <2>1, <2>2, <2>3, <2>4 DEF OInv, Lives
  <2> QED
    BY <2>1, <2>2, <2>5, HearsOn DEF OInv
<1> QED
  BY <1>1, <1>2, <1>3, <1>4, <1>5, <1>6, <1>7, <1>8 DEF Setup

\* A deletion is lost when there is no context.
LEMMA ErasesFound ==
  ASSUME NEW os, Erase(os), glfw.terms < glfw.inits, glfw \in [inits : Nat, terms : Nat]
  PROVE  lost' = lost
BY DEF Erase, Context

\* So do deletions, the end of main and the static destructor.
LEMMA EndsStep ==
  ASSUME OInv, Delete \/ Cleanup \/ StaticDestructors
  PROVE  OInv'
<1>1. CASE Delete
  <2>1. /\ AtCall("del") /\ Goes /\ Erase({Step.obj})
        /\ UNCHANGED <<glfw, owned, TheRenderer, pending, cursor, fb, view, cam, modes>>
    BY <1>1 DEF Delete, input, scene
  <2>2. pc # 2 /\ pc' = pc + 1 /\ prog' = prog /\ ~(prog = "motion" /\ pc = 13) /\ glfw.terms < glfw.inits
    BY <2>1, AtIs DEF Goes
  <2>3. lost' = lost
    BY <2>1, <2>2, ErasesFound DEF OInv, Lives
  <2> QED
    BY <2>1, <2>2, <2>3, LivesOn, HearsOn DEF OInv
<1>2. CASE Cleanup
  <2>1. /\ AtCall("terminate") /\ Terminate /\ pc' = pc + 1
        /\ status' = IF pc' > Len(The) THEN "returned" ELSE "run"
        /\ UNCHANGED <<prog, phase, lost, TheRenderer, pending, cursor, fb, view, cam, modes>>
    BY <1>2 DEF Cleanup, input, scene, The
  <2>2. /\ pc = Len(The) /\ Len(The) \in Nat /\ phase = "none" /\ glfw.terms < glfw.inits
        /\ pc # 2 /\ ~(prog = "motion" /\ pc = 13) /\ pc \in Nat /\ pc >= 1
    BY <2>1, AtIs DEF OInv, Lives
  <2>3. status' = "returned"
    BY <2>1, <2>2
  <2>4. glfw' \in [inits : Nat, terms : Nat] /\ glfw'.terms <= glfw'.inits /\ ~owned'
    BY <2>1, <2>2, Terminates DEF OInv
  <2>5. pc' \in Nat /\ pc' >= 1
    BY <2>1, <2>2
  <2>6. Lives'
    BY <2>1, <2>2, <2>3, <2>4, <2>5 DEF OInv, Lives
  <2> QED
    BY <2>1, <2>2, <2>6, HearsOn DEF OInv
<1>3. CASE StaticDestructors
  <2>1. /\ status = "returned" /\ status' = "exited"
        /\ IF TheRenderer THEN Erase({"VAO", "VBO", "IBO"}) ELSE UNCHANGED lost
        /\ TheRenderer' = FALSE
        /\ UNCHANGED <<prog, pc, phase, glfw, owned, pending, cursor, fb, view, cam, modes>>
    BY <1>3 DEF StaticDestructors, input, scene
  <2>2. The' = The
    BY <2>1 DEF The
  <2>3. prog # "motion" => lost' = {}
    BY <2>1 DEF OInv, Lives
  <2>4. Lives'
    BY <2>1, <2>2, <2>3 DEF OInv, Lives
  <2> QED
    BY <2>1, <2>4, HearsOn DEF OInv
<1> QED
  BY <1>1, <1>2, <1>3

\* So does the loop between callbacks.
LEMMA LoopStep ==
  ASSUME OInv, Loop
  PROVE  OInv'
<1>1. CASE Throw
  BY <1>1, Throws
<1>2. CASE ~Throw
  <2>1. /\ AtCall("loop")
        /\ pc' = pc \/ (pc' = pc + 1 /\ phase' = "none")
        /\ UNCHANGED <<prog, status, glfw, owned, lost, TheRenderer, pending, cursor, fb, view, cam, modes>>
    BY <1>2 DEF Loop, Test, simplest_render, extensions_render,
                frag_render, display, Draws, Swap,
                PollDone, life, input, scene
  <2>2. /\ pc > 2 /\ (prog = "motion" => pc > 13) /\ pc + 1 <= Len(The) /\ pc <= Len(The)
        /\ The[pc].op = "loop" /\ status = "run" /\ pc \in Nat /\ Len(The) \in Nat
        /\ glfw.terms < glfw.inits
    BY <2>1, AtIs DEF OInv, Lives
  <2>3. The' = The
    BY <2>1 DEF The
  <2>4. Lives'
    BY <2>1, <2>2, <2>3 DEF OInv, Lives
  <2> QED
    BY <2>1, <2>2, <2>4, HearsOn DEF OInv
<1> QED
  BY <1>1, <1>2

\* What a callback is handed.
LEMMA Delivered ==
  ASSUME OInv, NEW kind, Deliver(kind)
  PROVE  /\ Lives' /\ prog' = prog /\ pc' = pc /\ pc > 2 /\ (prog = "motion" => pc > 13)
         /\ pending' = Tail(pending) /\ pending' \in Seq(Events)
         /\ cursor' = cursor /\ fb' = fb
         /\ Head(pending) \in Events /\ Head(pending).kind = kind
         /\ Latest(pending', "move", cursor) /\ Latest(pending', "size", fb)
         /\ prog # "motion" => kind \in {"size", "close"} /\ \A i \in 1..Len(pending') : pending'[i].kind \in {"size", "close"}
         /\ NoneOf(pending', "move") =>
              IF kind = "move" THEN Arg = cursor ELSE NoneOf(pending, "move")
         /\ NoneOf(pending', "size") =>
              IF kind = "size" THEN Arg = fb ELSE NoneOf(pending, "size")
<1>1. /\ AtCall("loop") /\ pending # << >> /\ Head(pending).kind = kind /\ pending' = Tail(pending)
      /\ UNCHANGED <<prog, pc, status, phase, glfw, owned, lost, TheRenderer, cursor, fb>>
  BY DEF Deliver, life
<1>2. pc > 2 /\ (prog = "motion" => pc > 13)
  BY <1>1, AtIs
<1>3. Lives'
  <2>1. The' = The
    BY <1>1 DEF The
  <2> QED
    BY <1>1, <2>1 DEF OInv, Lives
<1>4. /\ pending \in Seq(Events) /\ Latest(pending, "move", cursor) /\ Latest(pending, "size", fb)
      /\ prog # "motion" => \A i \in 1..Len(pending) : pending[i].kind \in {"size", "close"}
  BY DEF OInv, Hears
<1>5. /\ Tail(pending) \in Seq(Events) /\ Head(pending) \in Events
      /\ Latest(Tail(pending), "move", cursor)
      /\ NoneOf(Tail(pending), "move") =>
           IF Head(pending).kind = "move" THEN Head(pending).arg = cursor ELSE NoneOf(pending, "move")
  BY <1>1, <1>4, LatestDelivered
<1>6. /\ Latest(Tail(pending), "size", fb)
      /\ NoneOf(Tail(pending), "size") =>
           IF Head(pending).kind = "size" THEN Head(pending).arg = fb ELSE NoneOf(pending, "size")
  BY <1>1, <1>4, LatestDelivered
<1>7. prog # "motion" => kind \in {"size", "close"} /\ \A i \in 1..Len(Tail(pending)) : Tail(pending)[i].kind \in {"size", "close"}
  <2>1. /\ Len(pending) \in Nat /\ Len(pending) >= 1 /\ Len(Tail(pending)) = Len(pending) - 1
        /\ Head(pending) = pending[1] /\ \A i \in 1..(Len(pending) - 1) : Tail(pending)[i] = pending[i + 1]
    BY <1>1, <1>4
  <2>2. 1 \in 1..Len(pending) /\ \A i \in 1..(Len(pending) - 1) : i + 1 \in 1..Len(pending)
    BY <2>1
  <2> QED
    BY <1>1, <1>4, <2>1, <2>2
<1> QED
  BY <1>1, <1>2, <1>3, <1>4, <1>5, <1>6, <1>7 DEF Arg

\* So does every callback.
LEMMA CallbacksStep ==
  ASSUME OInv, Callbacks
  PROVE  OInv'
<1>0. pc \in Nat
  BY DEF OInv, Lives
<1>1. CASE notifyKey
  <2>1. Deliver("key")
    BY <1>1 DEF notifyKey
  <2>2. PICK line, turn :
          /\ line = IF Arg = "L" THEN ~cam.LineMode ELSE cam.LineMode
          /\ cam' = [cam EXCEPT !.Radius = @ + turn, !.LineMode = line]
          /\ modes' = IF Arg # "L" THEN modes
                      ELSE [line |-> line, depth |-> ~line, cull |-> ~line]
          /\ view' = view
    BY <1>1 DEF notifyKey
  <2>3. prog = "motion" /\ prog' = prog /\ pc' = pc /\ pc > 13 /\ ~(pc' <= 13)
    BY <1>0, <2>1, Delivered
  <2>4. modes = [line |-> cam.LineMode, depth |-> ~cam.LineMode, cull |-> ~cam.LineMode]
    BY <2>3 DEF OInv, Hears
  <2>5. /\ DOMAIN cam' = DOMAIN cam /\ cam'.LineMode = line
        /\ cam'.LeftPress = cam.LeftPress /\ cam'.Old = cam.Old
    BY <2>2 DEF OInv, Hears
  <2>6. modes' = [line |-> line, depth |-> ~line, cull |-> ~line]
    BY <2>2, <2>4
  <2>7. modes' = [line |-> cam'.LineMode, depth |-> ~cam'.LineMode, cull |-> ~cam'.LineMode]
    BY <2>5, <2>6
  <2>8. /\ Lives' /\ pending' \in Seq(Events) /\ cursor' = cursor /\ fb' = fb
        /\ Latest(pending', "move", cursor') /\ Latest(pending', "size", fb')
        /\ NoneOf(pending', "move") => NoneOf(pending, "move")
        /\ NoneOf(pending', "size") => NoneOf(pending, "size")
    BY <2>1, Delivered
  <2>9. view' = view
    BY <2>2
  <2> QED
    BY <2>3, <2>5, <2>7, <2>8, <2>9 DEF OInv, Hears
<1>2. CASE notifyMouseMove
  <2>1. Deliver("move") /\ UNCHANGED <<view, modes>>
    BY <1>2 DEF notifyMouseMove
  <2>2. prog = "motion" /\ prog' = prog /\ pc' = pc /\ pc > 13 /\ ~(pc' <= 13)
    BY <1>0, <2>1, Delivered
  <2>3. /\ DOMAIN cam' = DOMAIN cam /\ cam'.LineMode = cam.LineMode /\ cam'.LeftPress = cam.LeftPress
        /\ cam.LeftPress => cam'.Old = Arg
    BY <1>2 DEF notifyMouseMove, OInv, Hears
  <2>4. modes' = [line |-> cam'.LineMode, depth |-> ~cam'.LineMode, cull |-> ~cam'.LineMode]
    BY <2>1, <2>2, <2>3 DEF OInv, Hears
  <2> QED
    BY <2>1, <2>2, <2>3, <2>4, Delivered DEF OInv, Hears
<1>3. CASE notifyMouseButton
  <2>1. Deliver("left") /\ UNCHANGED <<view, modes>>
    BY <1>3 DEF notifyMouseButton
  <2>2. prog = "motion" /\ prog' = prog /\ pc' = pc /\ pc > 13 /\ ~(pc' <= 13)
    BY <1>0, <2>1, Delivered
  <2>3. /\ DOMAIN cam' = DOMAIN cam /\ cam'.LineMode = cam.LineMode
        /\ cam'.LeftPress => cam'.Old = cursor
    BY <1>3 DEF notifyMouseButton, OInv, Hears
  <2>4. modes' = [line |-> cam'.LineMode, depth |-> ~cam'.LineMode, cull |-> ~cam'.LineMode]
    BY <2>1, <2>2, <2>3 DEF OInv, Hears
  <2> QED
    BY <2>1, <2>2, <2>3, <2>4, Delivered DEF OInv, Hears
<1>4. CASE notifySize
  <2>1. Deliver("size") /\ view' = [port |-> Arg, Aspect |-> Arg]
        /\ UNCHANGED <<cam, modes>> /\ prog = "motion"
    BY <1>4 DEF notifySize
  <2>2. prog' = prog /\ pc' = pc /\ pc > 13 /\ ~(pc' <= 13)
    BY <1>0, <2>1, Delivered
  <2>3. modes' = [line |-> cam'.LineMode, depth |-> ~cam'.LineMode, cull |-> ~cam'.LineMode]
    BY <2>1, <2>2 DEF OInv, Hears
  <2> QED
    BY <2>1, <2>2, <2>3, Delivered DEF OInv, Hears
<1>5. CASE framebuffer_size_callback
  <2>1. Deliver("size") /\ view' = [view EXCEPT !.port = Arg]
        /\ UNCHANGED <<cam, modes>> /\ prog # "motion"
    BY <1>5 DEF framebuffer_size_callback
  <2>2. prog' = prog /\ pc' = pc
    BY <2>1, Delivered
  <2>3. DOMAIN view' = DOMAIN view /\ view'.port = Arg
    BY <2>1 DEF OInv, Hears
  <2> QED
    BY <2>1, <2>2, <2>3, Delivered DEF OInv, Hears
<1>6. CASE SetShouldClose
  <2>1. Deliver("close") /\ UNCHANGED <<view, cam, modes>>
    BY <1>6 DEF SetShouldClose
  <2>2. prog' = prog /\ pc' = pc
    BY <2>1, Delivered
  <2>3. /\ Lives' /\ pending' \in Seq(Events) /\ cursor' = cursor /\ fb' = fb
        /\ Latest(pending', "move", cursor') /\ Latest(pending', "size", fb')
        /\ NoneOf(pending', "move") => NoneOf(pending, "move")
        /\ NoneOf(pending', "size") => NoneOf(pending, "size")
        /\ prog # "motion" => \A i \in 1..Len(pending') : pending'[i].kind \in {"size", "close"}
    BY <2>1, Delivered
  <2> QED
    BY <2>1, <2>2, <2>3 DEF OInv, Hears
<1> QED
  BY <1>1, <1>2, <1>3, <1>4, <1>5, <1>6 DEF Callbacks

\* So does the user, who is ahead of the callbacks.
LEMMA UserStep ==
  ASSUME OInv, UserActs
  PROVE  OInv'
<1>1. PICK e \in Events : Happens(e)
  <2>1. /\ \A p \in Points : Event("move", p) \in Events
        /\ \A down \in BOOLEAN : Event("left", down) \in Events
        /\ \A key \in {"W", "S", "L"} : Event("key", key) \in Events
        /\ \A s \in Sizes : Event("size", s) \in Events
        /\ Event("close", "none") \in Events
    BY DEF Events, Event
  <2> QED
    BY <2>1 DEF UserActs
<1>2. /\ pending' = IF prog = "motion" \/ e.kind \in {"size", "close"} THEN Append(pending, e) ELSE pending
      /\ cursor' = IF e.kind = "move" THEN e.arg ELSE cursor
      /\ fb' = IF e.kind = "size" THEN e.arg ELSE fb
      /\ UNCHANGED <<prog, pc, status, phase, glfw, owned, lost, TheRenderer, view, cam, modes>>
  BY <1>1 DEF Happens, life, scene
<1>3. Lives'
  <2>1. The' = The
    BY <1>2 DEF The
  <2> QED
    BY <1>2, <2>1 DEF OInv, Lives
<1>4. /\ pending \in Seq(Events) /\ Latest(pending, "move", cursor) /\ Latest(pending, "size", fb)
      /\ prog # "motion" => ~cam.LeftPress /\ \A i \in 1..Len(pending) : pending[i].kind \in {"size", "close"}
  BY DEF OInv, Hears
<1>5. CASE prog = "motion" \/ e.kind \in {"size", "close"}
  <2>1. pending' = Append(pending, e)
    BY <1>2, <1>5
  <2>2. /\ pending' \in Seq(Events) /\ Latest(pending', "move", cursor')
        /\ NoneOf(pending', "move") => NoneOf(pending, "move") /\ cursor' = cursor
    BY <1>2, <1>4, <2>1, LatestHeld
  <2>3. /\ Latest(pending', "size", fb')
        /\ NoneOf(pending', "size") => NoneOf(pending, "size") /\ fb' = fb
    BY <1>2, <1>4, <2>1, LatestHeld
  <2>4. prog # "motion" => \A i \in 1..Len(pending') : pending'[i].kind \in {"size", "close"}
    <3>1. /\ Len(pending) \in Nat /\ Len(pending') = Len(pending) + 1 /\ pending'[Len(pending) + 1] = e
          /\ \A i \in 1..Len(pending) : pending'[i] = pending[i]
      BY <1>4, <2>1
    <3>2. \A i \in 1..(Len(pending) + 1) : i \in 1..Len(pending) \/ i = Len(pending) + 1
      BY <3>1
    <3> QED
      BY <1>4, <1>5, <3>1, <3>2
  <2> QED
    BY <1>2, <1>3, <2>2, <2>3, <2>4 DEF OInv, Hears
<1>6. CASE prog # "motion" /\ e.kind \notin {"size", "close"}
  <2>1. pending' = pending /\ fb' = fb
    BY <1>2, <1>6
  <2>2. NoneOf(pending, "move") /\ ~cam.LeftPress
    BY <1>4, <1>6 DEF NoneOf
  <2>3. Latest(pending', "move", cursor')
    BY <2>1, <2>2 DEF Latest, NoneOf
  <2> QED
    BY <1>2, <1>3, <1>6, <2>1, <2>2, <2>3 DEF OInv, Hears
<1> QED
  BY <1>5, <1>6

\* The OpenGL programs begin with the invariant true.
LEMMA OInit ==
  ASSUME Init
  PROVE  OInv
<1>1. /\ prog \in DOMAIN Script /\ pc = 1 /\ status = "run"
      /\ glfw = [inits |-> 0, terms |-> 0] /\ owned = FALSE /\ lost = {} /\ TheRenderer = FALSE
      /\ phase = "none" /\ pending = << >>
      /\ modes = [line |-> FALSE, depth |-> FALSE, cull |-> FALSE]
  BY DEF Init
<1>2. view = [port |-> NoPort, Aspect |-> SZ]
  BY DEF Init
<1>3. PICK p \in Points : cam = [Angle |-> <<0, 0>>, Radius |-> StartRadius, LeftPress |-> FALSE,
                                LineMode |-> FALSE, Old |-> p]
  BY DEF Init
<1>4. cam.LeftPress = FALSE /\ cam.LineMode = FALSE
      /\ {"LeftPress", "LineMode", "Old", "Angle", "Radius"} \subseteq DOMAIN cam
  BY <1>3
<1>5. prog \in Programs
  BY <1>1 DEF Script, Programs
<1>6. ScriptRight(prog, The)
  BY <1>5, ScriptsRight DEF The
<1>7. Lives
  BY <1>1, <1>5, <1>6 DEF Lives, ScriptRight
<1>8. pending \in Seq(Events) /\ Len(pending) = 0 /\ \A i \in 1..Len(pending) : FALSE
  BY <1>1
<1>9. Hears
  BY <1>1, <1>2, <1>4, <1>8 DEF Hears, Latest, NoneOf
<1> QED
  BY <1>7, <1>9 DEF OInv

\* Every step of theirs keeps it.
LEMMA OStep ==
  ASSUME OInv, Next \/ UNCHANGED vars
  PROVE  OInv'
<1>1. CASE UNCHANGED vars
  <2>1. UNCHANGED <<prog, pc, status, phase, glfw, owned, lost, TheRenderer, pending, cursor, fb, view, cam, modes>>
    BY <1>1 DEF vars, life, input, scene
  <2>2. The' = The
    BY <2>1 DEF The
  <2>3. Lives'
    BY <2>1, <2>2 DEF OInv, Lives
  <2> QED
    BY <2>1, <2>3, HearsOn DEF OInv
<1> QED
  BY <1>1, SetupStep, LoopStep, CallbacksStep, UserStep, EndsStep DEF Next

\* It is stronger than what is promised of window and callbacks.
LEMMA OProperties ==
  ASSUME OInv
  PROVE  WindowOutlivesObjects /\ CallbacksCatchUp
<1>1. WindowOutlivesObjects
  BY DEF OInv, Lives, WindowOutlivesObjects
<1>2. ASSUME phase # "none"
      PROVE  pc > 2 /\ (prog = "motion" => pc > 13)
  <2>1. prog \in Programs /\ pc \in Nat /\ pc >= 1 /\ pc <= Len(The) /\ The[pc].op = "loop"
    BY <1>2 DEF OInv, Lives
  <2>2. ScriptRight(prog, The)
    BY <2>1, ScriptsRight DEF The
  <2>3. pc \in 1..Len(The)
    BY <2>1, <2>2 DEF ScriptRight
  <2> QED
    BY <2>1, <2>2, <2>3 DEF ScriptRight
<1>3. \A kind : Handled(kind) <=> NoneOf(pending, kind)
  <2>1. DOMAIN pending = 1..Len(pending)
    BY DEF OInv, Hears
  <2> QED
    BY <2>1 DEF Handled, NoneOf
<1>4. CallbacksCatchUp
  BY <1>2, <1>3 DEF OInv, Hears, CallbacksCatchUp
<1> QED
  BY <1>1, <1>4

-----------------------------------------------------------------------------
(* The GLUT programs: the mouse is in acts, where a drag began in cursor.  *)

GInv == {"x", "held"} \subseteq DOMAIN acts /\ Glut!DragSmooth

\* A GLUT program begins with no drag.
LEMMA GInit ==
  ASSUME Glut!Init
  PROVE  GInv
BY DEF Glut!Init, GInv, Glut!DragSmooth

\* Every callback of GLUT keeps the drag's beginning where the mouse is.
LEMMA GStep ==
  ASSUME GInv, Glut!Next \/ UNCHANGED Glut!vars
  PROVE  GInv'
<1>1. CASE UNCHANGED <<acts, cursor>>
  BY <1>1 DEF GInv, Glut!DragSmooth
<1>2. ASSUME NEW b \in {"left", "middle"}, Glut!movelight(b)
      PROVE  GInv'
  <2>1. /\ acts.held \in {"none", b}
        /\ acts' = [acts EXCEPT !.held = IF acts.held = b THEN "none" ELSE b]
        /\ cursor' = IF b = "left" /\ acts.held = "none" THEN acts.x ELSE cursor
    BY <1>2 DEF Glut!movelight
  <2> QED
    BY <2>1 DEF GInv, Glut!DragSmooth
<1>3. ASSUME NEW x \in Xs, Glut!motion(x) \/ Glut!Hover(x)
      PROVE  GInv'
  <2>1. acts' = [acts EXCEPT !.x = x] /\ (cursor' = x \/ acts.held = "none")
    BY <1>3 DEF Glut!motion, Glut!Hover
  <2> QED
    BY <2>1 DEF GInv, Glut!DragSmooth
<1>4. ASSUME UNCHANGED Glut!vars
      PROVE  UNCHANGED <<acts, cursor>>
  BY <1>4 DEF Glut!vars
<1>5. ASSUME \/ \E s \in 1..2 : Glut!reshape(s)
             \/ Glut!display
             \/ \E key \in {0, 2, 6} : Glut!keyboard_function(key)
             \/ \E item \in {Glut!TORUS, Glut!DOD, Glut!QUIT} :
                  Glut!menu_select(item)
             \/ \E v \in {-1, 360} : Glut!dials(v)
      PROVE  UNCHANGED <<acts, cursor>>
  BY <1>5 DEF Glut!reshape, Glut!display, Glut!keyboard_function,
              Glut!menu_select, Glut!dials, Glut!globals
<1> QED
  BY <1>1, <1>2, <1>3, <1>4, <1>5 DEF Glut!Next

-----------------------------------------------------------------------------
(* The results about MCGraphics.                                           *)

\* The inductive invariant of MCGraphics: that of the program it runs.
AnyInv == /\ part = "vulkan" => VInv
          /\ part = "opengl" => OInv
          /\ part = "glut" => GInv

\* Whichever program runs, it keeps its invariant.
LEMMA AlwaysAnyInv == AnySpec => []AnyInv
<1>1. AnyInit => AnyInv
  BY VInit, OInit, GInit DEF AnyInit, AnyInv
<1>2. AnyInv /\ [AnyNext]_(anyVars) => AnyInv'
  <2> SUFFICES ASSUME AnyInv, [AnyNext]_(anyVars) PROVE AnyInv'
    OBVIOUS
  <2>1. part' = part
    BY DEF AnyNext, anyVars
  <2>2. CASE part = "vulkan"
    <3>1. Vk!Next \/ UNCHANGED Vk!vars
      BY <2>2 DEF AnyNext, anyVars, vars, life, input,
                  scene, Vk!vars
    <3> QED
      BY <2>1, <2>2, <3>1, VStep DEF AnyInv
  <2>3. CASE part = "opengl"
    <3>1. Next \/ UNCHANGED vars
      BY <2>3 DEF AnyNext, anyVars
    <3> QED
      BY <2>1, <2>3, <3>1, OStep DEF AnyInv
  <2>4. CASE part = "glut"
    <3>1. Glut!Next \/ UNCHANGED Glut!vars
      BY <2>4 DEF AnyNext, anyVars, vars, life, input,
                  scene, Glut!vars
    <3> QED
      BY <2>1, <2>4, <3>1, GStep DEF AnyInv
  <2>5. CASE part \notin {"vulkan", "opengl", "glut"}
    BY <2>1, <2>5 DEF AnyInv
  <2> QED
    BY <2>2, <2>3, <2>4, <2>5
<1> QED
  BY <1>1, <1>2, PTL DEF AnySpec

\* vk-simplest calls nothing before all it needs is there, however often the swap chain
\* is made anew and whichever call throws during start-up.
THEOREM AlwaysInOrder == AnySpec => []VulkanInOrder
<1>1. AnyInv => VulkanInOrder
  BY VProperties DEF AnyInv, VulkanInOrder
<1> QED
  BY <1>1, AlwaysAnyInv, PTL

\* When vk-simplest runs, nothing it draws with was made from an object of an earlier
\* swap chain.
THEOREM AlwaysFresh == AnySpec => []VulkanFresh
<1>1. AnyInv => VulkanFresh
  BY VProperties DEF AnyInv, VulkanFresh
<1> QED
  BY <1>1, AlwaysAnyInv, PTL

\* vk-simplest destroys children before parents, whatever has thrown; it destroys only what
\* there is, and so every object once, as long as no creation has failed (an exception makes
\* its destructor destroy handles a second time).  GLFW is terminated no more often than
\* initialised, and only ogl-motion deletes objects without a context.
THEOREM AlwaysDestroyedInOrder == AnySpec => []DestroyedInOrder
<1>1. AnyInv => DestroyedInOrder
  BY VProperties, OProperties DEF AnyInv, DestroyedInOrder
<1> QED
  BY <1>1, AlwaysAnyInv, PTL

\* Though callbacks run late, when none is due the drag, the modes and the viewport are
\* those the user left, after any number of events and for any points and sizes.
THEOREM AlwaysInputNoted == AnySpec => []InputNoted
<1>1. AnyInv => InputNoted
  BY OProperties DEF AnyInv, GInv, InputNoted
<1> QED
  BY <1>1, AlwaysAnyInv, PTL
=============================================================================
