--------------------------- MODULE Backends_proofs ---------------------------
(* Theorems about VulkanSetup, Barriers and MetalDevice, for every value of *)
(* their constants: every Vulkan installation, build and application, and   *)
(* every resource of the backends.                                          *)
EXTENDS VulkanSetup, Barriers, TLAPS, FiniteSetTheorems, NaturalsInduction,
        WellFoundedInduction, SequenceTheorems

(* The steps at which there is an instance, and those after its entry      *)
(* points were loaded.                                                     *)
WithInstance == {"instanceProcs", "registerDebugReport", "physicalDevices", "deviceInfo",
                 "device", "deviceProcs", "ready"}
WithProcs == WithInstance \ {"instanceProcs"}
Over == {"failed", "aborted", "destroyed"}

(* The invariant of the setup: a knob stands for what the machine has, and  *)
(* the instance is asked for surfaces when there are any, ...               *)
Objects == {"instance", "debugReport", "device", "surface", "swapchain", "memory"}
Extensions == STRING \cup {"debugReport", "surface"}
Layers == {"standardValidation", "vktrace", "renderDocCapture"}
KnobsInv ==
  /\ driver \in Drivers /\ required \in Seq(Extensions)
  /\ info \subseteq (driver.layers \cap Layers)
                      \cup (driver.extensions \cap {"debugReport", "surface"}) \cup {"swapchain"}
  /\ "swapchain" \in info => "surface" \in driver.extensions
  /\ at \notin {"globalProcs", "globalInfo"} \cup Over =>
       driver.extensions \cap {"debugReport", "surface"} \subseteq info
  /\ at \in {"deviceInfo", "device", "deviceProcs", "ready"} => driver.gpus # <<>>
  /\ extensionsToRequest \in Seq(Extensions)
  /\ at \in WithInstance =>
       /\ Contains(extensionsToRequest, "surface") => "surface" \in used
       /\ "surface" \in driver.extensions => Contains(extensionsToRequest, "surface")

(* ... what is asked for is there, ...                                      *)
RequestsInv ==
  /\ layersToRequest \in Seq(Layers) /\ deviceExtensions \in Seq({"swapchain"})
  /\ at \in {"globalProcs", "globalInfo", "instance"} => deviceExtensions = <<>>
  /\ RequestsAreAvailable

(* ... what a step or an object needs is loaded, ...                        *)
LoadedInv ==
  /\ unloaded = {}
  /\ at \notin {"globalProcs"} \cup Over => "global" \in loaded
  /\ at \in WithProcs => {"destroyInstance", "instance"} \subseteq loaded
  /\ at \in WithProcs => used \cap {"debugReport", "surface"} \subseteq loaded
  /\ at = "registerDebugReport" => "debugReport" \in used
  /\ at = "ready" => {"device"} \cup (used \cap {"swapchain"}) \subseteq loaded
  /\ "debugReport" \in made => "debugReport" \in loaded
  /\ "surface" \in made => {"surface", "swapchain"} \subseteq loaded

(* ... and a surface that goes takes its swap chain with it.                *)
ObjectsInv ==
  /\ made \subseteq Objects
  /\ deleting \subseteq made \cap {"surface", "swapchain", "memory"}
  /\ gone \in Seq(Objects)
  /\ at # "destroyed" => ToSet(gone) \subseteq {"surface", "swapchain", "memory"}
  /\ "surface" \in ToSet(gone) => "surface" \notin made
  /\ "swapchain" \in made => "surface" \in made
  /\ "surface" \in deleting /\ "swapchain" \in made => "swapchain" \in deleting
  /\ at = "destroyed" => made = {}

-----------------------------------------------------------------------------
(* What is pushed.                                                         *)
LEMMA PushedIs ==
  ASSUME NEW V, NEW x \in V, NEW c \in BOOLEAN
  PROVE  /\ Pushed(x, c) = IF c THEN <<x>> ELSE <<>>
         /\ Pushed(x, c) \in Seq(V)
         /\ ToSet(Pushed(x, c)) = IF c THEN {x} ELSE {}
         /\ Len(Pushed(x, c)) = IF c THEN 1 ELSE 0
         /\ IsInjective(Pushed(x, c))
<1>1. CASE c
  <2>1. Pushed(x, c) = <<x>>
    BY <1>1 DEF Pushed
  <2>2. DOMAIN <<x>> = {1} /\ Len(<<x>>) = 1 /\ <<x>>[1] = x /\ <<x>> \in Seq(V)
    OBVIOUS
  <2>3. ToSet(<<x>>) = {x} /\ IsInjective(<<x>>)
    BY <2>2 DEF ToSet, IsInjective
  <2>4. QED
    BY <1>1, <2>1, <2>2, <2>3
<1>2. CASE ~c
  <2>1. Pushed(x, c) = <<>>
    BY <1>2 DEF Pushed
  <2>2. DOMAIN <<>> = {} /\ Len(<<>>) = 0 /\ <<>> \in Seq(V)
    OBVIOUS
  <2>3. ToSet(<<>>) = {} /\ IsInjective(<<>>)
    BY <2>2 DEF ToSet, IsInjective
  <2>4. QED
    BY <1>2, <2>1, <2>2, <2>3
<1>3. QED
  BY <1>1, <1>2

(* The elements of two sequences, one after the other.                     *)
LEMMA Joined ==
  ASSUME NEW V, NEW s \in Seq(V), NEW t \in Seq(V)
  PROVE  /\ s \o t \in Seq(V)
         /\ ToSet(s \o t) = ToSet(s) \cup ToSet(t)
         /\ Len(s \o t) = Len(s) + Len(t)
         /\ \A i \in 1..Len(s) : (s \o t)[i] = s[i]
         /\ \A i \in 1..Len(t) : (s \o t)[Len(s) + i] = t[i]
<1>1. s \o t \in Seq(V) /\ Len(s \o t) = Len(s) + Len(t)
  OBVIOUS
<1>2. \A i \in 1..Len(s) : (s \o t)[i] = s[i]
  OBVIOUS
<1>3. \A i \in 1..Len(t) : (s \o t)[Len(s) + i] = t[i]
  OBVIOUS
<1>4. ToSet(s) \cup ToSet(t) \subseteq ToSet(s \o t)
  <2>1. \A i \in DOMAIN s : i \in DOMAIN (s \o t) /\ (s \o t)[i] = s[i]
    OBVIOUS
  <2>2. \A i \in DOMAIN t : Len(s) + i \in DOMAIN (s \o t) /\ (s \o t)[Len(s) + i] = t[i]
    OBVIOUS
  <2>3. QED
    BY <2>1, <2>2 DEF ToSet
<1>5. ToSet(s \o t) \subseteq ToSet(s) \cup ToSet(t)
  <2>1. ASSUME NEW i \in DOMAIN (s \o t)
        PROVE  (s \o t)[i] \in ToSet(s) \cup ToSet(t)
    <3>1. CASE i <= Len(s)
      BY <3>1 DEF ToSet
    <3>2. CASE i > Len(s)
      <4>1. i - Len(s) \in DOMAIN t /\ (s \o t)[i] = t[i - Len(s)]
        BY <3>2
      <4>2. QED
        BY <4>1 DEF ToSet
    <3>3. QED
      BY <3>1, <3>2
  <2>2. QED
    BY <2>1 DEF ToSet
<1>6. QED
  BY <1>1, <1>2, <1>3, <1>4, <1>5

(* Contains is membership of the elements.                                 *)
LEMMA ContainsIs ==
  ASSUME NEW V, NEW s \in Seq(V), NEW e
  PROVE  Contains(s, e) <=> e \in ToSet(s)
BY DEF Contains, ToSet

(* An extension is asked for once more, or was asked for already.          *)
LEMMA AddedIs ==
  ASSUME NEW V, NEW s \in Seq(V), NEW e \in V
  PROVE  /\ AddExtensionIfNotPresent(s, e) \in Seq(V)
         /\ ToSet(AddExtensionIfNotPresent(s, e)) = ToSet(s) \cup {e}
         /\ IsInjective(s) => IsInjective(AddExtensionIfNotPresent(s, e))
<1>1. CASE Contains(s, e)
  BY <1>1, ContainsIs DEF AddExtensionIfNotPresent
<1>2. CASE ~Contains(s, e)
  <2> DEFINE a == Append(s, e)
  <2>1. a \in Seq(V) /\ Len(a) = Len(s) + 1 /\ a[Len(s) + 1] = e
    OBVIOUS
  <2>2. \A i \in DOMAIN s : a[i] = s[i]
    OBVIOUS
  <2>3. DOMAIN a = DOMAIN s \cup {Len(s) + 1}
    OBVIOUS
  <2> HIDE DEF a
  <2>4. ToSet(a) = ToSet(s) \cup {e}
    BY <2>1, <2>2, <2>3 DEF ToSet
  <2>5. e \notin ToSet(s)
    BY <1>2, ContainsIs
  <2>6. ASSUME IsInjective(s) PROVE IsInjective(a)
    BY <2>1, <2>2, <2>3, <2>5, <2>6 DEF IsInjective, ToSet
  <2>7. AddExtensionIfNotPresent(s, e) = a
    BY <1>2 DEF AddExtensionIfNotPresent, a
  <2>8. QED
    BY <2>1, <2>4, <2>6, <2>7
<1>3. QED
  BY <1>1, <1>2

(* No child comes after a parent.                                          *)
Precedes(s, child, parent) ==
  \A i, j \in DOMAIN s : s[i] = parent /\ s[j] = child => j < i

(* One sequence after the other keeps the order when no parent comes first.*)
LEMMA JoinedPrecedes ==
  ASSUME NEW V, NEW s \in Seq(V), NEW t \in Seq(V), NEW child, NEW parent,
         Precedes(s, child, parent), Precedes(t, child, parent),
         parent \notin ToSet(s) \/ child \notin ToSet(t)
  PROVE  Precedes(s \o t, child, parent)
<1> DEFINE st == s \o t
<1>1. DOMAIN st = 1..(Len(s) + Len(t)) /\ DOMAIN s = 1..Len(s) /\ DOMAIN t = 1..Len(t)
  OBVIOUS
<1>2. /\ \A i \in 1..Len(s) : st[i] = s[i]
      /\ \A i \in 1..Len(t) : st[Len(s) + i] = t[i]
  BY Joined
<1>3. Len(s) \in Nat /\ Len(t) \in Nat
  OBVIOUS
<1> HIDE DEF st
<1>4. ASSUME NEW i \in DOMAIN st, NEW j \in DOMAIN st, st[i] = parent, st[j] = child
      PROVE  j < i
  <2>1. CASE i <= Len(s) /\ j <= Len(s)
    <3>1. i \in DOMAIN s /\ j \in DOMAIN s /\ s[i] = parent /\ s[j] = child
      BY <2>1, <1>1, <1>2, <1>3, <1>4
    <3>2. QED
      BY <3>1 DEF Precedes
  <2>2. CASE i > Len(s) /\ j > Len(s)
    <3>1. i - Len(s) \in DOMAIN t /\ j - Len(s) \in DOMAIN t
      BY <2>2, <1>1, <1>3
    <3>2. t[i - Len(s)] = parent /\ t[j - Len(s)] = child
      <4>1. st[Len(s) + (i - Len(s))] = t[i - Len(s)] /\ st[Len(s) + (j - Len(s))] = t[j - Len(s)]
        BY <3>1, <1>1, <1>2
      <4>2. Len(s) + (i - Len(s)) = i /\ Len(s) + (j - Len(s)) = j
        BY <1>1, <1>3
      <4>3. QED
        BY <4>1, <4>2, <1>4
    <3>3. j - Len(s) < i - Len(s)
      BY <3>1, <3>2 DEF Precedes
    <3>4. QED
      BY <3>3, <1>1, <1>3
  <2>3. CASE i > Len(s) /\ j <= Len(s)
    BY <2>3, <1>1, <1>3
  <2>4. CASE i <= Len(s) /\ j > Len(s)
    <3>1. i \in DOMAIN s /\ s[i] = parent
      BY <2>4, <1>1, <1>2, <1>3, <1>4
    <3>2. j - Len(s) \in DOMAIN t
      BY <2>4, <1>1, <1>3
    <3>3. t[j - Len(s)] = child
      <4>1. st[Len(s) + (j - Len(s))] = t[j - Len(s)]
        BY <3>2, <1>1, <1>2
      <4>2. Len(s) + (j - Len(s)) = j
        BY <1>1, <1>3
      <4>3. QED
        BY <4>1, <4>2, <1>4
    <3>4. parent \in ToSet(s) /\ child \in ToSet(t)
      BY <3>1, <3>2, <3>3 DEF ToSet
    <3>5. QED
      BY <3>4
  <2>5. QED
    BY <2>1, <2>2, <2>3, <2>4, <1>1, <1>3
<1>5. QED
  BY <1>4 DEF Precedes, st

(* The elements and the order of what is pushed from an order of three.    *)
LEMMA InTurnIs ==
  ASSUME NEW V, NEW a \in V, NEW b \in V, NEW c \in V, a # b, b # c, a # c, NEW there,
         NEW turn, turn = InTurn(<<a, b, c>>, there)
  PROVE  /\ turn \in Seq(V)
         /\ ToSet(turn) = there \cap {a, b, c}
         /\ Precedes(turn, a, b) /\ Precedes(turn, b, c) /\ Precedes(turn, a, c)
<1> DEFINE p(x) == Pushed(x, x \in there)
<1>1. turn = (p(a) \o p(b)) \o p(c)
  BY DEF InTurn
<1>2. ASSUME NEW x \in V
      PROVE  /\ p(x) \in Seq(V)
             /\ ToSet(p(x)) = there \cap {x}
             /\ \A y, z : y # z => Precedes(p(x), y, z)
  <2>1. (x \in there) \in BOOLEAN
    OBVIOUS
  <2>2. /\ p(x) = IF x \in there THEN <<x>> ELSE <<>>
        /\ p(x) \in Seq(V)
        /\ ToSet(p(x)) = IF x \in there THEN {x} ELSE {}
    BY <2>1, PushedIs
  <2>3. \A i \in DOMAIN p(x) : p(x)[i] = x
    BY <2>2 DEF ToSet
  <2>4. QED
    BY <2>2, <2>3 DEF Precedes
<1> HIDE DEF p
<1>3. /\ p(a) \o p(b) \in Seq(V)
      /\ ToSet(p(a) \o p(b)) = there \cap {a, b}
  <2>1. p(a) \in Seq(V) /\ p(b) \in Seq(V)
    BY <1>2
  <2>2. /\ p(a) \o p(b) \in Seq(V)
        /\ ToSet(p(a) \o p(b)) = ToSet(p(a)) \cup ToSet(p(b))
    BY <2>1, Joined
  <2>3. ToSet(p(a)) = there \cap {a} /\ ToSet(p(b)) = there \cap {b}
    BY <1>2
  <2>4. QED
    BY <2>2, <2>3
<1>4. /\ Precedes(p(a) \o p(b), a, b)
      /\ Precedes(p(a) \o p(b), a, c)
      /\ Precedes(p(a) \o p(b), b, c)
  <2>1. /\ p(a) \in Seq(V) /\ p(b) \in Seq(V)
        /\ ToSet(p(a)) = there \cap {a} /\ ToSet(p(b)) = there \cap {b}
    BY <1>2
  <2>2. \A y, z : y # z => Precedes(p(a), y, z) /\ Precedes(p(b), y, z)
    BY <1>2
  <2>3. b \notin ToSet(p(a)) /\ c \notin ToSet(p(a))
    BY <2>1
  <2>4. QED
    BY <2>1, <2>2, <2>3, JoinedPrecedes
<1>5. /\ p(c) \in Seq(V) /\ ToSet(p(c)) = there \cap {c}
      /\ Precedes(p(c), a, b) /\ Precedes(p(c), a, c) /\ Precedes(p(c), b, c)
  BY <1>2
<1>6. turn \in Seq(V) /\ ToSet(turn) = there \cap {a, b, c}
  <2>1. turn \in Seq(V) /\ ToSet(turn) = ToSet(p(a) \o p(b)) \cup ToSet(p(c))
    <3> DEFINE ab == p(a) \o p(b)
    <3>1. ab \in Seq(V) /\ turn = ab \o p(c)
      BY <1>1, <1>3
    <3> HIDE DEF ab
    <3>2. /\ ab \o p(c) \in Seq(V)
          /\ ToSet(ab \o p(c)) = ToSet(ab) \cup ToSet(p(c))
      BY <3>1, <1>5, Joined
    <3>3. QED
      BY <3>1, <3>2 DEF ab
  <2>2. QED
    BY <2>1, <1>3, <1>5
<1>7. a \notin ToSet(p(c)) /\ b \notin ToSet(p(c)) /\ c \notin ToSet(p(a) \o p(b))
  BY <1>3, <1>5
<1>8. Precedes(turn, a, b) /\ Precedes(turn, a, c) /\ Precedes(turn, b, c)
  BY <1>1, <1>3, <1>4, <1>5, <1>7, JoinedPrecedes
<1>9. QED
  BY <1>6, <1>8

-----------------------------------------------------------------------------
(* What CreateInstance asks for: layers that are there, vktrace first.     *)
LEMMA LayersAre ==
  ASSUME KnobsInv
  PROVE  /\ UsedLayers \in Seq(Layers)
         /\ ToSet(UsedLayers) \subseteq driver.layers \cap info
         /\ "vktrace" \in ToSet(UsedLayers) => Head(UsedLayers) = "vktrace"
<1> DEFINE asked(x, knob) == x \in info /\ knob \in build
           p(x, knob) == Pushed(x, asked(x, knob))
           v == p("vktrace", "useVktrace")
           r == p("renderDocCapture", "useRenderdoc")
           d == p("standardValidation", "asserts")
           vr == v \o r
<1>0. ASSUME NEW x \in Layers, NEW knob
      PROVE  /\ p(x, knob) \in Seq(Layers) /\ ToSet(p(x, knob)) \subseteq info \cap {x}
             /\ ToSet(p(x, knob)) # {} => p(x, knob) = <<x>>
  <2>1. asked(x, knob) \in BOOLEAN /\ (asked(x, knob) => x \in info)
    OBVIOUS
  <2> HIDE DEF asked
  <2>2. /\ p(x, knob) = IF asked(x, knob) THEN <<x>> ELSE <<>>
        /\ p(x, knob) \in Seq(Layers)
        /\ ToSet(p(x, knob)) = IF asked(x, knob) THEN {x} ELSE {}
    BY <2>1, PushedIs
  <2>3. QED
    BY <2>1, <2>2
<1> HIDE DEF p
<1>1. /\ v \in Seq(Layers) /\ ToSet(v) \subseteq info \cap {"vktrace"}
      /\ ToSet(v) # {} => v = <<"vktrace">>
  BY <1>0 DEF Layers
<1>2. r \in Seq(Layers) /\ ToSet(r) \subseteq info \cap {"renderDocCapture"}
  BY <1>0 DEF Layers
<1>3. d \in Seq(Layers) /\ ToSet(d) \subseteq info \cap {"standardValidation"}
  BY <1>0 DEF Layers
<1>4. UsedLayers = vr \o d
  BY DEF UsedLayers, p
<1> HIDE DEF v, r, d
<1>5. vr \in Seq(Layers) /\ ToSet(vr) = ToSet(v) \cup ToSet(r)
  BY <1>1, <1>2, Joined
<1>6. ToSet(v) # {} => Len(vr) >= 1 /\ vr[1] = "vktrace"
  <2> SUFFICES ASSUME v = <<"vktrace">> PROVE Len(vr) >= 1 /\ vr[1] = "vktrace"
    BY <1>1
  <2>1. Len(v) = 1 /\ v[1] = "vktrace"
    OBVIOUS
  <2>2. QED
    BY <2>1, <1>1, <1>2, Joined
<1> HIDE DEF vr
<1>7. /\ vr \o d \in Seq(Layers) /\ ToSet(vr \o d) = ToSet(vr) \cup ToSet(d)
      /\ Len(vr \o d) = Len(vr) + Len(d)
      /\ \A i \in 1..Len(vr) : (vr \o d)[i] = vr[i]
  BY <1>3, <1>5, Joined
<1>8. ToSet(v) # {} => Head(vr \o d) = "vktrace"
  BY <1>3, <1>5, <1>6, <1>7
<1>9. "vktrace" \in ToSet(vr \o d) => ToSet(v) # {}
  BY <1>2, <1>3, <1>5, <1>7
<1>10. ToSet(vr \o d) \subseteq info \cap Layers
  BY <1>1, <1>2, <1>3, <1>5, <1>7 DEF Layers
<1>11. info \cap Layers \subseteq driver.layers
  BY DEF KnobsInv, Layers
<1>12. QED
  BY <1>4, <1>7, <1>8, <1>9, <1>10, <1>11

(* What CreateInstance asks for: extensions that are there or that the     *)
(* application names, surfaces among them when there are any.              *)
LEMMA ExtensionsAre ==
  ASSUME KnobsInv
  PROVE  /\ ExtensionsToRequest \in Seq(Extensions)
         /\ ToSet(ExtensionsToRequest) \subseteq driver.extensions \cup ToSet(required)
         /\ IsInjective(required) => IsInjective(ExtensionsToRequest)
         /\ "surface" \in info => "surface" \in ToSet(ExtensionsToRequest)
<1> DEFINE one == IF "debugReport" \in UsedExtensions
                  THEN AddExtensionIfNotPresent(required, "debugReport") ELSE required
           two == IF "surface" \in UsedExtensions
                  THEN AddExtensionIfNotPresent(one, "surface") ELSE one
<1>1. ExtensionsToRequest = two
  BY DEF ExtensionsToRequest
<1>2. UsedExtensions \subseteq driver.extensions \cap {"debugReport", "surface"}
  BY DEF UsedExtensions, UsableExtensions, KnobsInv, Layers
<1>3. "surface" \in info => "surface" \in UsedExtensions
  BY DEF UsedExtensions, UsableExtensions
<1>4. required \in Seq(Extensions)
  BY DEF KnobsInv
<1>5. /\ one \in Seq(Extensions)
      /\ IsInjective(required) => IsInjective(one)
      /\ ToSet(one) \subseteq driver.extensions \cup ToSet(required)
  <2>1. CASE "debugReport" \in UsedExtensions
    <3> DEFINE s == AddExtensionIfNotPresent(required, "debugReport")
    <3>1. /\ s \in Seq(Extensions) /\ ToSet(s) = ToSet(required) \cup {"debugReport"}
          /\ IsInjective(required) => IsInjective(s)
      BY <1>4, AddedIs DEF Extensions
    <3>2. one = s
      BY <2>1
    <3> HIDE DEF s
    <3>3. QED
      BY <2>1, <1>2, <3>1, <3>2
  <2>2. CASE "debugReport" \notin UsedExtensions
    BY <2>2, <1>4
  <2>3. QED
    BY <2>1, <2>2
<1> HIDE DEF one
<1>6. /\ two \in Seq(Extensions)
      /\ IsInjective(one) => IsInjective(two)
      /\ ToSet(two) \subseteq driver.extensions \cup ToSet(required)
      /\ "surface" \in UsedExtensions => "surface" \in ToSet(two)
  <2>1. CASE "surface" \in UsedExtensions
    <3> DEFINE s == AddExtensionIfNotPresent(one, "surface")
    <3>1. /\ s \in Seq(Extensions) /\ ToSet(s) = ToSet(one) \cup {"surface"}
          /\ IsInjective(one) => IsInjective(s)
      BY <1>5, AddedIs DEF Extensions
    <3>2. two = s
      BY <2>1
    <3> HIDE DEF s
    <3>3. QED
      BY <2>1, <1>2, <1>5, <3>1, <3>2
  <2>2. CASE "surface" \notin UsedExtensions
    BY <2>2, <1>5
  <2>3. QED
    BY <2>1, <2>2
<1>7. QED
  BY <1>1, <1>3, <1>5, <1>6

(* A load that gets to its end has loaded everything.                      *)
LEMMA LoadIs ==
  ASSUME NEW here, NEW V, NEW groups \in Seq(V), NEW there, Load(here, groups, there)
  PROVE  /\ at = here
         /\ loaded \subseteq loaded'
         /\ \/ at' = there /\ ToSet(groups) \subseteq loaded'
            \/ at' \in {"aborted", "failed"}
         /\ UNCHANGED <<machine, requests, knobs, unloaded, objects>>
<1>1. PICK n \in 0..Len(groups) :
        /\ loaded' = loaded \cup ToSet(SubSeq(groups, 1, n))
        /\ IF n = Len(groups) THEN at' = there ELSE Failed
  BY DEF Load
<1>2. SubSeq(groups, 1, Len(groups)) = groups
  OBVIOUS
<1>3. QED
  BY <1>1, <1>2 DEF Load, Failed

(* A set of numbers has a least one.                                       *)
LEMMA LeastNumber ==
  ASSUME NEW T \in SUBSET Nat, T # {}
  PROVE  \E m \in T : \A k \in T : m <= k
<1> DEFINE R == OpToRel(<, Nat)
<1>1. PICK m \in T : \A k \in T : ~ (<<k, m>> \in R)
  <2> HIDE DEF R
  <2>1. IsWellFoundedOn(R, Nat)
    BY NatLessThanWellFounded DEF R
  <2>2. QED
    BY <2>1, WFMin
<1>2. \A k \in T : ~ (k < m)
  BY <1>1 DEF OpToRel
<1>3. QED
  BY <1>2

(* A loop from 1 to N computes something: Step gives the next value.       *)
Computes(f, a, N, Step) == f[0] = a /\ \A i \in 1..N : f[i] = Step[<<i, f[i - 1]>>]

(* There is a function with the values of the loop: if there were none for *)
(* some N there would be a least such N.                                   *)
LEMMA LoopComputes ==
  ASSUME NEW V, NEW a \in V, NEW N \in Nat, NEW Step \in [(1..N) \X V -> V]
  PROVE  \E f \in [0..N -> V] : Computes(f, a, N, Step)
<1> DEFINE Bad == {n \in 0..N : ~ \E f \in [0..n -> V] : Computes(f, a, n, Step)}
<1>1. SUFFICES ASSUME Bad # {} PROVE FALSE
  OBVIOUS
<1>2. PICK m \in Bad : \A k \in Bad : m <= k
  <2>1. Bad \in SUBSET Nat
    OBVIOUS
  <2> HIDE DEF Bad
  <2>2. QED
    BY <2>1, <1>1, LeastNumber
<1>3. m # 0
  <2>1. ASSUME m = 0 PROVE FALSE
    <3> DEFINE f == [i \in 0..0 |-> a]
    <3>1. f \in [0..0 -> V] /\ f[0] = a
      OBVIOUS
    <3>2. Computes(f, a, 0, Step)
      BY <3>1 DEF Computes
    <3>3. QED
      BY <2>1, <3>1, <3>2
  <2>2. QED
    BY <2>1
<1>4. m \in 1..N /\ m - 1 \in 0..N /\ m - 1 \notin Bad
  BY <1>2, <1>3
<1>5. PICK f \in [0..(m - 1) -> V] : Computes(f, a, m - 1, Step)
  BY <1>4
<1> DEFINE g == [i \in 0..m |-> IF i = m THEN Step[<<m, f[m - 1]>>] ELSE f[i]]
<1>6. \A i \in 0..(m - 1) : i \in 0..m /\ i # m /\ g[i] = f[i]
  BY <1>4
<1>7. f[m - 1] \in V /\ Step[<<m, f[m - 1]>>] \in V
  BY <1>4
<1>8. g \in [0..m -> V]
  BY <1>4, <1>7
<1>9. g[m] = Step[<<m, f[m - 1]>>]
  BY <1>4
<1> HIDE DEF g
<1>10. Computes(g, a, m, Step)
  <2>1. g[0] = a
    BY <1>4, <1>5, <1>6 DEF Computes
  <2>2. ASSUME NEW i \in 1..m PROVE g[i] = Step[<<i, g[i - 1]>>]
    <3>1. CASE i = m
      BY <3>1, <1>4, <1>6, <1>9
    <3>2. CASE i # m
      BY <3>2, <1>4, <1>5, <1>6 DEF Computes
    <3>3. QED
      BY <3>1, <3>2
  <2>3. QED
    BY <2>1, <2>2 DEF Computes
<1>11. QED
  BY <1>4, <1>8, <1>10

-----------------------------------------------------------------------------
(* MemoryAllocator.cpp, FindBestTypeIndex: the type that is found, if any, *)
(* is allowed, visible where that is asked for and else local when such a  *)
(* type is allowed.                                                        *)
Suits(type, among, mappable) ==
  /\ type \in among
  /\ mappable => gpu.types[type].visible
  /\ (~mappable /\ \E i \in among : gpu.types[i].local) => gpu.types[type].local

(* FindBestTypeIndex ends with a type that suits, if any is allowed.       *)
LEMMA BestTypeSuits ==
  ASSUME driver \in Drivers, driver.gpus # <<>>,
         NEW among \in SUBSET DOMAIN gpu.types, NEW mappable \in BOOLEAN,
         BestType(among, mappable) # 0
  PROVE  Suits(BestType(among, mappable), among, mappable)
<1> DEFINE N == Len(gpu.types)
           Better(i, best) ==
             IF ~Candidate(i, among, mappable) THEN best
             ELSE IF best = 0 THEN i
             ELSE IF ~mappable /\ ~gpu.types[best].local /\ gpu.types[i].local THEN i
             ELSE IF HeapSize(CandidateHeap(best, i)) > HeapSize(best) THEN i
             ELSE best
           Loop(g) == [i \in 0..N |-> IF i = 0 THEN 0 ELSE Better(i, g[i - 1])]
           Step == [x \in (1..N) \X (0..N) |-> Better(x[1], x[2])]
           f == CHOOSE g : g = Loop(g)
<1>1. gpu \in GPUs /\ \A t \in DOMAIN gpu.types : gpu.types[t].heap \in DOMAIN gpu.heaps
  BY DriversAssumption DEF gpu
<1>2. /\ N \in Nat /\ DOMAIN gpu.types = 1..N
      /\ \A t \in 1..N : /\ gpu.types[t].visible \in BOOLEAN /\ gpu.types[t].local \in BOOLEAN
                         /\ HeapSize(t) \in Nat
  <2>1. /\ gpu.types \in Seq([visible : BOOLEAN, local : BOOLEAN, heap : Nat])
        /\ gpu.heaps \in Seq(Nat)
    BY <1>1 DEF GPUs
  <2>2. N \in Nat /\ DOMAIN gpu.types = 1..N
    BY <2>1
  <2>3. ASSUME NEW t \in 1..N
        PROVE  /\ gpu.types[t].visible \in BOOLEAN /\ gpu.types[t].local \in BOOLEAN
               /\ HeapSize(t) \in Nat
    <3>1. gpu.types[t] \in [visible : BOOLEAN, local : BOOLEAN, heap : Nat]
      <4> DEFINE T == [visible : BOOLEAN, local : BOOLEAN, heap : Nat]
      <4>1. gpu.types \in Seq(T)
        BY <2>1
      <4> HIDE DEF T
      <4>2. gpu.types[t] \in T
        BY <4>1
      <4>3. QED
        BY <4>2 DEF T
    <3>2. gpu.types[t].heap \in DOMAIN gpu.heaps
      BY <1>1, <2>2
    <3>3. gpu.heaps[gpu.types[t].heap] \in Nat
      <4>1. gpu.types[t].heap \in 1 .. Len(gpu.heaps)
        BY <3>2, <2>1, LenProperties
      <4>2. QED
        BY <4>1, <2>1, ElementOfSeq
    <3>4. QED
      BY <3>1, <3>3 DEF HeapSize
  <2>4. QED
    BY <2>2, <2>3
<1>3. BestType(among, mappable) = f[N]
  BY DEF BestType
<1>4. Step \in [(1..N) \X (0..N) -> 0..N]
  BY <1>2
<1>5. PICK h \in [0..N -> 0..N] : Computes(h, 0, N, Step)
  <2>1. 0 \in 0..N
    BY <1>2
  <2> HIDE DEF Step, N
  <2>2. N \in Nat
    BY <1>2
  <2>3. QED
    BY <1>4, <2>1, <2>2, LoopComputes
<1>6. h = Loop(h)
  <2>1. \A i \in 1..N : i - 1 \in 0..N /\ h[i - 1] \in 0..N
    BY <1>2
  <2>2. \A i \in 1..N : Step[<<i, h[i - 1]>>] = Better(i, h[i - 1])
    BY <2>1
  <2>0. N \in Nat
    BY <1>2
  <2> HIDE DEF Better, N, Step
  <2>3. \A i \in 0..N : h[i] = IF i = 0 THEN 0 ELSE Better(i, h[i - 1])
    <3>1. h[0] = 0 /\ \A i \in 1..N : h[i] = Step[<<i, h[i - 1]>>]
      BY <1>5 DEF Computes
    <3>2. \A i \in 0..N : i = 0 \/ i \in 1..N
      BY <2>0
    <3>3. QED
      BY <2>2, <3>1, <3>2
  <2>4. QED
    BY <2>3
<1>7. f = Loop(f)
  <2> HIDE DEF Loop
  <2>1. QED
    BY <1>6
<1>8. \A i \in 0..N : f[i] = IF i = 0 THEN 0 ELSE Better(i, f[i - 1])
  <2> HIDE DEF Better, N, f
  <2>1. QED
    BY <1>7
<1> HIDE DEF f, Step
<1> DEFINE Good(i) ==
             /\ f[i] \in 0..i
             /\ f[i] # 0 => Candidate(f[i], among, mappable)
             /\ \A j \in 1..i : Candidate(j, among, mappable) =>
                  f[i] # 0 /\ (~mappable /\ gpu.types[j].local => gpu.types[f[i]].local)
<1>9. Good(0)
  BY <1>2, <1>8
<1>10. ASSUME NEW i \in 1..N, Good(i - 1) PROVE Good(i)
  <2> DEFINE best == f[i - 1]
  <2>1. f[i] = Better(i, best) /\ i - 1 \in 0..N /\ i \in 0..N
    BY <1>2, <1>8
  <2>2. best \in 0..(i - 1)
    BY <1>10
  <2>3. ~ (HeapSize(CandidateHeap(best, i)) > HeapSize(best)) \/ best = 0
    <3>1. CASE best # 0
      <4>1. HeapSize(best) \in Nat
        BY <3>1, <1>2, <2>1, <2>2
      <4>2. QED
        BY <4>1 DEF CandidateHeap
    <3>2. QED
      BY <3>1
  <2>4. f[i] = IF ~Candidate(i, among, mappable) THEN best
               ELSE IF best = 0 THEN i
               ELSE IF ~mappable /\ ~gpu.types[best].local /\ gpu.types[i].local THEN i
               ELSE best
    BY <2>1, <2>3
  <2>5. f[i] \in 0..i /\ (f[i] # 0 => Candidate(f[i], among, mappable))
    BY <2>2, <2>4, <1>2, <1>10
  <2>6. ASSUME NEW j \in 1..i, Candidate(j, among, mappable)
        PROVE  f[i] # 0 /\ (~mappable /\ gpu.types[j].local => gpu.types[f[i]].local)
    <3>1. CASE j = i
      BY <3>1, <2>2, <2>4, <2>6, <1>2
    <3>2. CASE j # i
      <4>1. j \in 1..(i - 1)
        BY <3>2, <1>2
      <4>2. best # 0 /\ (~mappable /\ gpu.types[j].local => gpu.types[best].local)
        BY <4>1, <2>6, <1>10
      <4>3. QED
        BY <4>2, <2>4, <1>2
    <3>3. QED
      BY <3>1, <3>2
  <2>7. QED
    BY <2>5, <2>6
<1>11. \A i \in 0..N : Good(i)
  <2> DEFINE Bad == {i \in 0..N : ~Good(i)}
  <2>1. SUFFICES ASSUME Bad # {} PROVE FALSE
    OBVIOUS
  <2> HIDE DEF Good
  <2>2. PICK m \in Bad : \A k \in Bad : m <= k
    <3>1. Bad \in SUBSET Nat
      OBVIOUS
    <3> HIDE DEF Bad
    <3>2. QED
      BY <3>1, <2>1, LeastNumber
  <2>3. m \in 1..N
    BY <2>2, <1>2, <1>9
  <2>4. m - 1 \in 0..N /\ m - 1 \notin Bad
    BY <2>2, <2>3, <1>2
  <2>5. QED
    BY <2>2, <2>3, <2>4, <1>10
<1>12. Good(N) /\ f[N] # 0
  BY <1>2, <1>3, <1>11
<1>13. Candidate(f[N], among, mappable)
  BY <1>12
<1>14. ASSUME NEW j \in among, ~mappable, gpu.types[j].local PROVE gpu.types[f[N]].local
  <2>1. j \in 1..N /\ Candidate(j, among, mappable)
    BY <1>2, <1>14 DEF Candidate
  <2>2. QED
    BY <2>1, <1>12, <1>14
<1>15. QED
  BY <1>3, <1>13, <1>14 DEF Suits, Candidate

(* The steps at which nothing about knobs and requests changes.            *)
LEMMA KnobsStay ==
  ASSUME KnobsInv, UNCHANGED <<machine, requests, knobs>>, at' = at \/ at' \in Over
  PROVE  KnobsInv'
BY DEF KnobsInv, machine, requests, knobs, Over, WithInstance

(* Nor when one step of the constructor leads to the next.                 *)
LEMMA KnobsMove ==
  ASSUME KnobsInv, UNCHANGED <<machine, requests, knobs>>,
         at \in WithInstance, at' \in WithInstance,
         driver.gpus # <<>> \/ at' \notin {"deviceInfo", "device", "deviceProcs", "ready"}
  PROVE  KnobsInv'
BY DEF KnobsInv, machine, requests, knobs, Over, WithInstance

(* What is pushed when it is in a set.                                     *)
LEMMA PushedIfIn ==
  ASSUME NEW V, NEW x \in V, NEW S
  PROVE  Pushed(x, x \in S) \in Seq(V) /\ ToSet(Pushed(x, x \in S)) = S \cap {x}
<1> DEFINE c == x \in S
<1>1. c \in BOOLEAN
  OBVIOUS
<1> HIDE DEF c
<1>2. /\ Pushed(x, c) \in Seq(V)
      /\ ToSet(Pushed(x, c)) = IF c THEN {x} ELSE {}
  BY <1>1, PushedIs
<1>3. (IF c THEN {x} ELSE {}) = S \cap {x}
  BY DEF c
<1>4. QED
  BY <1>2, <1>3 DEF c

(* What is loaded after the instance.                                      *)
LEMMA InstanceProcsAre ==
  ASSUME LoadInstanceProcs
  PROVE  /\ at = "instanceProcs" /\ loaded \subseteq loaded'
         /\ \/ /\ at' = IF "debugReport" \in used THEN "registerDebugReport" ELSE "physicalDevices"
               /\ {"destroyInstance", "instance"} \cup (used \cap {"debugReport", "surface"})
                    \subseteq loaded'
            \/ at' \in {"aborted", "failed"}
         /\ UNCHANGED <<machine, requests, knobs, unloaded, objects>>
<1> DEFINE V == {"destroyInstance", "instance", "debugReport", "surface"}
           first == <<"destroyInstance", "instance">>
           d == Pushed("debugReport", "debugReport" \in used)
           s == Pushed("surface", "surface" \in used)
           fd == first \o d
           there == IF "debugReport" \in used THEN "registerDebugReport" ELSE "physicalDevices"
<1>1. first \in Seq(V) /\ ToSet(first) = {"destroyInstance", "instance"}
  <2>1. first \in Seq(V) /\ DOMAIN first = {1, 2} /\ first[1] = "destroyInstance"
          /\ first[2] = "instance"
    OBVIOUS
  <2>2. QED
    BY <2>1 DEF ToSet
<1>2. /\ d \in Seq(V) /\ ToSet(d) = used \cap {"debugReport"}
      /\ s \in Seq(V) /\ ToSet(s) = used \cap {"surface"}
  <2>2. "debugReport" \in V /\ "surface" \in V
    OBVIOUS
  <2> HIDE DEF V
  <2>3. QED
    BY <2>2, PushedIfIn
<1>3. Load("instanceProcs", fd \o s, there)
  BY DEF LoadInstanceProcs
<1> HIDE DEF V, first, d, s
<1>4. fd \in Seq(V) /\ ToSet(fd) = ToSet(first) \cup ToSet(d)
  BY <1>1, <1>2, Joined
<1> HIDE DEF fd, there
<1>5. fd \o s \in Seq(V) /\ ToSet(fd \o s) = ToSet(fd) \cup ToSet(s)
  BY <1>2, <1>4, Joined
<1>6. /\ at = "instanceProcs" /\ loaded \subseteq loaded'
      /\ \/ at' = there /\ ToSet(fd \o s) \subseteq loaded'
         \/ at' \in {"aborted", "failed"}
      /\ UNCHANGED <<machine, requests, knobs, unloaded, objects>>
  BY <1>3, <1>5, LoadIs
<1>7. QED
  BY <1>1, <1>2, <1>4, <1>5, <1>6 DEF there

(* What is loaded after the device.                                        *)
LEMMA DeviceProcsAre ==
  ASSUME LoadDeviceProcs
  PROVE  /\ at = "deviceProcs" /\ loaded \subseteq loaded'
         /\ \/ at' = "ready" /\ {"device"} \cup (used \cap {"swapchain"}) \subseteq loaded'
            \/ at' \in {"aborted", "failed"}
         /\ UNCHANGED <<machine, requests, knobs, unloaded, objects>>
<1> DEFINE V == {"device", "swapchain"}
           s == Pushed("swapchain", "swapchain" \in used)
<1> DEFINE dev == <<"device">>
<1>1. dev \in Seq(V) /\ ToSet(dev) = {"device"}
  <2>1. <<"device">> \in Seq(V) /\ DOMAIN <<"device">> = {1} /\ <<"device">>[1] = "device"
    OBVIOUS
  <2>2. QED
    BY <2>1 DEF ToSet
<1>2. s \in Seq(V) /\ ToSet(s) = used \cap {"swapchain"}
  <2>1. "swapchain" \in V
    OBVIOUS
  <2>2. QED
    BY <2>1, PushedIfIn
<1>3. Load("deviceProcs", dev \o s, "ready")
  BY DEF LoadDeviceProcs
<1> HIDE DEF V, s, dev
<1>4. dev \o s \in Seq(V) /\ ToSet(dev \o s) = ToSet(dev) \cup ToSet(s)
  BY <1>1, <1>2, Joined
<1>5. QED
  BY <1>1, <1>2, <1>3, <1>4, LoadIs

(* What is loaded before the instance.                                     *)
LEMMA GlobalProcsAre ==
  ASSUME LoadGlobalProcs
  PROVE  /\ at = "globalProcs" /\ loaded \subseteq loaded'
         /\ \/ at' = "globalInfo" /\ "global" \in loaded'
            \/ at' \in {"aborted", "failed"}
         /\ UNCHANGED <<machine, requests, knobs, unloaded, objects>>
<1>1. <<"global">> \in Seq({"global"}) /\ ToSet(<<"global">>) = {"global"}
  <2>1. <<"global">> \in Seq({"global"}) /\ DOMAIN <<"global">> = {1} /\ <<"global">>[1] = "global"
    OBVIOUS
  <2>2. QED
    BY <2>1 DEF ToSet
<1>2. QED
  BY <1>1, LoadIs DEF LoadGlobalProcs

-----------------------------------------------------------------------------
(* Every step keeps the first part of the invariant.                       *)
LEMMA KnobsStep == KnobsInv /\ [Next]_vars => KnobsInv'
<1> SUFFICES ASSUME KnobsInv, [Next]_vars PROVE KnobsInv'
  OBVIOUS
<1>1. CASE LoadGlobalProcs
  BY <1>1, GlobalProcsAre DEF KnobsInv, machine, requests, knobs, Over, WithInstance
<1>2. CASE GatherGlobalInfo
  <2>1. /\ at = "globalInfo" /\ UNCHANGED <<machine, requests>>
        /\ \/ /\ at' = "instance"
              /\ info' = info \cup ((driver.layers \cap Layers)
                                      \cup (driver.extensions \cap {"debugReport", "surface"}))
           \/ at' \in Over /\ UNCHANGED info
    BY <1>2 DEF GatherGlobalInfo, Gather, Failed, Over, Layers
  <2>2. QED
    BY <2>1 DEF KnobsInv, machine, requests, WithInstance, Over, Layers
<1>3. CASE CreateInstance
  <2>1. /\ ExtensionsToRequest \in Seq(Extensions)
        /\ "surface" \in info => "surface" \in ToSet(ExtensionsToRequest)
    BY ExtensionsAre
  <2>2. /\ at = "instance" /\ extensionsToRequest' = ExtensionsToRequest
        /\ UNCHANGED <<machine, info>>
        /\ \/ /\ ToSet(ExtensionsToRequest) \subseteq driver.extensions
              /\ at' = "instanceProcs" /\ used' = ToSet(UsedLayers) \cup UsedExtensions
           \/ at' \in Over /\ UNCHANGED used
    BY <1>3 DEF CreateInstance, Failed, Over
  <2>3. driver.extensions \cap {"surface"} \subseteq info
    BY <2>2 DEF KnobsInv, Over
  <2>4. CASE at' = "instanceProcs"
    <3>1. /\ Contains(ExtensionsToRequest, "surface") => "surface" \in driver.extensions
          /\ "surface" \in driver.extensions => Contains(ExtensionsToRequest, "surface")
      BY <2>1, <2>2, <2>3, <2>4, ContainsIs DEF Over
    <3>2. "surface" \in driver.extensions => "surface" \in used'
      BY <2>2, <2>3, <2>4 DEF UsedExtensions, UsableExtensions, Over
    <3>3. QED
      BY <2>1, <2>2, <2>4, <3>1, <3>2 DEF KnobsInv, machine, WithInstance, Over
  <2>5. CASE at' \in Over
    BY <2>1, <2>2, <2>5 DEF KnobsInv, machine, WithInstance, Over
  <2>6. QED
    BY <2>2, <2>4, <2>5
<1>4. CASE LoadInstanceProcs
  <2>1. CASE at' \in Over
    BY <1>4, <2>1, InstanceProcsAre, KnobsStay
  <2>2. CASE at' \notin Over
    BY <1>4, <2>2, InstanceProcsAre, KnobsMove DEF WithInstance, Over
  <2>3. QED
    BY <2>1, <2>2
<1>5. CASE RegisterDebugReport
  <2>1. CASE at' \in Over
    BY <1>5, <2>1, KnobsStay DEF RegisterDebugReport
  <2>2. CASE at' \notin Over
    BY <1>5, <2>2, KnobsMove DEF RegisterDebugReport, Failed, WithInstance, Over
  <2>3. QED
    BY <2>1, <2>2
<1>6. CASE GetPhysicalDevices
  <2>1. CASE at' \in Over
    BY <1>6, <2>1, KnobsStay DEF GetPhysicalDevices
  <2>2. CASE at' \notin Over
    BY <1>6, <2>2, KnobsMove DEF GetPhysicalDevices, Failed, WithInstance, Over
  <2>3. QED
    BY <2>1, <2>2
<1>7. CASE GatherDeviceInfo
  <2>1. /\ at = "deviceInfo" /\ UNCHANGED <<machine, requests, used>>
        /\ \/ at' = "device" /\ info' = info \cup (gpu.extensions \cap {"swapchain"})
           \/ at' \in Over /\ UNCHANGED info
    BY <1>7 DEF GatherDeviceInfo, Gather, Failed, Over
  <2>2. "swapchain" \in gpu.extensions => "surface" \in driver.extensions
    <3>1. driver \in Drivers /\ driver.gpus # <<>>
      BY <2>1 DEF KnobsInv
    <3>2. driver.gpus \in Seq(GPUs)
      BY <3>1, DriversAssumption
    <3>3. 1 \in DOMAIN driver.gpus
      BY <3>1, <3>2
    <3>4. QED
      BY <3>1, <3>3, DriversAssumption DEF gpu
  <2>3. QED
    BY <2>1, <2>2 DEF KnobsInv, machine, requests, WithInstance, Over
<1>8. CASE CreateDevice
  <2>1. /\ at = "device" /\ UNCHANGED <<machine, info, extensionsToRequest>>
        /\ \/ at' = "deviceProcs" /\ used \subseteq used'
           \/ at' \in Over /\ UNCHANGED used
    BY <1>8 DEF CreateDevice, Failed, Over
  <2>2. QED
    BY <2>1 DEF KnobsInv, machine, WithInstance, Over
<1>9. CASE LoadDeviceProcs
  <2>1. CASE at' \in Over
    BY <1>9, <2>1, DeviceProcsAre, KnobsStay
  <2>2. CASE at' \notin Over
    BY <1>9, <2>2, DeviceProcsAre, KnobsMove DEF WithInstance, Over, KnobsInv
  <2>3. QED
    BY <2>1, <2>2
<1>10. CASE Use
  BY <1>10, KnobsStay DEF Use, Tick, CreateSurface, Configure, DestroySwapChain, Allocate,
                          Free, Failed, Over
<1>11. CASE DestroyDevice
  BY <1>11, KnobsStay DEF DestroyDevice, Over
<1>12. CASE UNCHANGED vars
  BY <1>12, KnobsStay DEF vars
<1>13. QED
  BY <1>1, <1>2, <1>3, <1>4, <1>5, <1>6, <1>7, <1>8, <1>9, <1>10, <1>11, <1>12
  DEF Next, Startup

(* The steps that ask for nothing.                                         *)
LEMMA RequestsStay ==
  ASSUME RequestsInv, UNCHANGED <<machine, requests>>,
         at' = at \/ at' \notin {"globalProcs", "globalInfo", "instance"}
           \/ at \in {"globalProcs", "globalInfo", "instance"}
  PROVE  RequestsInv'
BY DEF RequestsInv, RequestsAreAvailable, machine, requests

(* Every step keeps the second part: what is asked for is there.           *)
LEMMA RequestsStep == KnobsInv /\ RequestsInv /\ [Next]_vars => RequestsInv'
<1> SUFFICES ASSUME KnobsInv, RequestsInv, [Next]_vars PROVE RequestsInv'
  OBVIOUS
<1>1. CASE CreateInstance
  <2>1. /\ at = "instance" /\ at' \notin {"globalProcs", "globalInfo", "instance"}
        /\ layersToRequest' = UsedLayers /\ extensionsToRequest' = ExtensionsToRequest
        /\ UNCHANGED <<machine, deviceExtensions>>
    BY <1>1 DEF CreateInstance, Failed
  <2>2. /\ UsedLayers \in Seq(Layers)
        /\ ToSet(UsedLayers) \subseteq driver.layers
        /\ "vktrace" \in ToSet(UsedLayers) => Head(UsedLayers) = "vktrace"
    BY LayersAre
  <2>3. Contains(UsedLayers, "vktrace") => Head(UsedLayers) = "vktrace"
    BY <2>2, ContainsIs
  <2>4. /\ ToSet(ExtensionsToRequest) \subseteq driver.extensions \cup ToSet(required)
        /\ IsInjective(required) => IsInjective(ExtensionsToRequest)
    BY ExtensionsAre
  <2>5. deviceExtensions' = <<>>
    BY <2>1 DEF RequestsInv
  <2>6. deviceExtensions' \in Seq({"swapchain"}) /\ ~Contains(deviceExtensions', "swapchain")
    BY <2>5 DEF Contains
  <2>7. RequestsAreAvailable'
    BY <2>1, <2>2, <2>3, <2>4, <2>6 DEF RequestsAreAvailable, machine
  <2>8. QED
    BY <2>1, <2>2, <2>6, <2>7 DEF RequestsInv
<1>2. CASE CreateDevice
  <2>1. /\ at = "device" /\ at' \notin {"globalProcs", "globalInfo", "instance"}
        /\ deviceExtensions' = Pushed("swapchain", "swapchain" \in info)
        /\ UNCHANGED <<machine, layersToRequest, extensionsToRequest>>
    BY <1>2 DEF CreateDevice, Failed
  <2>2. /\ deviceExtensions' \in Seq({"swapchain"})
        /\ ToSet(deviceExtensions') = info \cap {"swapchain"}
    BY <2>1, PushedIfIn
  <2>3. Contains(deviceExtensions', "swapchain") => "swapchain" \in info
    BY <2>2, ContainsIs
  <2>4. "swapchain" \in info => Contains(extensionsToRequest, "surface")
    BY <2>1 DEF KnobsInv, WithInstance
  <2>5. RequestsAreAvailable'
    BY <2>1, <2>3, <2>4 DEF RequestsInv, RequestsAreAvailable, machine
  <2>6. QED
    BY <2>1, <2>2, <2>5 DEF RequestsInv
<1>3. CASE LoadGlobalProcs \/ LoadInstanceProcs \/ LoadDeviceProcs
  <2>1. /\ UNCHANGED <<machine, requests>>
        /\ \/ at' \notin {"globalProcs", "globalInfo", "instance"}
           \/ at \in {"globalProcs", "globalInfo", "instance"}
    BY <1>3, GlobalProcsAre, InstanceProcsAre, DeviceProcsAre
  <2>2. QED
    BY <2>1, RequestsStay
<1>4. CASE GatherGlobalInfo \/ GatherDeviceInfo \/ RegisterDebugReport \/ GetPhysicalDevices
  BY <1>4, RequestsStay DEF GatherGlobalInfo, GatherDeviceInfo, RegisterDebugReport,
                            GetPhysicalDevices, Gather, Failed
<1>5. CASE Use
  BY <1>5, RequestsStay DEF Use, Tick, CreateSurface, Configure, DestroySwapChain, Allocate,
                            Free, Failed
<1>6. CASE DestroyDevice \/ UNCHANGED vars
  BY <1>6, RequestsStay DEF DestroyDevice, vars
<1>7. QED
  BY <1>1, <1>2, <1>3, <1>4, <1>5, <1>6 DEF Next, Startup

(* What is called is loaded.                                               *)
LEMMA CallsLoaded ==
  ASSUME unloaded = {}, NEW groups, groups \subseteq loaded, Calls(groups)
  PROVE  unloaded' = {}
BY DEF Calls

(* Every step keeps the third: what it calls is loaded.                    *)
LEMMA LoadedStep ==
  Careful /\ KnobsInv /\ LoadedInv /\ ObjectsInv /\ [Next]_vars => LoadedInv'
<1> SUFFICES ASSUME Careful, KnobsInv, LoadedInv, ObjectsInv, [Next]_vars PROVE LoadedInv'
  OBVIOUS
<1>1. CASE LoadGlobalProcs
  BY <1>1, GlobalProcsAre DEF LoadedInv, requests, knobs, objects, Over, WithProcs, WithInstance
<1>2. CASE LoadInstanceProcs
  <2>1. \/ /\ at' \in {"registerDebugReport", "physicalDevices"}
           /\ at' = "registerDebugReport" => "debugReport" \in used
           /\ {"destroyInstance", "instance"} \cup (used \cap {"debugReport", "surface"})
                \subseteq loaded'
        \/ at' \in Over
    BY <1>2, InstanceProcsAre DEF Over
  <2>2. "global" \in loaded
    BY <1>2, InstanceProcsAre DEF LoadedInv, Over
  <2>3. QED
    BY <1>2, <2>1, <2>2, InstanceProcsAre DEF LoadedInv, knobs, objects, Over, WithProcs,
                                              WithInstance
<1>3. CASE LoadDeviceProcs
  BY <1>3, DeviceProcsAre DEF LoadedInv, knobs, objects, Over, WithProcs, WithInstance
<1>4. CASE GatherGlobalInfo
  <2>1. at = "globalInfo" /\ Calls({"global"}) /\ UNCHANGED <<used, loaded, objects>>
          /\ at' \in {"instance"} \cup Over
    BY <1>4 DEF GatherGlobalInfo, Gather, Failed, Over
  <2>2. unloaded' = {}
    BY <2>1, CallsLoaded DEF LoadedInv, Over
  <2>3. QED
    BY <2>1, <2>2 DEF LoadedInv, objects, Over, WithProcs, WithInstance
<1>5. CASE CreateInstance
  <2>1. /\ at = "instance" /\ Calls({"global"}) /\ UNCHANGED <<loaded, gone, deleting>>
        /\ at' \in {"instanceProcs"} \cup Over /\ made' \in {made, made \cup {"instance"}}
    BY <1>5 DEF CreateInstance, Failed, Over
  <2>2. unloaded' = {}
    BY <2>1, CallsLoaded DEF LoadedInv, Over
  <2>3. QED
    BY <2>1, <2>2 DEF LoadedInv, Over, WithProcs, WithInstance
<1>6. CASE RegisterDebugReport
  <2>1. /\ at = "registerDebugReport" /\ Calls({"debugReport"})
        /\ UNCHANGED <<used, loaded, gone, deleting>>
        /\ at' \in {"physicalDevices"} \cup Over /\ made' \in {made, made \cup {"debugReport"}}
    BY <1>6 DEF RegisterDebugReport, Failed, Over, knobs
  <2>2. "debugReport" \in loaded
    BY <2>1 DEF LoadedInv, WithProcs, WithInstance
  <2>3. unloaded' = {}
    BY <2>1, <2>2, CallsLoaded DEF LoadedInv
  <2>4. QED
    BY <2>1, <2>2, <2>3 DEF LoadedInv, Over, WithProcs, WithInstance
<1>7. CASE GetPhysicalDevices \/ GatherDeviceInfo
  <2>1. /\ at \in WithProcs /\ Calls({"instance"}) /\ UNCHANGED <<used, loaded, objects>>
        /\ at' \in {"deviceInfo", "device"} \cup Over /\ at \notin Over
    BY <1>7 DEF GetPhysicalDevices, GatherDeviceInfo, Gather, Failed, Over, knobs, WithProcs,
                WithInstance
  <2>2. unloaded' = {}
    BY <2>1, CallsLoaded DEF LoadedInv
  <2>3. QED
    BY <2>1, <2>2 DEF LoadedInv, objects, Over, WithProcs, WithInstance
<1>8. CASE CreateDevice
  <2>1. /\ at = "device" /\ UNCHANGED <<loaded, gone, deleting>>
        /\ Calls(IF UniversalFamilies = {} THEN {} ELSE {"instance"})
        /\ at' \in {"deviceProcs"} \cup Over /\ made' \in {made, made \cup {"device"}}
        /\ used' \cap {"debugReport", "surface"} = used \cap {"debugReport", "surface"}
    BY <1>8 DEF CreateDevice, Failed, Over
  <2>2. unloaded' = {}
    BY <2>1, CallsLoaded DEF LoadedInv, WithProcs, WithInstance
  <2>3. QED
    BY <2>1, <2>2 DEF LoadedInv, Over, WithProcs, WithInstance
<1>9. ASSUME at = "ready" PROVE {"global", "device", "instance", "destroyInstance"} \subseteq loaded
  BY <1>9 DEF LoadedInv, WithProcs, WithInstance, Over
<1>10. ASSUME at = "ready" PROVE {EntryPointOf(object) : object \in deleting} \subseteq loaded
  BY <1>9, <1>10 DEF LoadedInv, ObjectsInv, EntryPointOf
<1>11. CASE Tick
  <2>1. unloaded' = {}
    BY <1>11, <1>10, CallsLoaded DEF Tick, LoadedInv
  <2>2. QED
    BY <1>11, <2>1 DEF Tick, LoadedInv, knobs
<1>12. CASE CreateSurface
  <2>1. "surface" \in used /\ "swapchain" \in used
    BY <1>12 DEF CreateSurface, KnobsInv, WithInstance
  <2>2. {"surface", "swapchain"} \subseteq loaded
    BY <1>12, <2>1 DEF CreateSurface, LoadedInv, WithProcs, WithInstance
  <2>3. QED
    BY <1>12, <2>2 DEF CreateSurface, LoadedInv, knobs
<1>13. CASE Configure
  <2>1. unloaded' = {}
    BY <1>13, CallsLoaded DEF Configure, LoadedInv
  <2>2. QED
    BY <1>13, <2>1 DEF Configure, LoadedInv, knobs, Failed, Over, WithProcs, WithInstance
<1>14. CASE DestroySwapChain
  BY <1>14 DEF DestroySwapChain, LoadedInv, knobs
<1>15. CASE Allocate
  <2>1. /\ at = "ready" /\ UNCHANGED <<used, loaded>>
        /\ unloaded' = unloaded \/ Calls({"device"})
        /\ at' \in {at} \cup Over /\ made' \in {made, made \cup {"memory"}}
    BY <1>15 DEF Allocate, Failed, Over, knobs
  <2>2. unloaded' = {}
    BY <2>1, <1>9, CallsLoaded DEF LoadedInv
  <2>3. QED
    BY <2>1, <2>2 DEF LoadedInv, Over, WithProcs, WithInstance
<1>16. CASE Free
  BY <1>16 DEF Free, LoadedInv, knobs
<1>17. CASE DestroyDevice
  <2>1. at = "ready" /\ at' = "destroyed" /\ made' \subseteq made /\ UNCHANGED <<knobs, loaded>>
    BY <1>17 DEF DestroyDevice
  <2>2. {EntryPointOf(object) : object \in deleting}
          \cup {"device", "instance", "destroyInstance"} \cup (made \cap {"debugReport"})
            \subseteq loaded
    BY <2>1, <1>9, <1>10 DEF LoadedInv
  <2>3. unloaded' = {}
    BY <1>17, <2>2, CallsLoaded DEF DestroyDevice, LoadedInv
  <2>4. QED
    BY <2>1, <2>3 DEF LoadedInv, Over, WithProcs, WithInstance
<1>18. CASE UNCHANGED vars
  BY <1>18 DEF vars, LoadedInv, knobs, objects
<1>19. QED
  BY <1>1, <1>2, <1>3, <1>4, <1>5, <1>6, <1>7, <1>8, <1>11, <1>12, <1>13, <1>14, <1>15, <1>16,
     <1>17, <1>18 DEF Next, Startup, Use

(* ... in whatever order objects were released.                            *)
Pairs == {<<"swapchain", "surface">>, <<"swapchain", "device">>, <<"memory", "device">>,
          <<"surface", "instance">>, <<"debugReport", "instance">>, <<"device", "instance">>}
OrderInv == \A pair \in Pairs : Precedes(gone, pair[1], pair[2])

(* There is no order to keep without both of them.                         *)
LEMMA PrecedesAlone ==
  ASSUME NEW s, NEW child, NEW parent, parent \notin ToSet(s) \/ child \notin ToSet(s)
  PROVE  Precedes(s, child, parent)
BY DEF Precedes, ToSet

(* What FencedDeleter::Tick destroys.                                      *)
LEMMA DeletesAre ==
  ASSUME ObjectsInv
  PROVE  /\ Deletes \in Seq(Objects) /\ ToSet(Deletes) = deleting
         /\ Precedes(Deletes, "swapchain", "surface")
<1>1. Deletes = InTurn(<<"memory", "swapchain", "surface">>, deleting)
  BY DEF Deletes, DeletionOrder
<1>2. "memory" \in Objects /\ "swapchain" \in Objects /\ "surface" \in Objects
  BY DEF Objects
<1>3. /\ Deletes \in Seq(Objects)
      /\ ToSet(Deletes) = deleting \cap {"memory", "swapchain", "surface"}
      /\ Precedes(Deletes, "swapchain", "surface")
  BY <1>1, <1>2, InTurnIs
<1>4. QED
  BY <1>3 DEF ObjectsInv

(* What ~Device destroys itself.                                           *)
LEMMA DestroysAre ==
  /\ Destroys \in Seq(Objects)
  /\ ToSet(Destroys) = made \cap {"device", "debugReport", "instance"}
  /\ Precedes(Destroys, "device", "instance")
  /\ Precedes(Destroys, "debugReport", "instance")
<1>1. Destroys = InTurn(<<"device", "debugReport", "instance">>, made)
  BY DEF Destroys, DestructionOrder
<1>2. "device" \in Objects /\ "debugReport" \in Objects /\ "instance" \in Objects
  BY DEF Objects
<1>3. QED
  BY <1>1, <1>2, InTurnIs

(* What has been destroyed after a Tick.                                   *)
LEMMA TickKeepsOrder ==
  ASSUME ObjectsInv, OrderInv, at # "destroyed"
  PROVE  /\ gone \o Deletes \in Seq(Objects)
         /\ ToSet(gone \o Deletes) = ToSet(gone) \cup deleting
         /\ ToSet(gone \o Deletes) \subseteq {"surface", "swapchain", "memory"}
         /\ Precedes(gone \o Deletes, "swapchain", "surface")
<1>1. /\ Deletes \in Seq(Objects) /\ ToSet(Deletes) = deleting
      /\ Precedes(Deletes, "swapchain", "surface")
  BY DeletesAre
<1>2. gone \in Seq(Objects)
  BY DEF ObjectsInv
<1>3. /\ gone \o Deletes \in Seq(Objects)
      /\ ToSet(gone \o Deletes) = ToSet(gone) \cup deleting
  BY <1>1, <1>2, Joined
<1>4. "surface" \notin ToSet(gone) \/ "swapchain" \notin ToSet(Deletes)
  BY <1>1 DEF ObjectsInv
<1>5. Precedes(gone, "swapchain", "surface")
  <2>1. <<"swapchain", "surface">> \in Pairs
    BY DEF Pairs
  <2>2. QED
    BY <2>1 DEF OrderInv
<1>6. Precedes(gone \o Deletes, "swapchain", "surface")
  BY <1>1, <1>2, <1>4, <1>5, JoinedPrecedes
<1>7. QED
  BY <1>3, <1>6 DEF ObjectsInv

(* Every step keeps what is known of the objects and of their order.       *)
LEMMA ObjectsStep ==
  Careful /\ ObjectsInv /\ OrderInv /\ [Next]_vars => ObjectsInv' /\ OrderInv'
<1> SUFFICES ASSUME Careful, ObjectsInv, OrderInv, [Next]_vars PROVE ObjectsInv' /\ OrderInv'
  OBVIOUS
<1>1. ASSUME UNCHANGED <<gone, deleting>>, at # "destroyed", at' # "destroyed",
             made' = made \/ \E x \in {"instance", "debugReport", "device"} : made' = made \cup {x}
      PROVE  ObjectsInv' /\ OrderInv'
  BY <1>1 DEF ObjectsInv, OrderInv, Objects
<1>2. CASE Startup
  <2>1. CASE LoadGlobalProcs \/ LoadInstanceProcs \/ LoadDeviceProcs
    BY <1>1, <2>1, GlobalProcsAre, InstanceProcsAre, DeviceProcsAre DEF objects
  <2>2. CASE ~ (LoadGlobalProcs \/ LoadInstanceProcs \/ LoadDeviceProcs)
    BY <1>1, <1>2, <2>2 DEF Startup, GatherGlobalInfo, CreateInstance, RegisterDebugReport,
                      GetPhysicalDevices, GatherDeviceInfo, CreateDevice, Gather, Failed, objects
  <2>3. QED
    BY <2>1, <2>2
<1>3. CASE Tick
  <2>1. /\ at' = at /\ at = "ready" /\ made' = made \ deleting
        /\ gone' = gone \o Deletes /\ deleting' = {}
    BY <1>3 DEF Tick
  <2>2. /\ gone' \in Seq(Objects) /\ ToSet(gone') = ToSet(gone) \cup deleting
        /\ ToSet(gone') \subseteq {"surface", "swapchain", "memory"}
        /\ Precedes(gone', "swapchain", "surface")
    BY <2>1, TickKeepsOrder
  <2>3. ObjectsInv'
    BY <2>1, <2>2 DEF ObjectsInv
  <2>4. ASSUME NEW pair \in Pairs PROVE Precedes(gone', pair[1], pair[2])
    <3>1. CASE pair = <<"swapchain", "surface">>
      BY <2>2, <3>1
    <3>2. CASE pair # <<"swapchain", "surface">>
      <4>1. pair[2] \notin ToSet(gone')
        BY <2>2, <3>2 DEF Pairs
      <4>2. QED
        BY <4>1, PrecedesAlone
    <3>3. QED
      BY <3>1, <3>2
  <2>5. QED
    BY <2>3, <2>4 DEF OrderInv
<1>4. CASE CreateSurface
  BY <1>4 DEF CreateSurface, ObjectsInv, OrderInv, Objects
<1>5. CASE Configure
  BY <1>5 DEF Configure, Failed, ObjectsInv, OrderInv, Objects
<1>6. CASE DestroySwapChain
  BY <1>6 DEF DestroySwapChain, ObjectsInv, OrderInv, Objects
<1>7. CASE Allocate
  BY <1>7 DEF Allocate, Failed, ObjectsInv, OrderInv, Objects
<1>8. CASE Free
  BY <1>8 DEF Free, ObjectsInv, OrderInv, Objects
<1>9. CASE DestroyDevice
  <2> DEFINE before == gone \o Deletes
  <2>1. /\ at = "ready" /\ at' = "destroyed" /\ gone' = before \o Destroys /\ deleting' = {}
        /\ made \ deleting \subseteq ToSet(DestructionOrder) \cup {"forgotten"}
        /\ made' = made \ (deleting \cup ToSet(DestructionOrder))
    <3>1. /\ at = "ready" /\ at' = "destroyed" /\ deleting' = {}
          /\ gone' = gone \o Deletes \o Destroys
          /\ made \ deleting \subseteq ToSet(DestructionOrder) \cup {"forgotten"}
          /\ made' = made \ (deleting \cup ToSet(DestructionOrder))
      BY <1>9 DEF DestroyDevice
    <3>2. QED
      BY <3>1
  <2>2. "forgotten" \notin Objects
    BY DEF Objects
  <2>3. made' = {}
    BY <2>1, <2>2 DEF ObjectsInv
  <2>4. /\ before \in Seq(Objects)
        /\ ToSet(before) = ToSet(gone) \cup deleting
        /\ ToSet(before) \subseteq {"surface", "swapchain", "memory"}
        /\ Precedes(before, "swapchain", "surface")
    BY <2>1, TickKeepsOrder
  <2> HIDE DEF before
  <2>5. gone' \in Seq(Objects)
    BY <2>1, <2>4, DestroysAre, Joined
  <2>6. ObjectsInv'
    BY <2>1, <2>3, <2>5 DEF ObjectsInv
  <2>7. ASSUME NEW pair \in Pairs
        PROVE  Precedes(before, pair[1], pair[2])
    <3>1. CASE pair = <<"swapchain", "surface">>
      BY <2>4, <3>1
    <3>2. CASE pair # <<"swapchain", "surface">>
      <4>1. pair[2] \notin ToSet(before)
        BY <2>4, <3>2 DEF Pairs
      <4>2. QED
        BY <4>1, PrecedesAlone
    <3>3. QED
      BY <3>1, <3>2
  <2>8. ASSUME NEW pair \in Pairs
        PROVE  Precedes(Destroys, pair[1], pair[2])
    <3>1. CASE pair \in {<<"debugReport", "instance">>, <<"device", "instance">>}
      BY <3>1, DestroysAre
    <3>2. CASE pair \notin {<<"debugReport", "instance">>, <<"device", "instance">>}
      <4>1. pair[1] \notin ToSet(Destroys)
        BY <3>2, DestroysAre DEF Pairs
      <4>2. QED
        BY <4>1, PrecedesAlone
    <3>3. QED
      BY <3>1, <3>2
  <2>9. ASSUME NEW pair \in Pairs
        PROVE  pair[2] \notin ToSet(before) \/ pair[1] \notin ToSet(Destroys)
    BY <2>4, DestroysAre DEF Pairs
  <2>10. ASSUME NEW pair \in Pairs PROVE Precedes(gone', pair[1], pair[2])
    <3>1. Destroys \in Seq(Objects)
      BY DestroysAre
    <3>2. Precedes(before \o Destroys, pair[1], pair[2])
      BY <2>4, <2>7, <2>8, <2>9, <3>1, JoinedPrecedes
    <3>3. QED
      BY <2>1, <3>2
  <2>11. QED
    BY <2>6, <2>10 DEF OrderInv
<1>10. CASE UNCHANGED vars
  BY <1>10 DEF vars, objects, ObjectsInv, OrderInv
<1>11. QED
  BY <1>2, <1>3, <1>4, <1>5, <1>6, <1>7, <1>8, <1>9, <1>10 DEF Next, Use

(* A type of memory that was chosen stays the one that suits.              *)
LEMMA MemoryStep ==
  KnobsInv /\ MemoryIsSuitable /\ [Next]_vars => MemoryIsSuitable'
<1> SUFFICES ASSUME KnobsInv, MemoryIsSuitable, [Next]_vars PROVE MemoryIsSuitable'
  OBVIOUS
<1>1. driver' = driver
  BY GlobalProcsAre, InstanceProcsAre, DeviceProcsAre
  DEF Next, Startup, GatherGlobalInfo, CreateInstance, RegisterDebugReport, GetPhysicalDevices,
      GatherDeviceInfo, CreateDevice, Gather, Use, Tick, CreateSurface, Configure,
      DestroySwapChain, Allocate, Free, DestroyDevice, vars, machine
<1>2. CASE allocation' = allocation
  BY <1>1, <1>2 DEF MemoryIsSuitable, gpu
<1>3. CASE allocation' # allocation
  <2>1. Allocate \/ Free
    BY <1>3, GlobalProcsAre, InstanceProcsAre, DeviceProcsAre
    DEF Next, Startup, GatherGlobalInfo, CreateInstance, RegisterDebugReport,
        GetPhysicalDevices, GatherDeviceInfo, CreateDevice, Gather, Use, Tick, CreateSurface,
        Configure, DestroySwapChain, DestroyDevice, vars, objects
  <2>2. CASE Free
    BY <2>2 DEF Free, NoAllocation, MemoryIsSuitable
  <2>3. CASE Allocate
    <3>1. PICK types \in Requests \cap SUBSET DOMAIN gpu.types, mappable \in BOOLEAN :
            /\ BestType(types, mappable) # 0
            /\ allocation' = [allowed |-> types, mappable |-> mappable,
                              type |-> BestType(types, mappable)]
      BY <1>3, <2>3 DEF Allocate
    <3>2. driver \in Drivers /\ driver.gpus # <<>>
      BY <2>3 DEF Allocate, KnobsInv
    <3>3. Suits(BestType(types, mappable), types, mappable)
      BY <3>1, <3>2, BestTypeSuits
    <3>4. QED
      BY <1>1, <3>1, <3>3 DEF Suits, MemoryIsSuitable, gpu
  <2>4. QED
    BY <2>1, <2>2, <2>3
<1>4. QED
  BY <1>2, <1>3

-----------------------------------------------------------------------------
(* A sequence over a set is one over any larger set.                       *)
LEMMA Wider == ASSUME NEW V, NEW W, V \subseteq W, NEW s \in Seq(V)
               PROVE  s \in Seq(W)
OBVIOUS

SetupInv == KnobsInv /\ RequestsInv /\ LoadedInv /\ ObjectsInv /\ OrderInv /\ MemoryIsSuitable

(* The invariant holds in the beginning and is kept.                       *)
THEOREM SetupInductive == Careful => (Spec => []SetupInv)
<1> SUFFICES ASSUME Careful PROVE Spec => []SetupInv
  OBVIOUS
<1>1. Init => SetupInv
  <2> SUFFICES ASSUME Init PROVE SetupInv
    OBVIOUS
  <2>1. required \in Seq(Extensions) /\ <<>> \in Seq(Extensions)
    BY Wider, RequirementsAssumption DEF Init, Extensions
  <2>2. KnobsInv
    BY <2>1 DEF KnobsInv, Init, Over, WithInstance
  <2>3. RequestsInv
    BY DEF RequestsInv, RequestsAreAvailable, Init, ToSet, IsInjective, Contains
  <2>4. LoadedInv
    BY DEF LoadedInv, Init, Over, WithProcs, WithInstance
  <2>5. ObjectsInv /\ OrderInv
    BY DEF ObjectsInv, OrderInv, Precedes, Init, Objects, ToSet
  <2>6. MemoryIsSuitable
    BY DEF MemoryIsSuitable, Init, NoAllocation
  <2>7. QED
    BY <2>2, <2>3, <2>4, <2>5, <2>6 DEF SetupInv
<1>2. SetupInv /\ [Next]_vars => SetupInv'
  BY KnobsStep, RequestsStep, LoadedStep, ObjectsStep, MemoryStep DEF SetupInv
<1>3. QED
  BY <1>1, <1>2, PTL DEF Spec

(* NothingCalledUnloaded and RequestsAreAvailable: whatever the driver has *)
(* and whichever step fails, no entry point is called before it is loaded, *)
(* and no layer or extension requested that is not there.                  *)
THEOREM OnlyWhatIsThereAlways == Careful => (Spec => []OnlyWhatIsThere)
<1>1. SetupInv => OnlyWhatIsThere
  BY DEF SetupInv, LoadedInv, RequestsInv, OnlyWhatIsThere, NothingCalledUnloaded
<1>2. QED
  BY <1>1, SetupInductive, PTL

(* FencedDeleter::Tick and ~Device: however the application makes and      *)
(* releases surfaces, swap chains and memory, objects are destroyed before *)
(* those they were made from, and all of them are.                         *)
THEOREM ChildrenGoFirst == Careful => (Spec => []ChildrenFirst)
<1>1. SetupInv => ChildrenFirst
  <2> SUFFICES ASSUME SetupInv PROVE ChildrenFirst
    OBVIOUS
  <2>1. ObjectsInv /\ OrderInv
    BY DEF SetupInv
  <2>2. ASSUME NEW child, NEW parent, <<child, parent>> \in Pairs,
               NEW i \in DOMAIN gone, gone[i] = parent
        PROVE  child \notin made /\ \A j \in DOMAIN gone : gone[j] = child => j < i
    <3>1. parent \in ToSet(gone)
      BY <2>2 DEF ToSet
    <3>2. child \notin made
      BY <2>1, <2>2, <3>1 DEF ObjectsInv, Pairs
    <3>3. Precedes(gone, child, parent)
      <4>1. <<child, parent>>[1] = child /\ <<child, parent>>[2] = parent
        OBVIOUS
      <4>2. QED
        BY <2>1, <2>2, <4>1 DEF OrderInv
    <3>4. QED
      BY <2>2, <3>2, <3>3 DEF Precedes
  <2>3. "forgotten" \notin made /\ \A j \in DOMAIN gone : gone[j] # "forgotten"
    BY <2>1 DEF ObjectsInv, Objects
  <2>4. at = "destroyed" => made = {}
    BY <2>1 DEF ObjectsInv
  <2>5. /\ <<"swapchain", "surface">> \in Pairs /\ <<"swapchain", "device">> \in Pairs
        /\ <<"memory", "device">> \in Pairs
        /\ \A child \in {"surface", "debugReport", "device"} : <<child, "instance">> \in Pairs
    BY DEF Pairs
  <2> HIDE DEF Pairs
  <2>6. QED
    BY <2>2, <2>3, <2>4, <2>5 DEF ChildrenFirst
<1>2. QED
  BY <1>1, SetupInductive, PTL

(* MemoryAllocator::Allocate: whatever types of memory a GPU has, and      *)
(* whichever a resource allows, the loop of FindBestTypeIndex finds one    *)
(* that is allowed, visible if it is mapped, and else local if possible.   *)
THEOREM MemorySuits == Careful => (Spec => []MemoryIsSuitable)
BY SetupInductive, PTL DEF SetupInv
-----------------------------------------------------------------------------
(* Vulkan's render passes.                                                 *)

(* IterateBitSet visits the slots in order: without holes, slot k - 1 is   *)
(* the k-th.                                                               *)
LEMMA InOrderIs ==
  ASSUME NEW n \in Nat
  PROVE  /\ Cardinality(0 .. n - 1) = n
         /\ InOrder(0 .. n - 1) = [k \in 1 .. n |-> k - 1]
<1> DEFINE slots == 0 .. n - 1
           is(i, k) == Cardinality({j \in slots : j < i}) = k - 1
           nth(k) == CHOOSE i \in slots : is(i, k)
<1>1. \A m \in Nat : Cardinality(0 .. m - 1) = m
  BY FS_Interval
<1>2. ASSUME NEW i \in slots PROVE Cardinality({j \in slots : j < i}) = i
  <2>1. {j \in slots : j < i} = 0 .. i - 1 /\ i \in Nat
    OBVIOUS
  <2>2. Cardinality(0 .. i - 1) = i
    BY <1>1, <2>1
  <2>3. QED
    BY <2>1, <2>2
<1>3. Cardinality(slots) = n
  BY <1>1
<1>4. InOrder(slots) = [k \in 1 .. n |-> nth(k)]
  BY <1>3 DEF InOrder
<1>5. ASSUME NEW k \in 1 .. n PROVE nth(k) = k - 1
  <2>1. \A i \in slots : is(i, k) <=> i = k - 1
    BY <1>2
  <2>2. k - 1 \in slots
    OBVIOUS
  <2> HIDE DEF is
  <2>3. QED
    BY <2>1, <2>2
<1> HIDE DEF nth
<1>6. QED
  BY <1>3, <1>4, <1>5

-----------------------------------------------------------------------------
(* The cache: what is there was created for its own query, which is one of *)
(* a descriptor.                                                           *)
Created(renderPass, d) == renderPass = CreateRenderPassForQuery(Query(d))
PassInv ==
  /\ \A entry \in mCache : \E d \in Descriptors :
       entry.query = Query(d) /\ Created(entry.renderPass, d)
  /\ \/ begun = <<>>
     \/ \E d \in Descriptors :
          begun = <<[descriptor |-> d, renderPass |-> CreateRenderPassForQuery(Query(d)),
                     views |-> Views(d)]>>

(* Queries that compare equal make the same render pass: nothing that goes *)
(* into one is left out of CacheFuncs.                                     *)
LEMMA SameQuerySamePass ==
  ASSUME NoHoles, NEW d \in Descriptors, NEW e \in Descriptors, SameQuery(Query(d), Query(e))
  PROVE  CreateRenderPassForQuery(Query(d)) = CreateRenderPassForQuery(Query(e))
<1>1. PICK n \in 0 .. kMaxColorAttachments : ColorMask(d) = 0 .. n - 1
  BY DEF NoHoles
<1>2. n \in Nat
  BY DEF kMaxColorAttachments
<1>3. /\ Cardinality(ColorMask(d)) = n /\ ColorMask(e) = ColorMask(d)
      /\ InOrder(ColorMask(d)) = [k \in 1 .. n |-> k - 1]
  BY <1>1, <1>2, InOrderIs DEF SameQuery, Query
<1>4. \A i \in ColorMask(d) : /\ d.colors[i].format = e.colors[i].format
                              /\ d.colors[i].loadOp = e.colors[i].loadOp
  BY <1>3 DEF SameQuery, Query
<1>5. ColorDescs(Query(d)) = ColorDescs(Query(e))
  BY <1>1, <1>2, <1>3, <1>4 DEF ColorDescs, Query
<1>6. DepthStencilDesc(Query(d)) = DepthStencilDesc(Query(e))
  <2> DEFINE a == d.depthStencil
             b == e.depthStencil
  <2>1. /\ Query(d).depthStencil = a /\ Query(e).depthStencil = b
        /\ a \in Seq([format : STRING, depthLoadOp : STRING, stencilLoadOp : STRING])
        /\ b \in Seq([format : STRING, depthLoadOp : STRING, stencilLoadOp : STRING])
    BY DescriptorsAssumption DEF Query
  <2>2. /\ Len(a) = Len(b)
        /\ \A k \in DOMAIN a : \A op \in {"format", "depthLoadOp", "stencilLoadOp"} :
             a[k][op] = b[k][op]
    BY <2>1 DEF SameQuery
  <2>3. DOMAIN a = DOMAIN b
    BY <2>1, <2>2
  <2>4. \A k \in DOMAIN a : /\ a[k].format = b[k].format
                            /\ a[k].depthLoadOp = b[k].depthLoadOp
                            /\ a[k].stencilLoadOp = b[k].stencilLoadOp
    BY <2>2
  <2> HIDE DEF a, b
  <2>5. QED
    BY <2>1, <2>3, <2>4 DEF DepthStencilDesc
<1>7. QED
  BY <1>3, <1>5, <1>6 DEF CreateRenderPassForQuery, Query

(* A render pass from the cache or a new one, it is the one for the query. *)
LEMMA CacheIsRight ==
  ASSUME NoHoles, PassInv, NEW d \in Descriptors
  PROVE  Created(GetRenderPass(Query(d)), d)
<1>1. CASE Cached(Query(d)) = {}
  BY <1>1 DEF GetRenderPass, Created
<1>2. CASE Cached(Query(d)) # {}
  <2> DEFINE found == CHOOSE entry \in Cached(Query(d)) : TRUE
  <2>1. found \in Cached(Query(d)) /\ GetRenderPass(Query(d)) = found.renderPass
    BY <1>2 DEF GetRenderPass
  <2> HIDE DEF found
  <2>2. found \in mCache /\ SameQuery(found.query, Query(d))
    BY <2>1 DEF Cached
  <2>3. PICK e \in Descriptors : found.query = Query(e) /\ Created(found.renderPass, e)
    BY <2>2 DEF PassInv
  <2>4. QED
    BY <2>1, <2>2, <2>3, SameQuerySamePass DEF Created
<1>3. QED
  BY <1>1, <1>2

(* RecordBeginRenderPass keeps the cache right.                            *)
LEMMA PassStep ==
  ASSUME NoHoles, PassInv, \/ \E d \in Descriptors : RecordBeginRenderPass(d)
                           \/ UNCHANGED passVars
  PROVE  PassInv'
<1>1. CASE UNCHANGED passVars
  BY <1>1 DEF passVars, PassInv
<1>2. ASSUME NEW d \in Descriptors, RecordBeginRenderPass(d) PROVE PassInv'
  <2> DEFINE pass == GetRenderPass(Query(d))
  <2>1. Created(pass, d)
    BY CacheIsRight
  <2>2. /\ mCache' = mCache \cup {[query |-> Query(d), renderPass |-> pass]}
        /\ begun' = <<[descriptor |-> d, renderPass |-> pass, views |-> Views(d)]>>
    BY <1>2 DEF RecordBeginRenderPass
  <2> HIDE DEF pass
  <2>3. QED
    BY <2>1, <2>2 DEF PassInv, Created
<1>3. QED
  BY <1>1, <1>2

(* A render pass that was created for a descriptor fits it.                *)
LEMMA PassFits ==
  ASSUME NoHoles, PassInv
  PROVE  CachedPassFits
<1>1. SUFFICES ASSUME NEW b \in ToSet(begun)
               PROVE  /\ [k \in DOMAIN b.views |-> Wanted(b.descriptor, b.views[k])]
                           = b.renderPass.attachments
                      /\ \A i \in ColorMask(b.descriptor) :
                           i < b.renderPass.colorAttachmentCount /\ b.views[i + 1] = i
  BY DEF CachedPassFits
<1>2. PICK d \in Descriptors :
        /\ b.descriptor = d /\ b.views = Views(d)
        /\ b.renderPass = CreateRenderPassForQuery(Query(d))
  <2>1. begun # <<>>
    BY DEF ToSet
  <2>2. PICK d \in Descriptors :
          begun = <<[descriptor |-> d, renderPass |-> CreateRenderPassForQuery(Query(d)),
                     views |-> Views(d)]>>
    BY <2>1 DEF PassInv
  <2>3. b = [descriptor |-> d, renderPass |-> CreateRenderPassForQuery(Query(d)),
             views |-> Views(d)]
    <3> DEFINE r == [descriptor |-> d, renderPass |-> CreateRenderPassForQuery(Query(d)),
                     views |-> Views(d)]
    <3>1. begun = <<r>>
      BY <2>2
    <3> HIDE DEF r
    <3>2. DOMAIN <<r>> = {1} /\ <<r>>[1] = r
      OBVIOUS
    <3>3. b = r
      BY <3>1, <3>2 DEF ToSet
    <3>4. QED
      BY <3>3 DEF r
  <2>4. QED
    BY <2>3
<1>3. PICK n \in 0 .. kMaxColorAttachments : ColorMask(d) = 0 .. n - 1
  BY DEF NoHoles
<1>4. n \in Nat
  BY DEF kMaxColorAttachments
<1> DEFINE order == [k \in 1 .. n |-> k - 1]
           depth == d.depthStencil
           depthViews == [k \in DOMAIN depth |-> DepthView]
           colors == ColorDescs(Query(d))
           depths == DepthStencilDesc(Query(d))
<1>5. Cardinality(ColorMask(d)) = n /\ InOrder(ColorMask(d)) = order
  BY <1>3, <1>4, InOrderIs
<1>6. depth \in Seq([format : STRING, depthLoadOp : STRING, stencilLoadOp : STRING])
        /\ Len(depth) \in {0, 1} /\ DOMAIN depth = 1 .. Len(depth)
  <2>1. depth \in Seq([format : STRING, depthLoadOp : STRING, stencilLoadOp : STRING])
          /\ Len(depth) <= 1
    BY DescriptorsAssumption
  <2> HIDE DEF depth
  <2>2. QED
    BY <2>1
<1>7. /\ Views(d) = order \o depthViews
      /\ b.renderPass.attachments = colors \o depths
      /\ b.renderPass.colorAttachmentCount = n
  BY <1>2, <1>5 DEF Views, CreateRenderPassForQuery, Query
<1>8. /\ order \in Seq(Int) /\ Len(order) = n
      /\ depthViews \in Seq(Int) /\ Len(depthViews) = Len(depth)
  BY <1>4, <1>6 DEF DepthView
<1>9. /\ colors = [k \in 1 .. n |-> [format |-> d.colors[k - 1].format,
                                     loadOps |-> <<d.colors[k - 1].loadOp>>,
                                     layout |-> "COLOR_ATTACHMENT"]]
      /\ colors = [k \in 1 .. n |-> Wanted(d, k - 1)]
  BY <1>3, <1>4, <1>5 DEF ColorDescs, Query, Wanted, DepthView
<1>10. depths = [k \in 1 .. Len(depth) |-> Wanted(d, DepthView)]
  BY <1>6 DEF DepthStencilDesc, Query, Wanted, DepthView
<1> DEFINE W == {Wanted(d, x) : x \in Int}
           m == Len(depth)
<1>11. colors \in Seq(W) /\ Len(colors) = n /\ depths \in Seq(W) /\ Len(depths) = m
  <2>1. \A x \in Int : Wanted(d, x) \in W
    OBVIOUS
  <2>2. DepthView \in Int /\ \A k \in 1 .. n : k - 1 \in Int
    BY <1>4 DEF DepthView
  <2>3. m \in Nat
    BY <1>6
  <2>4. /\ colors = [k \in 1 .. n |-> Wanted(d, k - 1)]
        /\ depths = [k \in 1 .. m |-> Wanted(d, DepthView)]
    BY <1>9, <1>10
  <2> HIDE DEF W, colors, depths, m
  <2>5. /\ \A k \in 1 .. n : Wanted(d, k - 1) \in W
        /\ \A k \in 1 .. m : Wanted(d, DepthView) \in W
    BY <2>1, <2>2
  <2>6. colors \in Seq(W) /\ Len(colors) = n
    BY <1>4, <2>4, <2>5
  <2>7. depths \in Seq(W) /\ Len(depths) = m
    BY <2>3, <2>4, <2>5
  <2>8. QED
    BY <2>6, <2>7
<1>12. m \in Nat /\ (m = 0 \/ m = 1)
  BY <1>6
<1> HIDE DEF W, colors, depths, m, depth
<1> DEFINE views == order \o depthViews
           both == colors \o depths
<1>13. /\ Len(views) = n + m /\ DOMAIN views = 1 .. n + m
       /\ \A k \in 1 .. n : views[k] = k - 1
       /\ \A k \in 1 .. m : views[n + k] = DepthView
  BY <1>4, <1>6, <1>8, <1>12 DEF m
<1>14. /\ both = [k \in 1 .. n + m |-> both[k]]
       /\ \A k \in 1 .. n : both[k] = Wanted(d, k - 1)
       /\ \A k \in 1 .. m : both[n + k] = Wanted(d, DepthView)
  <2>1. \A k \in 1 .. n : colors[k] = Wanted(d, k - 1)
    BY <1>9
  <2>2. \A k \in 1 .. m : depths[k] = Wanted(d, DepthView)
    BY <1>10 DEF m
  <2>3. both \in Seq(W) /\ Len(both) = n + m
    BY <1>4, <1>11, <1>12
  <2>4. \A k \in 1 .. n : both[k] = colors[k]
    BY <1>4, <1>11, <1>12
  <2>5. \A k \in 1 .. m : both[n + k] = depths[k]
    BY <1>4, <1>11, <1>12
  <2> HIDE DEF both
  <2>6. both = [k \in 1 .. n + m |-> both[k]]
    BY <2>3
  <2>7. QED
    BY <2>1, <2>2, <2>4, <2>5, <2>6
<1> HIDE DEF views, both, order, depthViews
<1>15. \A k \in 1 .. n + m : k \in 1 .. n \/ (k - n \in 1 .. m /\ k = n + (k - n))
  BY <1>4, <1>12
<1>16. \A k \in 1 .. n + m : Wanted(d, views[k]) = both[k]
  BY <1>13, <1>14, <1>15
<1>17. [k \in DOMAIN views |-> Wanted(d, views[k])] = both
  BY <1>13, <1>14, <1>16
<1>18. \A i \in ColorMask(d) : i < n /\ views[i + 1] = i
  BY <1>3, <1>4, <1>13
<1>19. b.views = views /\ b.renderPass.attachments = both /\ b.descriptor = d
         /\ b.renderPass.colorAttachmentCount = n
  BY <1>2, <1>7 DEF views, both
<1>20. QED
  BY <1>17, <1>18, <1>19

-----------------------------------------------------------------------------
(* The usages of a resource.  A buffer is used in a set of usages at once, *)
(* a texture in one.                                                       *)
AllTextureUsages == TextureUsages \cup {"Present"}
Proper(usage) ==
  IF kind = "buffer" THEN usage \subseteq BufferUsages /\ usage # {}
  ELSE \E u \in AllTextureUsages : usage = {u}

UsageInv ==
  /\ kind \in {"buffer", "color", "depth", "swapchain"}
  /\ kind = "buffer" => allowed \subseteq BufferUsages /\ ValidateBufferDescriptor(allowed)
  /\ kind # "buffer" => allowed \subseteq AllTextureUsages
  /\ lastUsage = {} \/ Proper(lastUsage)
  /\ swap \in {"none", "created", "configured", "acquired", "presented"}
  /\ swap # "none" => kind # "buffer"
  /\ swap \in {"created", "configured", "presented"} => using = {}
  /\ swap \in {"created", "configured"} => lastUsage = {}
  /\ using = {"Present"} => swap = "acquired"

(* What passes, copies and mappings ask for.                               *)
LEMMA AskedIsProper ==
  ASSUME UsageInv, NEW usage \in PassUsages \cup CopyUsages \cup MapUsages
  PROVE  Proper(usage) /\ usage \subseteq allowed /\ usage # {"Present"}
<1>1. CASE usage \in CopyUsages \cup MapUsages
  BY <1>1 DEF UsageInv, CopyUsages, MapUsages, Proper, AllTextureUsages, TextureUsages
<1>2. CASE usage \in PassUsages
  <2>1. CASE usage \in {{w} : w \in allowed \cap {"Storage", "OutputAttachment"}}
    BY <2>1 DEF UsageInv, Proper, AllTextureUsages, TextureUsages
  <2>2. CASE usage \subseteq allowed \cap {"Index", "Vertex", "Uniform", "Sampled"} /\ usage # {}
    <3>1. CASE kind = "buffer"
      BY <2>2, <3>1 DEF UsageInv, Proper, BufferUsages
    <3>2. CASE kind # "buffer"
      <4>1. usage = {"Sampled"}
        BY <2>2, <3>2 DEF UsageInv, AllTextureUsages, TextureUsages
      <4>2. QED
        BY <2>2, <3>2, <4>1 DEF Proper, AllTextureUsages, TextureUsages
    <3>3. QED
      BY <3>1, <3>2
  <2>3. \/ usage \in {{w} : w \in allowed \cap {"Storage", "OutputAttachment"}}
        \/ usage \in SUBSET (allowed \cap {"Index", "Vertex", "Uniform", "Sampled"}) /\ usage # {}
    BY <1>2 DEF PassUsages
  <2>4. QED
    BY <2>1, <2>2, <2>3
<1>3. QED
  BY <1>1, <1>2

-----------------------------------------------------------------------------
(* D3D12 *)

(* The state of a resource is the one of its last usage, or of its heap.   *)
D3Right ==
  /\ native = [state |-> native.state, faults |-> {}]
  /\ mFixedResourceState => lastUsage = InitialUsage /\ native.state = InitialState
  /\ ~mFixedResourceState => native.state = StateOf(lastUsage)
D3Inv ==
  backend = "d3d12" =>
    /\ D3Right
    /\ \A u \in using : \/ u \in {"MapRead", "MapWrite"} \/ u \in lastUsage
                        \/ u = "TransferSrc" /\ "TransferDst" \in using
    /\ using = {"Present"} \/ swap = "presented" => lastUsage = {"Present"}

(* Whatever a resource was last used for, its state allows it.             *)
LEMMA StateAllows ==
  ASSUME UsageInv, NEW u \in lastUsage
  PROVE  /\ u # "Present" => NeededState(u) \subseteq StateOf(lastUsage)
         /\ u = "Present" => StateOf(lastUsage) = {} /\ NeededState(u) = {}
<1>1. CASE kind = "buffer"
  <2>1. u \in BufferUsages
    BY <1>1 DEF UsageInv, Proper
  <2>2. NeededState(u) = D3D12BufferState(u)
    BY <2>1 DEF NeededState, D3D12BufferState, BufferUsages
  <2>3. QED
    BY <1>1, <2>1, <2>2 DEF StateOf, D3D12BufferUsage, BufferUsages
<1>2. CASE kind # "buffer"
  <2>1. lastUsage = {u} /\ u \in AllTextureUsages
    BY <1>2 DEF UsageInv, Proper
  <2>2. CASE u = "Present"
    BY <1>2, <2>1, <2>2 DEF StateOf, D3D12TextureUsage, NeededState
  <2>3. CASE u # "Present"
    <3>1. NeededState(u) = D3D12TextureState(u)
      BY <2>1, <2>3 DEF NeededState, D3D12TextureState, AllTextureUsages, TextureUsages
    <3>2. StateOf(lastUsage) = D3D12TextureState(u)
      BY <1>2, <2>1, <2>3 DEF StateOf, D3D12TextureUsage
    <3>3. QED
      BY <2>3, <3>1, <3>2
  <2>4. QED
    BY <2>2, <2>3
<1>3. QED
  BY <1>1, <1>2

(* A resource is in a state that allows what it is used for.               *)
LEMMA D3Allows == UsageInv /\ D3Inv => D3D12StateAllows
<1> SUFFICES ASSUME UsageInv, D3Inv, backend = "d3d12" PROVE D3D12StateAllows
  BY DEF D3D12StateAllows
<1>1. native.faults = {}
  BY DEF D3Inv, D3Right
<1>2. ASSUME NEW u \in lastUsage, u # "Present" PROVE NeededState(u) \subseteq native.state
  <2>1. CASE mFixedResourceState
    BY <1>2, <2>1 DEF D3Inv, D3Right, mFixedResourceState, InitialUsage, InitialState, NeededState,
                      GenericRead, D3D12HeapType
  <2>2. CASE ~mFixedResourceState
    BY <1>2, <2>2, StateAllows DEF D3Inv, D3Right
  <2>3. QED
    BY <2>1, <2>2
<1>3. ASSUME lastUsage = {"Present"} PROVE native.state = {}
  <2>1. ~mFixedResourceState
    BY <1>3 DEF D3Inv, D3Right, mFixedResourceState, InitialUsage, D3D12HeapType
  <2>2. QED
    BY <1>3, <2>1, StateAllows DEF D3Inv, D3Right
<1>4. ASSUME NEW u \in using
      PROVE NeededState(u) \subseteq native.state \/ (u = "TransferSrc" /\ "TransferDst" \in using)
  <2>1. CASE u \in {"MapRead", "MapWrite", "Present"}
    BY <2>1 DEF NeededState
  <2>2. CASE u \notin {"MapRead", "MapWrite", "Present"}
    BY <1>2, <1>4, <2>2 DEF D3Inv
  <2>3. QED
    BY <2>1, <2>2
<1>5. using = {"Present"} => native.state = {}
  BY <1>3 DEF D3Inv
<1>6. QED
  BY <1>1, <1>4, <1>5 DEF D3D12StateAllows

(* Every step keeps what is known of usages.                               *)
LEMMA UsageStep == UsageInv /\ [BarriersNext]_barrierVars => UsageInv'
<1> SUFFICES ASSUME UsageInv, [BarriersNext]_barrierVars PROVE UsageInv'
  OBVIOUS
<1>1. ASSUME UNCHANGED <<kind, allowed, swap>>, lastUsage' = lastUsage \/ Proper(lastUsage'),
             swap \in {"none", "acquired"} \/ UNCHANGED <<lastUsage, using>>,
             using' = {"Present"} => swap = "acquired"
      PROVE  UsageInv'
  BY <1>1 DEF UsageInv, Proper
<1>2. ASSUME NEW usage, Proper(usage), UNCHANGED <<kind, allowed, swap>>, Usable,
             lastUsage' \in {lastUsage, usage}, using' = usage,
             usage = {"Present"} => swap = "acquired"
      PROVE  UsageInv'
  BY <1>1, <1>2 DEF Usable
<1>3. CASE backend = "vulkan" /\ VkNext
  <2>1. ASSUME NEW usage, Proper(usage), VkTransition(usage),
               usage = {"Present"} => swap = "acquired"
        PROVE  UsageInv'
    <3>1. /\ UNCHANGED <<kind, allowed, swap>> /\ Usable
          /\ lastUsage' \in {lastUsage, usage} /\ using' = usage
      BY <2>1 DEF VkTransition, Keeps, TransitionUsageNow
    <3>2. QED
      BY <1>2, <2>1, <3>1
  <2>2. CASE TransitionForPass \/ TransitionForCopy \/ MapAsync
    <3>1. PICK usage \in PassUsages \cup CopyUsages \cup MapUsages : VkTransition(usage)
      BY <2>2 DEF TransitionForPass, TransitionForCopy, MapAsync
    <3>2. QED
      BY <2>1, <3>1, AskedIsProper
  <2>3. CASE OnBeforePresent
    <3>1. Proper({"Present"})
      BY <2>3 DEF OnBeforePresent, UsageInv, Proper, AllTextureUsages
    <3>2. QED
      BY <2>1, <2>3, <3>1 DEF OnBeforePresent
  <2>4. CASE TransitionDestination
    <3>1. /\ UNCHANGED <<kind, allowed, swap>> /\ kind = "buffer"
          /\ lastUsage' \in {lastUsage, {"TransferDst"}} /\ swap = "none"
          /\ using' # {"Present"}
      BY <2>4 DEF TransitionDestination, Keeps, TransitionUsageNow, UsageInv
    <3>2. Proper({"TransferDst"})
      BY <3>1 DEF Proper, BufferUsages
    <3>3. QED
      BY <1>1, <3>1, <3>2
  <2>5. CASE VkUse \/ VkConfigure \/ VkGetNextTexture \/ VkPresent
    BY <2>5 DEF VkUse, VkConfigure, VkGetNextTexture, VkPresent, Keeps, UsageInv, Proper
  <2>6. QED
    BY <1>3, <2>2, <2>3, <2>4, <2>5 DEF VkNext
<1>4. CASE backend = "d3d12" /\ D3Next
  <2>1. ASSUME NEW usage, Proper(usage), D3Transition(usage),
               usage = {"Present"} => swap = "acquired"
        PROVE  UsageInv'
    <3>1. /\ UNCHANGED <<kind, allowed, swap>> /\ Usable
          /\ lastUsage' \in {lastUsage, usage} /\ using' = usage
      BY <2>1 DEF D3Transition, Keeps, D3TransitionUsageNow
    <3>2. QED
      BY <1>2, <2>1, <3>1
  <2>2. CASE D3TransitionForPass \/ D3TransitionForCopy
    <3>1. PICK usage \in PassUsages \cup CopyUsages : D3Transition(usage)
      BY <2>2 DEF D3TransitionForPass, D3TransitionForCopy
    <3>2. QED
      BY <2>1, <3>1, AskedIsProper
  <2>3. CASE D3OnBeforePresent
    <3>1. Proper({"Present"})
      BY <2>3 DEF D3OnBeforePresent, UsageInv, Proper, AllTextureUsages
    <3>2. QED
      BY <2>1, <2>3, <3>1 DEF D3OnBeforePresent
  <2>4. CASE D3TransitionDestination
    <3>1. /\ UNCHANGED <<kind, allowed, swap>> /\ kind = "buffer"
          /\ lastUsage' \in {lastUsage, {"TransferDst"}} /\ swap = "none"
          /\ using' # {"Present"}
      BY <2>4 DEF D3TransitionDestination, Keeps, D3TransitionUsageNow, UsageInv
    <3>2. Proper({"TransferDst"})
      BY <3>1 DEF Proper, BufferUsages
    <3>3. QED
      BY <1>1, <3>1, <3>2
  <2>5. CASE D3MapAsync
    <3>1. using' # {"Present"}
      BY <2>5 DEF D3MapAsync, MapUsages
    <3>2. QED
      BY <1>1, <2>5, <3>1 DEF D3MapAsync, Keeps, Usable
  <2>6. CASE D3Use \/ D3Configure \/ D3GetNextTexture \/ D3Present
    BY <2>6 DEF D3Use, D3Configure, D3GetNextTexture, D3Present, Keeps, UsageInv, Proper
  <2>7. QED
    BY <1>4, <2>2, <2>3, <2>4, <2>5, <2>6 DEF D3Next
<1>5. CASE UNCHANGED barrierVars
  BY <1>5 DEF barrierVars, usageVars, UsageInv, Proper
<1>6. QED
  BY <1>3, <1>4, <1>5 DEF BarriersNext

(* A mappable buffer is asked for nothing but the state of its heap.       *)
LEMMA FixedIsAskedFor ==
  ASSUME UsageInv, mFixedResourceState, NEW usage \in PassUsages \cup CopyUsages
  PROVE  usage = InitialUsage
<1>1. kind = "buffer" /\ ValidateBufferDescriptor(allowed)
  BY DEF UsageInv, mFixedResourceState
<1>2. CASE "MapRead" \in allowed
  <2>1. allowed \subseteq {"MapRead", "TransferDst"}
    BY <1>1, <1>2 DEF ValidateBufferDescriptor
  <2>2. usage = {"TransferDst"}
    BY <2>1, AskedIsProper DEF PassUsages, CopyUsages
  <2>3. QED
    BY <1>1, <1>2, <2>2 DEF InitialUsage, D3D12HeapType
<1>3. CASE "MapRead" \notin allowed
  <2>1. "MapWrite" \in allowed
    BY <1>3 DEF mFixedResourceState, D3D12HeapType
  <2>2. allowed \subseteq {"MapWrite", "TransferSrc"}
    BY <1>1, <2>1 DEF ValidateBufferDescriptor
  <2>3. usage = {"TransferSrc"}
    BY <2>2, AskedIsProper DEF PassUsages, CopyUsages
  <2>4. QED
    BY <1>1, <1>3, <2>1, <2>3 DEF InitialUsage, D3D12HeapType
<1>4. QED
  BY <1>2, <1>3

(* A transition: the barrier, if there is one, starts from the state the   *)
(* resource is in.                                                         *)
LEMMA D3Moves ==
  ASSUME UsageInv, D3Right, NEW usage, Proper(usage),
         mFixedResourceState => usage = InitialUsage, Keeps(D3TransitionUsageNow(usage))
  PROVE  D3Right' /\ usage \subseteq lastUsage' /\ (kind # "buffer" => lastUsage' = usage)
<1>1. UNCHANGED <<kind, allowed>>
  BY DEF Keeps
<1>2. (mFixedResourceState <=> mFixedResourceState') /\ InitialUsage' = InitialUsage
        /\ InitialState' = InitialState
  BY <1>1 DEF mFixedResourceState, InitialUsage, InitialState, D3D12HeapType
<1>3. CASE mFixedResourceState
  <2>1. usage = lastUsage /\ lastUsage' = lastUsage
    BY <1>3 DEF D3Right, Keeps, D3TransitionUsageNow
  <2>2. native' = native
    BY <1>3, <2>1 DEF D3Right, Keeps, D3TransitionUsageNow
  <2>3. QED
    BY <1>2, <1>3, <2>1, <2>2 DEF D3Right
<1>4. CASE ~mFixedResourceState /\ ~NeedsBarrier(usage)
  <2>1. lastUsage' = lastUsage /\ native' = native
    BY <1>4 DEF Keeps, D3TransitionUsageNow
  <2>2. StateOf(lastUsage)' = StateOf(lastUsage)
    BY <1>1, <2>1 DEF StateOf, D3D12BufferUsage, D3D12TextureUsage, D3D12TextureState
  <2>3. usage \subseteq lastUsage /\ (kind # "buffer" => lastUsage = usage)
    BY <1>4 DEF NeedsBarrier
  <2>4. QED
    BY <1>2, <1>4, <2>1, <2>2, <2>3 DEF D3Right
<1>5. CASE ~mFixedResourceState /\ NeedsBarrier(usage)
  <2>1. lastUsage' = usage /\ native' = [state |-> StateOf(usage), faults |-> native.faults]
    BY <1>5 DEF Keeps, D3TransitionUsageNow, AfterBarrierD3D12, D3Right
  <2>2. StateOf(lastUsage)' = StateOf(usage)
    BY <1>1, <2>1 DEF StateOf, D3D12BufferUsage, D3D12TextureUsage, D3D12TextureState
  <2>3. QED
    BY <1>2, <1>5, <2>1, <2>2 DEF D3Right
<1>6. QED
  BY <1>3, <1>4, <1>5

(* Every step of D3D12 keeps the state right.                              *)
LEMMA D3Step == UsageInv /\ D3Inv /\ [BarriersNext]_barrierVars => D3Inv'
<1> SUFFICES ASSUME UsageInv, D3Inv, [BarriersNext]_barrierVars, backend' = "d3d12" PROVE D3Inv'
  BY DEF D3Inv
<1>1. ASSUME UNCHANGED <<backend, kind, allowed, lastUsage, native>>,
             \/ using' = using \/ using' = {}
             \/ using' \in {{"MapRead"}, {"MapWrite"}},
             swap' = "presented" => swap = "presented" \/ using = {"Present"}
      PROVE  D3Inv'
  <2>1. backend = "d3d12"
    BY <1>1
  <2>2. /\ mFixedResourceState <=> mFixedResourceState'
        /\ InitialUsage' = InitialUsage /\ InitialState' = InitialState
    BY <1>1 DEF mFixedResourceState, D3D12HeapType, InitialUsage, InitialState
  <2>3. StateOf(lastUsage)' = StateOf(lastUsage)
    BY <1>1 DEF StateOf, D3D12BufferUsage, D3D12TextureUsage, D3D12TextureState
  <2>4. D3Right'
    BY <2>1, <2>2, <2>3, <1>1 DEF D3Inv, D3Right
  <2>5. QED
    BY <2>1, <2>4, <1>1 DEF D3Inv
<1>2. CASE UNCHANGED barrierVars
  BY <1>1, <1>2 DEF barrierVars, usageVars
<1>3. CASE backend = "vulkan" /\ VkNext
  BY <1>3 DEF VkNext, TransitionForPass, TransitionForCopy, MapAsync, VkTransition,
              TransitionDestination, VkUse, VkConfigure, VkGetNextTexture, OnBeforePresent,
              VkPresent, Keeps
<1>4. CASE backend = "d3d12" /\ D3Next
  <2>1. ASSUME NEW usage, Proper(usage), mFixedResourceState => usage = InitialUsage,
               D3Transition(usage)
        PROVE  D3Inv'
    <3>1. D3Right' /\ usage \subseteq lastUsage' /\ (kind # "buffer" => lastUsage' = usage)
      BY <1>4, <2>1, D3Moves DEF D3Inv, D3Transition
    <3>2. using' = usage /\ (usage = {"Present"} => kind # "buffer") /\ swap' # "presented"
      BY <2>1 DEF D3Transition, Proper, BufferUsages, Usable
    <3>3. QED
      BY <3>1, <3>2 DEF D3Inv
  <2>2. CASE D3TransitionForPass \/ D3TransitionForCopy
    <3>1. PICK usage \in PassUsages \cup CopyUsages : D3Transition(usage)
      BY <2>2 DEF D3TransitionForPass, D3TransitionForCopy
    <3>2. QED
      BY <2>1, <3>1, AskedIsProper, FixedIsAskedFor
  <2>3. CASE D3OnBeforePresent
    <3>1. Proper({"Present"}) /\ ~mFixedResourceState
      BY <2>3 DEF D3OnBeforePresent, UsageInv, Proper, AllTextureUsages, mFixedResourceState
    <3>2. QED
      BY <2>1, <2>3, <3>1 DEF D3OnBeforePresent
  <2>4. CASE D3TransitionDestination
    <3>1. {"TransferDst"} \in CopyUsages /\ Keeps(D3TransitionUsageNow({"TransferDst"}))
            /\ using' = {"TransferSrc", "TransferDst"} /\ swap' # "presented"
      BY <2>4 DEF D3TransitionDestination, CopyUsages, UsageInv
    <3>2. D3Right' /\ {"TransferDst"} \subseteq lastUsage'
      BY <1>4, <3>1, AskedIsProper, FixedIsAskedFor, D3Moves DEF D3Inv
    <3>3. QED
      BY <3>1, <3>2 DEF D3Inv
  <2>5. CASE D3MapAsync
    BY <1>1, <2>5 DEF D3MapAsync, Keeps, MapUsages
  <2>6. CASE D3Use \/ D3Configure \/ D3Present
    BY <1>1, <2>6 DEF D3Use, D3Configure, D3Present, Keeps
  <2>7. CASE D3GetNextTexture
    <3>1. lastUsage \in {{}, {"Present"}} /\ kind # "buffer" /\ using = {}
      BY <1>4, <2>7 DEF D3GetNextTexture, UsageInv, D3Inv
    <3>2. ~mFixedResourceState /\ ~mFixedResourceState'
      BY <2>7, <3>1 DEF D3GetNextTexture, Keeps, mFixedResourceState
    <3>3. StateOf(lastUsage) = {} /\ StateOf(lastUsage)' = {}
      BY <2>7, <3>1 DEF D3GetNextTexture, Keeps, StateOf, D3D12TextureUsage
    <3>4. D3Right'
      BY <1>4, <2>7, <3>2, <3>3 DEF D3GetNextTexture, Keeps, D3Inv, D3Right
    <3>5. QED
      BY <2>7, <3>1, <3>4 DEF D3GetNextTexture, Keeps, D3Inv
  <2>8. QED
    BY <1>4, <2>2, <2>3, <2>4, <2>5, <2>6, <2>7 DEF D3Next
<1>5. QED
  BY <1>2, <1>3, <1>4 DEF BarriersNext

-----------------------------------------------------------------------------
(* Vulkan *)

(* The tables: a usage has stages, none of which means all of them except  *)
(* for the presentation; its commands stay in the stages and accesses that *)
(* the tables name; and usages that are read only write nothing.           *)
LEMMA StagesAre ==
  ASSUME UsageInv, NEW usage, Proper(usage)
  PROVE  /\ VulkanPipelineStage(usage) # {} /\ "TOP_OF_PIPE" \notin VulkanPipelineStage(usage)
         /\ usage # {"Present"} => "BOTTOM_OF_PIPE" \notin VulkanPipelineStage(usage)
<1>1. CASE kind = "buffer"
  <2>1. /\ usage \subseteq BufferUsages /\ usage # {}
        /\ VulkanPipelineStage(usage) = UNION {BufferStage(u) : u \in usage}
    BY <1>1 DEF Proper, VulkanPipelineStage
  <2>2. \A u \in BufferUsages :
          /\ BufferStage(u) # {} /\ {"TOP_OF_PIPE", "BOTTOM_OF_PIPE"} \cap BufferStage(u) = {}
    BY DEF BufferUsages, BufferStage, Shaders
  <2>3. QED
    BY <2>1, <2>2
<1>2. CASE kind # "buffer"
  <2>1. PICK u \in AllTextureUsages : usage = {u}
    BY <1>2 DEF Proper
  <2>2. VulkanPipelineStage(usage) = TextureStage(u)
    BY <1>2, <2>1 DEF VulkanPipelineStage
  <2>3. QED
    BY <2>1, <2>2 DEF AllTextureUsages, TextureUsages, TextureStage, Shaders, DepthTests
<1>3. QED
  BY <1>1, <1>2

(* The stages and accesses of a command are those of its usage.            *)
LEMMA TouchesAre ==
  ASSUME UsageInv, NEW usage, Proper(usage), NEW u \in usage, NEW t \in Touches(u)
  PROVE  t[1] \in VulkanPipelineStage(usage) /\ t[2] \in VulkanAccessFlags(usage)
           /\ t = <<t[1], t[2]>>
<1>1. CASE kind = "buffer"
  <2>1. u \in BufferUsages
    BY <1>1 DEF Proper
  <2>2. t \in BufferStage(u) \X BufferAccess(u)
    BY <2>1 DEF BufferUsages, BufferStage, BufferAccess, Touches
  <2>3. QED
    BY <1>1, <2>2 DEF VulkanPipelineStage, VulkanAccessFlags
<1>2. CASE kind # "buffer"
  <2>1. usage = {u} /\ u \in AllTextureUsages
    BY <1>2 DEF Proper
  <2>2. t \in TextureStage(u) \X TextureAccess(u)
    BY <2>1 DEF AllTextureUsages, TextureUsages, TextureStage, TextureAccess, Touches
  <2>3. QED
    BY <1>2, <2>1, <2>2 DEF VulkanPipelineStage, VulkanAccessFlags
<1>3. QED
  BY <1>1, <1>2

(* kReadOnlyBufferUsages and kReadOnlyTextureUsages.                       *)
ReadOnly(usage) ==
  usage \subseteq IF kind = "buffer" THEN kReadOnlyBufferUsages ELSE kReadOnlyTextureUsages

(* A read-only usage has no access that writes.                            *)
LEMMA ReadOnlyWritesNothing ==
  ASSUME UsageInv, NEW usage, Proper(usage), ReadOnly(usage)
  PROVE  VulkanAccessFlags(usage) \cap Writes = {}
<1>1. \A u \in kReadOnlyBufferUsages : BufferAccess(u) \cap Writes = {}
  BY DEF kReadOnlyBufferUsages, BufferAccess, Writes
<1>2. \A u \in kReadOnlyTextureUsages : TextureAccess(u) \cap Writes = {}
  BY DEF kReadOnlyTextureUsages, TextureAccess, Writes
<1>3. QED
  BY <1>1, <1>2 DEF ReadOnly, VulkanAccessFlags

-----------------------------------------------------------------------------
(* An access of the past is fresh when nothing was recorded after it that  *)
(* waits for it: the next barrier names its stage, and its access if it    *)
(* wrote.  It is chained when all barriers since together made whatever    *)
(* these stages do wait for it, and see what it wrote.                     *)
Fresh(a, stages, accesses) == a.stage \in stages /\ (a.access \in Writes => a.access \in accesses)
Chained(a, stages, accesses) ==
  stages \subseteq a.before
    /\ (a.access \in Writes => a.available /\ stages \X accesses \subseteq a.seenBy)
Recorded(a) ==
  /\ a = [stage |-> a.stage, access |-> a.access, before |-> a.before,
          available |-> a.available, seenBy |-> a.seenBy]
  /\ a.available \in BOOLEAN
Waits(a, usage) ==
  \/ Fresh(a, VulkanPipelineStage(usage), VulkanAccessFlags(usage))
  \/ Chained(a, VulkanPipelineStage(usage), VulkanAccessFlags(usage))

(* A barrier chains what it waits for to what waits for it.                *)
LEMMA AfterChains ==
  ASSUME NEW a, Recorded(a), NEW src, NEW srcAccess, NEW dst, NEW dstAccess,
         Fresh(a, src, srcAccess) \/ Chained(a, src, srcAccess),
         src # {}, "BOTTOM_OF_PIPE" \notin src, "TOP_OF_PIPE" \notin dst
  PROVE  LET b == After(a, First(src), srcAccess, Second(dst), dstAccess)
         IN Recorded(b) /\ Chained(b, dst, dstAccess) /\ b.access = a.access
              /\ a.seenBy \subseteq b.seenBy
<1> DEFINE b == After(a, First(src), srcAccess, Second(dst), dstAccess)
           available == a.available \/ (a.stage \in src /\ a.access \in srcAccess)
<1>1. First(src) = src /\ Second(dst) = dst
  BY DEF First, Second
<1>2. Meets(a, src)
  BY DEF Meets, Fresh, Chained
<1>3. CASE a.access \notin Writes
  <2>1. b = [a EXCEPT !.before = @ \cup dst]
    BY <1>1, <1>2, <1>3 DEF After
  <2>2. b = [stage |-> a.stage, access |-> a.access, before |-> a.before \cup dst,
             available |-> a.available, seenBy |-> a.seenBy]
    BY <2>1 DEF Recorded
  <2> HIDE DEF b
  <2>3. QED
    BY <1>3, <2>2 DEF Recorded, Chained, b
<1>4. CASE a.access \in Writes
  <2>1. available
    BY <1>4 DEF Fresh, Chained
  <2>2. b = [a EXCEPT !.before = @ \cup dst, !.available = available,
                      !.seenBy = @ \cup (dst \X dstAccess)]
    BY <1>1, <1>2, <1>4, <2>1 DEF After
  <2>3. b = [stage |-> a.stage, access |-> a.access, before |-> a.before \cup dst,
             available |-> TRUE, seenBy |-> a.seenBy \cup (dst \X dstAccess)]
    BY <2>1, <2>2 DEF Recorded
  <2> HIDE DEF b
  <2>4. QED
    BY <2>3 DEF Recorded, Chained, b
<1>5. QED
  BY <1>3, <1>4

(* A transition orders all of the past before what comes next.             *)
LEMMA RelayoutChains ==
  ASSUME NEW dst, NEW dstAccess, "TOP_OF_PIPE" \notin dst,
         NEW a \in Relayout(dst, dstAccess)
  PROVE  Recorded(a) /\ Chained(a, dst, dstAccess)
<1>1. a = [stage |-> "TRANSITION", access |-> "TRANSFER_WRITE", before |-> dst,
           available |-> TRUE, seenBy |-> dst \X dstAccess]
  BY DEF Relayout, Second
<1>2. QED
  BY <1>1 DEF Recorded, Chained

(* One usage of a texture has the layout that its commands expect.         *)
LEMMA LayoutOfOne ==
  ASSUME NEW u \in AllTextureUsages
  PROVE  VulkanImageLayout({u}) = Expected(u) /\ VulkanImageLayout({u}) # "UNDEFINED"
<1>1. Cardinality({u}) = 1
  BY FS_Singleton
<1>2. QED
  BY <1>1 DEF VulkanImageLayout, Expected, AllTextureUsages, TextureUsages

-----------------------------------------------------------------------------
(* What Vulkan was told: nothing of the past is forgotten by the barriers, *)
(* and the layout is the one of the last usage, or the image of a swap     *)
(* chain comes with another one, whose contents may be lost.               *)
VkRight(vk, usage) ==
  /\ vk = [past |-> vk.past, layout |-> vk.layout, faults |-> {}]
  /\ \A a \in vk.past : Recorded(a) /\ Waits(a, usage)
  /\ kind = "buffer" /\ usage = {} => vk.past = {}
  /\ kind # "buffer" => \/ vk.layout = VulkanImageLayout(usage)
                        \/ usage = {} /\ swap # "none"

(* What the next command needs: a barrier was recorded since the last, or  *)
(* the command reads as those before it did.                               *)
AllChained(vk, usage) ==
  \A a \in vk.past : Chained(a, VulkanPipelineStage(usage), VulkanAccessFlags(usage))
CopiesItself(vk, usage, needed) ==
  /\ kind = "buffer" /\ needed = {"TransferSrc", "TransferDst"} /\ usage = {"TransferDst"}
  /\ \A a \in vk.past : a.access \in Writes => <<"TRANSFER", "TRANSFER_READ">> \in a.seenBy
UsingIs(vk, usage, needed) ==
  /\ needed \subseteq usage \/ CopiesItself(vk, usage, needed)
  /\ ReadOnly(usage) \/ AllChained(vk, usage)
VkInv ==
  backend = "vulkan" =>
    /\ VkRight(native, lastUsage)
    /\ using # {} => UsingIs(native, lastUsage, using)
    /\ lastUsage = {"Present"} => using = {"Present"} \/ swap = "presented"

(* What was written before usages that only read is chained.               *)
LEMMA WritesAreChained ==
  ASSUME UsageInv, VkRight(native, lastUsage), lastUsage # {},
         ReadOnly(lastUsage) \/ AllChained(native, lastUsage),
         NEW a \in native.past, a.access \in Writes
  PROVE  Chained(a, VulkanPipelineStage(lastUsage), VulkanAccessFlags(lastUsage))
<1>1. CASE AllChained(native, lastUsage)
  BY <1>1 DEF AllChained
<1>2. CASE ReadOnly(lastUsage)
  <2>1. VulkanAccessFlags(lastUsage) \cap Writes = {}
    BY <1>2, ReadOnlyWritesNothing DEF UsageInv
  <2>2. QED
    BY <2>1 DEF VkRight, Waits, Fresh
<1>3. QED
  BY <1>1, <1>2

(* Commands and the presentation find what they need.                      *)
LEMMA VkAllows == UsageInv /\ VkInv => GpuRunsInOrder /\ LayoutIsExpected
<1> SUFFICES ASSUME UsageInv, VkInv, backend = "vulkan"
             PROVE  GpuRunsInOrder /\ LayoutIsExpected
  BY DEF GpuRunsInOrder, LayoutIsExpected
<1>1. VkRight(native, lastUsage)
  BY DEF VkInv
<1>2. ASSUME NEW u \in using, NEW t \in Touches(u), NEW a \in native.past
      PROVE  Ordered(t, a)
  <2>1. UsingIs(native, lastUsage, using)
    BY <1>2 DEF VkInv
  <2>2. lastUsage # {} /\ Proper(lastUsage)
    BY <1>2, <2>1 DEF UsingIs, CopiesItself, UsageInv
  <2>3. a.access \in Writes =>
          Chained(a, VulkanPipelineStage(lastUsage), VulkanAccessFlags(lastUsage))
    BY <1>1, <1>2, <2>1, <2>2, WritesAreChained DEF UsingIs
  <2>4. CASE u \in lastUsage
    <3>1. /\ t[1] \in VulkanPipelineStage(lastUsage) /\ t[2] \in VulkanAccessFlags(lastUsage)
          /\ t = <<t[1], t[2]>>
      BY <1>2, <2>2, <2>4, TouchesAre
    <3>2. CASE a.access \in Writes
      <4>1. t \in VulkanPipelineStage(lastUsage) \X VulkanAccessFlags(lastUsage)
        BY <3>1
      <4>2. QED
        BY <2>3, <3>1, <3>2, <4>1 DEF Ordered, Chained
    <3>3. CASE a.access \notin Writes /\ t[2] \in Writes
      <4>1. ~ReadOnly(lastUsage)
        BY <2>2, <3>1, <3>3, ReadOnlyWritesNothing
      <4>2. QED
        BY <1>2, <2>1, <3>1, <3>3, <4>1 DEF UsingIs, AllChained, Chained, Ordered
    <3>4. QED
      BY <3>2, <3>3 DEF Ordered
  <2>5. CASE u \notin lastUsage
    <3>1. CopiesItself(native, lastUsage, using) /\ u = "TransferSrc"
      BY <1>2, <2>1, <2>5 DEF UsingIs, CopiesItself
    <3>2. t = <<"TRANSFER", "TRANSFER_READ">>
      BY <1>2, <3>1 DEF Touches
    <3>3. VulkanPipelineStage(lastUsage) = {"TRANSFER"}
      BY <3>1 DEF CopiesItself, VulkanPipelineStage, BufferStage
    <3>4. t[2] \notin Writes /\ t[1] = "TRANSFER"
      BY <3>2 DEF Writes
    <3>5. QED
      BY <1>2, <2>3, <3>1, <3>2, <3>3, <3>4 DEF Ordered, Chained, CopiesItself
  <2>6. QED
    BY <2>4, <2>5
<1>3. GpuRunsInOrder
  BY <1>1, <1>2 DEF GpuRunsInOrder, Needs, VkRight
<1>4. ASSUME kind # "buffer", NEW u \in using PROVE native.layout = Expected(u)
  <2>1. u \in lastUsage
    BY <1>4 DEF VkInv, UsingIs, CopiesItself
  <2>2. lastUsage = {u} /\ u \in AllTextureUsages
    BY <1>4, <2>1 DEF UsageInv, Proper
  <2>3. QED
    BY <1>1, <1>4, <2>2, LayoutOfOne DEF VkRight
<1>5. QED
  BY <1>3, <1>4 DEF LayoutIsExpected

(* What stays the same where the kind of the resource does.                *)
LEMMA VkSame ==
  ASSUME UNCHANGED <<kind, swap>>
  PROVE  /\ VkRight(native, lastUsage)' <=> VkRight(native', lastUsage')
         /\ UsingIs(native, lastUsage, using)' <=> UsingIs(native', lastUsage', using')
<1>1. /\ VulkanPipelineStage(lastUsage)' = VulkanPipelineStage(lastUsage')
      /\ VulkanAccessFlags(lastUsage)' = VulkanAccessFlags(lastUsage')
      /\ VulkanImageLayout(lastUsage)' = VulkanImageLayout(lastUsage')
      /\ ReadOnly(lastUsage)' <=> ReadOnly(lastUsage')
  BY DEF VulkanPipelineStage, VulkanAccessFlags, VulkanImageLayout, TextureStage, TextureAccess,
         ReadOnly
<1>2. VkRight(native, lastUsage)' <=> VkRight(native', lastUsage')
  BY <1>1 DEF VkRight, Recorded, Waits, Fresh, Chained
<1>3. UsingIs(native, lastUsage, using)' <=> UsingIs(native', lastUsage', using')
  BY <1>1 DEF UsingIs, CopiesItself, AllChained, Chained
<1>4. QED
  BY <1>2, <1>3

(* The barrier for a buffer chains its past to the next usage.             *)
LEMMA BufferBarrier ==
  ASSUME UsageInv, kind = "buffer", NEW usage, Proper(usage), VkRight(native, lastUsage)
  PROVE  /\ VkRight(AfterBarrier(usage), usage)
         /\ AllChained(AfterBarrier(usage), usage)
         /\ \A b \in AfterBarrier(usage).past : \E a \in native.past :
              a.access = b.access /\ a.seenBy \subseteq b.seenBy
<1> DEFINE src == VulkanPipelineStage(lastUsage)
           srcAccess == VulkanAccessFlags(lastUsage)
           dst == VulkanPipelineStage(usage)
           dstAccess == VulkanAccessFlags(usage)
<1>1. usage # {} /\ "TOP_OF_PIPE" \notin dst
  BY StagesAre DEF Proper
<1>2. CASE lastUsage = {}
  <2>1. AfterBarrier(usage) = native /\ native.past = {}
    BY <1>2 DEF AfterBarrier, VkRight
  <2>2. QED
    BY <1>1, <2>1 DEF VkRight, AllChained
<1>3. CASE lastUsage # {}
  <2>1. Proper(lastUsage) /\ lastUsage # {"Present"}
    BY <1>3 DEF UsageInv, Proper, BufferUsages
  <2>2. src # {} /\ "BOTTOM_OF_PIPE" \notin src
    BY <2>1, StagesAre
  <2> DEFINE past == {After(a, First(src), srcAccess, Second(dst), dstAccess) : a \in native.past}
  <2>3. AfterBarrier(usage) = [past |-> past, layout |-> native.layout, faults |-> {}]
    BY <1>3 DEF AfterBarrier, Barrier, VkRight
  <2>4. \A a \in native.past :
          LET b == After(a, First(src), srcAccess, Second(dst), dstAccess)
          IN Recorded(b) /\ Chained(b, dst, dstAccess) /\ b.access = a.access
               /\ a.seenBy \subseteq b.seenBy
    <3> HIDE DEF src, srcAccess, dst, dstAccess
    <3>1. \A a \in native.past : Recorded(a)
            /\ (Fresh(a, src, srcAccess) \/ Chained(a, src, srcAccess))
      BY DEF VkRight, Waits, src, srcAccess
    <3>2. QED
      BY <1>1, <2>2, <3>1, AfterChains
  <2>5. \A b \in past : /\ Recorded(b) /\ Chained(b, dst, dstAccess)
                        /\ \E a \in native.past : a.access = b.access /\ a.seenBy \subseteq b.seenBy
    <3> HIDE DEF src, srcAccess, dst, dstAccess
    <3>1. QED
      BY <2>4
  <2> HIDE DEF past
  <2>6. QED
    BY <1>1, <2>3, <2>5 DEF VkRight, AllChained, Waits
<1>4. QED
  BY <1>2, <1>3

(* The barrier for a texture waits for all of its past.                    *)
LEMMA TextureBarrier ==
  ASSUME UsageInv, kind # "buffer", NEW usage, Proper(usage), VkRight(native, lastUsage),
         lastUsage # {"Present"}
  PROVE  VkRight(AfterBarrier(usage), usage) /\ AllChained(AfterBarrier(usage), usage)
<1> DEFINE src == VulkanPipelineStage(lastUsage)
           srcAccess == VulkanAccessFlags(lastUsage)
           dst == VulkanPipelineStage(usage)
           dstAccess == VulkanAccessFlags(usage)
           old == VulkanImageLayout(lastUsage)
           new == VulkanImageLayout(usage)
<1>1. usage # {} /\ "TOP_OF_PIPE" \notin dst
  BY StagesAre DEF Proper
<1>2. src # {} /\ "BOTTOM_OF_PIPE" \notin src
  <2>1. CASE lastUsage = {}
    BY <2>1 DEF VulkanPipelineStage
  <2>2. CASE lastUsage # {}
    BY <2>2, StagesAre DEF UsageInv
  <2>3. QED
    BY <2>1, <2>2
<1>3. Unordered(src, srcAccess) = {}
  <2>1. \A a \in native.past : Fresh(a, src, srcAccess) \/ Chained(a, src, srcAccess)
    BY DEF VkRight, Waits
  <2> HIDE DEF src, srcAccess
  <2>2. First(src) = src
    BY <1>2 DEF First
  <2>3. QED
    BY <1>2, <2>1, <2>2 DEF Unordered, Meets, Fresh, Chained
<1>4. RelayoutFaults(src, srcAccess, old) = {}
  <2>1. lastUsage = {} <=> old = "UNDEFINED"
    <3>1. CASE lastUsage = {}
      BY <3>1, FS_EmptySet DEF VulkanImageLayout
    <3>2. CASE lastUsage # {}
      <4>1. PICK u \in AllTextureUsages : lastUsage = {u}
        BY <3>2 DEF UsageInv, Proper
      <4>2. QED
        BY <4>1, LayoutOfOne
    <3>3. QED
      BY <3>1, <3>2
  <2>2. native.layout = old \/ (old = "UNDEFINED" /\ swap # "none")
    BY <2>1 DEF VkRight
  <2> HIDE DEF old, src, srcAccess
  <2>3. QED
    BY <1>3, <2>2 DEF RelayoutFaults
<1>5. AfterBarrier(usage) = [past |-> Relayout(dst, dstAccess), layout |-> new, faults |-> {}]
  <2>1. AfterBarrier(usage) = ImageBarrier(src, srcAccess, dst, dstAccess, old, new)
    BY DEF AfterBarrier
  <2>2. native.faults = {}
    BY DEF VkRight
  <2> HIDE DEF src, srcAccess, dst, dstAccess, old, new
  <2>3. QED
    BY <1>4, <2>1, <2>2 DEF ImageBarrier
<1>6. \A a \in Relayout(dst, dstAccess) : Recorded(a) /\ Chained(a, dst, dstAccess)
  BY <1>1, RelayoutChains
<1>7. QED
  BY <1>1, <1>5, <1>6 DEF VkRight, AllChained, Waits

(* A transition leaves the resource ready for the commands that follow.    *)
LEMMA VkMoves ==
  ASSUME UsageInv, VkRight(native, lastUsage), lastUsage # {"Present"},
         NEW usage, Proper(usage), Keeps(TransitionUsageNow(usage)), swap' = swap
  PROVE  /\ VkRight(native, lastUsage)'
         /\ usage \subseteq lastUsage' /\ (kind # "buffer" => lastUsage' = usage)
         /\ ReadOnly(lastUsage') \/ AllChained(native', lastUsage')
         /\ \/ UNCHANGED <<lastUsage, native>>
            \/ lastUsage' = usage /\ native' = AfterBarrier(usage)
<1>1. VkRight(native, lastUsage)' <=> VkRight(native', lastUsage')
  BY VkSame DEF Keeps
<1>2. CASE SkipsBarrier(usage)
  <2>1. UNCHANGED <<lastUsage, native>>
    BY <1>2 DEF Keeps, TransitionUsageNow
  <2>2. QED
    BY <1>1, <1>2, <2>1 DEF SkipsBarrier, ReadOnly
<1>3. CASE ~SkipsBarrier(usage)
  <2>1. lastUsage' = usage /\ native' = AfterBarrier(usage)
    BY <1>3 DEF Keeps, TransitionUsageNow
  <2>2. VkRight(AfterBarrier(usage), usage) /\ AllChained(AfterBarrier(usage), usage)
    BY BufferBarrier, TextureBarrier
  <2>3. QED
    BY <1>1, <2>1, <2>2
<1>4. QED
  BY <1>2, <1>3

(* Commands leave their accesses to be waited for.                         *)
LEMMA VkUses ==
  ASSUME UsageInv, VkInv, backend = "vulkan", VkUse
  PROVE  VkRight(native, lastUsage)'
<1> DEFINE past == (IF Overwrites THEN {} ELSE native.past) \cup Accesses
<1>1. VkRight(native, lastUsage) /\ UsingIs(native, lastUsage, using) /\ using # {}
  BY DEF VkInv, VkUse
<1>2. lastUsage # {} /\ Proper(lastUsage)
  BY <1>1 DEF UsingIs, CopiesItself, UsageInv
<1>3. ASSUME NEW u \in using, NEW t \in Touches(u)
      PROVE  /\ t[1] \in VulkanPipelineStage(lastUsage)
             /\ t[2] \in Writes => t[2] \in VulkanAccessFlags(lastUsage)
  <2>1. CASE u \in lastUsage
    BY <1>2, <1>3, <2>1, TouchesAre
  <2>2. CASE u \notin lastUsage
    <3>1. CopiesItself(native, lastUsage, using) /\ u = "TransferSrc"
      BY <1>1, <1>3, <2>2 DEF UsingIs, CopiesItself
    <3>2. t = <<"TRANSFER", "TRANSFER_READ">>
      BY <1>3, <3>1 DEF Touches
    <3>3. VulkanPipelineStage(lastUsage) = {"TRANSFER"}
      BY <3>1 DEF CopiesItself, VulkanPipelineStage, BufferStage
    <3>4. QED
      BY <3>2, <3>3 DEF Writes
  <2>3. QED
    BY <2>1, <2>2
<1>4. ASSUME NEW a \in Accesses PROVE Recorded(a) /\ Waits(a, lastUsage)
  <2>1. PICK t \in Needs : a = [stage |-> t[1], access |-> t[2], before |-> {},
                                available |-> FALSE, seenBy |-> {}]
    BY <1>4 DEF Accesses
  <2>2. t[1] \in VulkanPipelineStage(lastUsage)
          /\ (t[2] \in Writes => t[2] \in VulkanAccessFlags(lastUsage))
    BY <1>3 DEF Needs
  <2>3. QED
    BY <2>1, <2>2 DEF Recorded, Waits, Fresh
<1>5. native' = [past |-> past, layout |-> native.layout, faults |-> {}]
  BY <1>1 DEF VkUse, VkRight
<1>6. \A a \in past : Recorded(a) /\ Waits(a, lastUsage)
  BY <1>1, <1>4 DEF VkRight
<1>7. lastUsage' = lastUsage /\ UNCHANGED <<kind, swap>>
  BY DEF VkUse, Keeps
<1> HIDE DEF past
<1>8. VkRight(native', lastUsage')
  BY <1>1, <1>2, <1>5, <1>6, <1>7 DEF VkRight
<1>9. QED
  BY <1>7, <1>8, VkSame

(* The images of a swap chain: each step of theirs orders what is before   *)
(* it, and forgets nothing that the next may have to wait for.             *)
LEMMA VkSwaps ==
  ASSUME UsageInv, VkInv, backend = "vulkan", VkConfigure \/ VkGetNextTexture
  PROVE  VkRight(native, lastUsage)' /\ using' = {} /\ lastUsage' = {}
<1> DEFINE BeforeAll(a) == Fresh(a, {"TOP_OF_PIPE"}, {}) \/ Chained(a, {"TOP_OF_PIPE"}, {})
<1>1. VkRight(native, lastUsage) /\ kind # "buffer" /\ using = {} /\ swap # "none"
  BY DEF VkInv, UsageInv, VkConfigure, VkGetNextTexture
<1>2. kind' = kind /\ using' = using /\ lastUsage' = {} /\ swap' # "none"
  BY DEF VkConfigure, VkGetNextTexture, Keeps, UsageInv
<1>3. /\ VulkanPipelineStage(lastUsage)' = {"TOP_OF_PIPE"} /\ VulkanAccessFlags(lastUsage)' = {}
  BY <1>1, <1>2 DEF VulkanPipelineStage, VulkanAccessFlags
<1>4. /\ native' = [past |-> native.past', layout |-> native.layout', faults |-> {}]
      /\ \A a \in native.past' : Recorded(a) /\ BeforeAll(a)
  <2>1. CASE VkConfigure
    <3>1. lastUsage = {} /\ swap # "none"
      BY <2>1 DEF VkConfigure, UsageInv
    <3>2. VulkanPipelineStage(lastUsage) = {"TOP_OF_PIPE"} /\ VulkanAccessFlags(lastUsage) = {}
      BY <1>1, <3>1 DEF VulkanPipelineStage, VulkanAccessFlags
    <3>3. \A a \in native.past : Meets(a, {"TOP_OF_PIPE"}) /\ (a.access \in Writes => a.available)
      BY <1>1, <3>2 DEF VkRight, Waits, Fresh, Chained, Meets
    <3>4. First({"TOP_OF_PIPE"}) = {"TOP_OF_PIPE"}
      BY DEF First
    <3>5. Unordered({"TOP_OF_PIPE"}, {}) = {}
      BY <3>3, <3>4 DEF Unordered
    <3>6. RelayoutFaults({"TOP_OF_PIPE"}, {}, "UNDEFINED") = {}
      BY <3>1, <3>5 DEF RelayoutFaults
    <3>7. native' = [past |-> Relayout({"TOP_OF_PIPE"}, {}), layout |-> "PRESENT_SRC",
                     faults |-> {}]
      BY <1>1, <2>1, <3>6 DEF VkConfigure, ImageBarrier, VkRight
    <3>8. ASSUME NEW a \in Relayout({"TOP_OF_PIPE"}, {})
          PROVE  Recorded(a) /\ BeforeAll(a)
      <4>1. a = [stage |-> "TRANSITION", access |-> "TRANSFER_WRITE", before |-> Everywhere,
                 available |-> TRUE, seenBy |-> Everywhere \X {}]
        BY <3>8 DEF Relayout, Second
      <4>2. QED
        BY <4>1 DEF Recorded, Chained, Everywhere
    <3>9. QED
      BY <3>7, <3>8
  <2>2. CASE VkGetNextTexture
    <3> DEFINE presented == [stage |-> "PRESENT", access |-> "PRESENT_READ", before |-> Everywhere,
                             available |-> TRUE, seenBy |-> {}]
           kept == {a \in native.past : swap = "configured"} \cup {presented}
    <3>1. native' = [past |-> kept, layout |-> native.layout, faults |-> {}]
      <4>1. native' = [native EXCEPT !.past = kept]
        BY <2>2 DEF VkGetNextTexture, Keeps
      <4> HIDE DEF kept
      <4>2. QED
        BY <1>1, <4>1 DEF VkRight
    <3>2. Recorded(presented) /\ BeforeAll(presented)
      BY DEF Recorded, Chained, Everywhere, Writes
    <3>3. ASSUME NEW a \in native.past, swap = "configured"
          PROVE  Recorded(a) /\ BeforeAll(a)
      <4>1. lastUsage = {}
        BY <3>3 DEF UsageInv
      <4>2. VulkanPipelineStage(lastUsage) = {"TOP_OF_PIPE"} /\ VulkanAccessFlags(lastUsage) = {}
        BY <1>1, <4>1 DEF VulkanPipelineStage, VulkanAccessFlags
      <4>3. QED
        BY <1>1, <3>3, <4>2 DEF VkRight, Waits, Fresh, Chained
    <3> HIDE DEF presented
    <3>4. QED
      BY <3>1, <3>2, <3>3
  <2>3. QED
    BY <2>1, <2>2
<1>5. QED
  BY <1>1, <1>2, <1>3, <1>4 DEF VkRight, Waits, Recorded, Chained

(* Presenting changes nothing of what Vulkan was told.                     *)
LEMMA VkPresents ==
  ASSUME UsageInv, VkInv, backend = "vulkan", VkPresent
  PROVE  VkRight(native, lastUsage)'
<1>1. VkRight(native, lastUsage) /\ UsingIs(native, lastUsage, using) /\ kind # "buffer"
  BY DEF VkInv, VkPresent, UsageInv
<1>2. lastUsage # {} /\ native.layout = VulkanImageLayout(lastUsage)
  BY <1>1 DEF VkPresent, UsingIs, CopiesItself, VkRight
<1>3. UNCHANGED <<kind, lastUsage, native>>
  BY DEF VkPresent, Keeps
<1>4. /\ VulkanPipelineStage(lastUsage)' = VulkanPipelineStage(lastUsage)
      /\ VulkanAccessFlags(lastUsage)' = VulkanAccessFlags(lastUsage)
      /\ VulkanImageLayout(lastUsage)' = VulkanImageLayout(lastUsage)
  BY <1>3 DEF VulkanPipelineStage, VulkanAccessFlags, VulkanImageLayout, TextureStage,
              TextureAccess
<1>5. QED
  BY <1>1, <1>2, <1>3, <1>4 DEF VkRight, Recorded, Waits, Fresh, Chained

(* The second transition of a copy from a buffer to itself: what was       *)
(* written before is still visible to the reading.                         *)
LEMMA VkCopiesItself ==
  ASSUME UsageInv, VkInv, backend = "vulkan", TransitionDestination
  PROVE  VkRight(native, lastUsage)' /\ UsingIs(native', lastUsage', using')
           /\ lastUsage' = {"TransferDst"}
<1>1. /\ VkRight(native, lastUsage) /\ UsingIs(native, lastUsage, using)
      /\ kind = "buffer" /\ using = {"TransferSrc"} /\ "TransferSrc" \in lastUsage
      /\ Keeps(TransitionUsageNow({"TransferDst"}))
      /\ using' = {"TransferSrc", "TransferDst"} /\ UNCHANGED <<kind, swap>>
  BY DEF VkInv, TransitionDestination, UsingIs, CopiesItself, Keeps
<1>2. Proper({"TransferDst"}) /\ Proper(lastUsage) /\ lastUsage # {"Present"}
  BY <1>1 DEF Proper, BufferUsages, UsageInv
<1>3. /\ VkRight(native, lastUsage)' /\ {"TransferDst"} \subseteq lastUsage'
      /\ ReadOnly(lastUsage') \/ AllChained(native', lastUsage')
      /\ \/ UNCHANGED <<lastUsage, native>>
         \/ lastUsage' = {"TransferDst"} /\ native' = AfterBarrier({"TransferDst"})
  BY <1>1, <1>2, VkMoves
<1>4. ~SkipsBarrier({"TransferDst"})
  BY <1>1 DEF SkipsBarrier, kReadOnlyBufferUsages
<1>5. lastUsage' = {"TransferDst"} /\ native' = AfterBarrier({"TransferDst"})
  BY <1>1, <1>4 DEF Keeps, TransitionUsageNow
<1>6. ASSUME NEW a \in native.past, a.access \in Writes
      PROVE  <<"TRANSFER", "TRANSFER_READ">> \in a.seenBy
  <2>1. Chained(a, VulkanPipelineStage(lastUsage), VulkanAccessFlags(lastUsage))
    BY <1>1, <1>6, WritesAreChained DEF UsingIs
  <2>2. "TRANSFER" \in VulkanPipelineStage(lastUsage)
          /\ "TRANSFER_READ" \in VulkanAccessFlags(lastUsage)
    BY <1>1 DEF VulkanPipelineStage, VulkanAccessFlags, BufferStage, BufferAccess
  <2>3. QED
    BY <1>6, <2>1, <2>2 DEF Chained
<1>7. ASSUME NEW b \in AfterBarrier({"TransferDst"}).past, b.access \in Writes
      PROVE  <<"TRANSFER", "TRANSFER_READ">> \in b.seenBy
  <2>1. PICK a \in native.past : a.access = b.access /\ a.seenBy \subseteq b.seenBy
    BY <1>1, <1>2, <1>7, BufferBarrier
  <2>2. QED
    BY <1>6, <1>7, <2>1
<1>8. CopiesItself(native', lastUsage', using')
  BY <1>1, <1>5, <1>7 DEF CopiesItself
<1>9. QED
  BY <1>3, <1>5, <1>8 DEF UsingIs

(* Every step of Vulkan keeps its invariant.                               *)
LEMMA VkStep == UsageInv /\ VkInv /\ [BarriersNext]_barrierVars => VkInv'
<1> SUFFICES ASSUME UsageInv, VkInv, [BarriersNext]_barrierVars, backend' = "vulkan" PROVE VkInv'
  BY DEF VkInv
<1>1. CASE UNCHANGED barrierVars
  <2>1. UNCHANGED <<kind, swap, backend, lastUsage, native, using>>
    BY <1>1 DEF barrierVars, usageVars
  <2>2. /\ VkRight(native, lastUsage)' <=> VkRight(native, lastUsage)
        /\ UsingIs(native, lastUsage, using)' <=> UsingIs(native, lastUsage, using)
    BY <2>1, VkSame
  <2>3. QED
    BY <2>1, <2>2 DEF VkInv
<1>2. CASE backend = "d3d12" /\ D3Next
  BY <1>2 DEF D3Next, D3TransitionForPass, D3TransitionForCopy, D3Transition, D3MapAsync,
              D3TransitionDestination, D3Use, D3Configure, D3GetNextTexture, D3OnBeforePresent,
              D3Present, Keeps
<1>3. CASE backend = "vulkan" /\ VkNext
  <2>1. ASSUME NEW usage, Proper(usage), VkTransition(usage) PROVE VkInv'
    <3>1. lastUsage # {"Present"} /\ VkRight(native, lastUsage)
      BY <1>3, <2>1 DEF VkTransition, Usable, VkInv
    <3>2. /\ Keeps(TransitionUsageNow(usage)) /\ UNCHANGED <<kind, swap>> /\ using' = usage
      BY <2>1 DEF VkTransition, Keeps
    <3>3. /\ VkRight(native, lastUsage)' /\ usage \subseteq lastUsage'
          /\ ReadOnly(lastUsage') \/ AllChained(native', lastUsage')
      BY <2>1, <3>1, <3>2, VkMoves
    <3>4. UsingIs(native, lastUsage, using)'
      BY <3>2, <3>3, VkSame DEF UsingIs
    <3>5. usage # {}
      BY <2>1 DEF Proper
    <3>6. QED
      BY <3>2, <3>3, <3>4, <3>5 DEF VkInv
  <2>2. CASE TransitionForPass \/ TransitionForCopy \/ MapAsync
    <3>1. PICK usage \in PassUsages \cup CopyUsages \cup MapUsages : VkTransition(usage)
      BY <2>2 DEF TransitionForPass, TransitionForCopy, MapAsync
    <3>2. QED
      BY <2>1, <3>1, AskedIsProper
  <2>3. CASE OnBeforePresent
    <3>1. Proper({"Present"})
      BY <2>3 DEF OnBeforePresent, UsageInv, Proper, AllTextureUsages
    <3>2. QED
      BY <2>1, <2>3, <3>1 DEF OnBeforePresent
  <2>4. CASE TransitionDestination
    <3>1. VkRight(native, lastUsage)' /\ UsingIs(native', lastUsage', using')
            /\ lastUsage' = {"TransferDst"} /\ UNCHANGED <<kind, swap>>
      BY <1>3, <2>4, VkCopiesItself DEF TransitionDestination, Keeps
    <3>2. UsingIs(native, lastUsage, using)'
      BY <3>1, VkSame
    <3>3. QED
      BY <3>1, <3>2 DEF VkInv
  <2>5. CASE VkUse
    <3>1. VkRight(native, lastUsage)'
      BY <1>3, <2>5, VkUses
    <3>2. using' = {} /\ lastUsage' # {"Present"}
      BY <1>3, <2>5 DEF VkUse, Keeps, VkInv, UsageInv
    <3>3. QED
      BY <3>1, <3>2 DEF VkInv
  <2>6. CASE VkConfigure \/ VkGetNextTexture
    <3>1. VkRight(native, lastUsage)' /\ using' = {} /\ lastUsage' = {}
      BY <1>3, <2>6, VkSwaps
    <3>2. QED
      BY <3>1 DEF VkInv
  <2>7. CASE VkPresent
    <3>1. VkRight(native, lastUsage)' /\ using' = {} /\ swap' = "presented"
      BY <1>3, <2>7, VkPresents DEF VkPresent
    <3>2. QED
      BY <3>1 DEF VkInv
  <2>8. QED
    BY <1>3, <2>2, <2>3, <2>4, <2>5, <2>6, <2>7 DEF VkNext
<1>4. QED
  BY <1>1, <1>2, <1>3 DEF BarriersNext

-----------------------------------------------------------------------------
(* The invariant of a resource and of the cache of render passes.          *)
BarriersInv == UsageInv /\ D3Inv /\ VkInv /\ PassInv

(* A new resource has been used for nothing yet.                           *)
LEMMA BarriersStart == BarriersInit => BarriersInv
<1> SUFFICES ASSUME BarriersInit PROVE BarriersInv
  OBVIOUS
<1>1. allowed \in ValidUsages /\ kind \in {"buffer", "color", "depth", "swapchain"} /\ using = {}
  BY KindsAssumption DEF BarriersInit, Creatable
<1>2. /\ kind = "buffer" => allowed \subseteq BufferUsages /\ ValidateBufferDescriptor(allowed)
      /\ kind # "buffer" => allowed \subseteq AllTextureUsages
  BY <1>1 DEF ValidUsages, AllTextureUsages, TextureUsages
<1>3. lastUsage = {} \/ Proper(lastUsage)
  BY DEF BarriersInit, InitialUsage, Proper, BufferUsages
<1>4. UsageInv
  <2>1. swap \in {"none", "created"} /\ (swap # "none" => kind = "swapchain")
    BY DEF BarriersInit
  <2>2. kind # "buffer" => lastUsage = {}
    BY DEF BarriersInit, InitialUsage
  <2>3. QED
    BY <1>1, <1>2, <1>3, <2>1, <2>2 DEF UsageInv
<1>5. D3Inv
  <2> SUFFICES ASSUME backend = "d3d12" PROVE D3Inv
    BY DEF D3Inv
  <2>1. lastUsage = InitialUsage /\ native = [state |-> InitialState, faults |-> {}]
    BY DEF BarriersInit, D3Start
  <2>2. ~mFixedResourceState => InitialState = {} /\ StateOf(lastUsage) = {}
    BY <2>1 DEF mFixedResourceState, InitialUsage, InitialState, StateOf, D3D12BufferUsage,
                D3D12TextureUsage
  <2>3. swap # "presented"
    BY DEF BarriersInit
  <2>4. QED
    BY <1>1, <2>1, <2>2, <2>3 DEF D3Inv, D3Right
<1>6. VkInv
  <2> SUFFICES ASSUME backend = "vulkan" PROVE VkInv
    BY DEF VkInv
  <2>1. lastUsage = {} /\ native = [past |-> {}, layout |-> "UNDEFINED", faults |-> {}]
    BY DEF BarriersInit, VkStart
  <2>2. VulkanImageLayout({}) = "UNDEFINED"
    BY FS_EmptySet DEF VulkanImageLayout
  <2>3. VkRight(native, lastUsage)
    BY <2>1, <2>2 DEF VkRight
  <2>4. QED
    BY <1>1, <2>1, <2>3 DEF VkInv
<1>7. PassInv
  BY DEF BarriersInit, PassesInit, PassInv
<1>8. QED
  BY <1>4, <1>5, <1>6, <1>7 DEF BarriersInv

(* Every step of the resource keeps the invariant.                         *)
LEMMA BarriersKeep ==
  ASSUME NoHoles
  PROVE  BarriersInv /\ [BarriersNext]_barrierVars => BarriersInv'
<1> SUFFICES ASSUME BarriersInv, [BarriersNext]_barrierVars PROVE BarriersInv'
  OBVIOUS
<1>1. UsageInv' /\ D3Inv' /\ VkInv'
  BY UsageStep, D3Step, VkStep DEF BarriersInv
<1>2. (\E d \in Descriptors : RecordBeginRenderPass(d)) \/ UNCHANGED passVars
  BY DEF BarriersNext, barrierVars
<1>3. PassInv'
  BY <1>2, PassStep DEF BarriersInv
<1>4. QED
  BY <1>1, <1>3 DEF BarriersInv

(* For every set of render pass descriptors whose color attachments leave  *)
(* no slot out, and for every kind of resource: on Vulkan the barriers that *)
(* TransitionUsageNow records order all conflicting accesses, make what was *)
(* written visible and give a texture the layout its commands name; on     *)
(* D3D12 the states are right; and a render pass from the cache fits the   *)
(* descriptor it is begun for.                                             *)
THEOREM BarriersSufficeAlways == NoHoles => (BarriersSpec => []BarriersSuffice)
<1> SUFFICES ASSUME NoHoles PROVE BarriersSpec => []BarriersSuffice
  OBVIOUS
<1>1. BarriersInit => BarriersInv
  BY BarriersStart
<1>2. BarriersInv /\ [BarriersNext]_barrierVars => BarriersInv'
  BY BarriersKeep
<1>3. BarriersInv => BarriersSuffice
  BY VkAllows, D3Allows, PassFits DEF BarriersInv, BarriersSuffice
<1>4. QED
  BY <1>1, <1>2, <1>3, PTL DEF BarriersSpec
-----------------------------------------------------------------------------
(* The Metal device                                                        *)

CONSTANTS MetalBuffers, ApiSerials
VARIABLES
  mFinishedCommandSerial, mPendingCommandSerial, mPendingCommands, committed,
  mInflightRequests, mInflightUploadBuffers, appRefs, finishedSerial, fired, pc, cont

M == INSTANCE MetalDevice WITH Buffers <- MetalBuffers

(* What has its types, ...                                                 *)
Entries == [item : MetalBuffers, serial : Nat]
Commands == [serial : Nat, uses : SUBSET MetalBuffers, completed : BOOLEAN]
MetalTypes ==
  /\ mFinishedCommandSerial \in Nat /\ mPendingCommandSerial \in Nat /\ finishedSerial \in Nat
  /\ mPendingCommands \in Seq(SUBSET MetalBuffers) /\ committed \in Seq(Commands)
  /\ mInflightRequests \subseteq Entries /\ fired \subseteq Entries
  /\ appRefs \subseteq MetalBuffers

(* ... and the invariant: what waits for its handler has serials between   *)
(* the finished and the pending one, in their order, ...                   *)
HandlersInOrder ==
  /\ mFinishedCommandSerial < mPendingCommandSerial
  /\ \A i \in 1 .. Len(committed) : /\ mFinishedCommandSerial < committed[i].serial
                                    /\ committed[i].serial < mPendingCommandSerial
  /\ \A i \in 1 .. Len(committed), j \in 1 .. Len(committed) :
       i < j => committed[i].serial < committed[j].serial

(* ... and whatever a handler does after TickMaps has read the serial, the *)
(* serial it has read stays a finished one.                                *)
FiredAreFinished ==
  /\ finishedSerial <= mFinishedCommandSerial
  /\ \A e \in fired : e.serial <= finishedSerial

MetalInv == MetalTypes /\ HandlersInOrder /\ FiredAreFinished

(* The invariant holds at the start.                                       *)
LEMMA MetalStart == M!Init => MetalInv
<1> SUFFICES ASSUME M!Init PROVE MetalInv
  OBVIOUS
<1>1. committed = <<>> /\ Len(committed) = 0 /\ mPendingCommands = <<>>
  BY DEF M!Init
<1>2. MetalTypes
  BY <1>1 DEF M!Init, MetalTypes
<1>3. HandlersInOrder /\ FiredAreFinished
  BY <1>1 DEF M!Init, HandlersInOrder, FiredAreFinished
<1>4. QED
  BY <1>2, <1>3 DEF MetalInv

(* A command buffer has a serial.                                          *)
LEMMA CommandSerials ==
  ASSUME NEW s \in Seq(Commands), NEW i \in 1 .. Len(s)
  PROVE  s[i] \in Commands /\ s[i].serial \in Nat
<1>1. s[i] \in Commands
  BY ElementOfSeq
<1>2. QED
  BY <1>1 DEF Commands

(* What is recorded is one set of buffers.                                 *)
LEMMA RecordedType ==
  ASSUME MetalTypes, NEW uses \in SUBSET MetalBuffers
  PROVE  M!Recorded(uses) \in Seq(SUBSET MetalBuffers)
<1>1. \A s \in M!ToSet(mPendingCommands) : s \subseteq MetalBuffers
  BY DEF MetalTypes, M!ToSet
<1>2. (UNION M!ToSet(mPendingCommands)) \cup uses \in SUBSET MetalBuffers
  BY <1>1
<1>3. \A s \in SUBSET MetalBuffers : <<s>> \in Seq(SUBSET MetalBuffers)
  OBVIOUS
<1>4. <<(UNION M!ToSet(mPendingCommands)) \cup uses>> \in Seq(SUBSET MetalBuffers)
  BY <1>2, <1>3, Zenon
<1>5. QED
  BY <1>4, Zenon DEF M!Recorded

(* A command buffer that is committed gets the largest serial.             *)
LEMMA CommitKeeps ==
  ASSUME MetalInv, NEW commands \in Seq(SUBSET MetalBuffers),
         M!SubmitPendingCommandBuffer(commands), mPendingCommands = commands \/ commands # <<>>,
         UNCHANGED mFinishedCommandSerial
  PROVE  /\ HandlersInOrder'
         /\ mPendingCommandSerial' \in Nat
         /\ mPendingCommands' \in Seq(SUBSET MetalBuffers) /\ committed' \in Seq(Commands)
<1>1. CASE commands = <<>>
  BY <1>1 DEF M!SubmitPendingCommandBuffer, M!commandVars, MetalInv, MetalTypes, HandlersInOrder
<1>2. CASE commands # <<>>
  <2> DEFINE new == [serial |-> mPendingCommandSerial, uses |-> commands[1], completed |-> FALSE]
  <2>1. /\ committed' = Append(committed, new) /\ mPendingCommands' = <<>>
        /\ mPendingCommandSerial' = mPendingCommandSerial + 1
    BY <1>2 DEF M!SubmitPendingCommandBuffer
  <2>2. new \in Commands /\ committed \in Seq(Commands) /\ mPendingCommandSerial \in Nat
    <3>1. Len(commands) \in Nat /\ Len(commands) # 0
      BY <1>2, EmptySeq, LenProperties
    <3>2. commands[1] \in SUBSET MetalBuffers
      BY <3>1, ElementOfSeq
    <3>3. QED
      BY <3>2 DEF Commands, MetalInv, MetalTypes
  <2>3. /\ committed' \in Seq(Commands) /\ Len(committed') = Len(committed) + 1
        /\ \A i \in 1 .. Len(committed) : committed'[i] = committed[i]
        /\ committed'[Len(committed) + 1] = new
    <3> HIDE DEF new
    <3> QED  BY <2>1, <2>2, AppendProperties
  <2>4. Len(committed) \in Nat /\ mFinishedCommandSerial \in Nat
    BY <2>2, LenProperties DEF MetalInv, MetalTypes
  <2>5. \A i \in 1 .. Len(committed) : committed[i].serial \in Nat
    BY <2>2, CommandSerials
  <2>6. \A i \in 1 .. Len(committed') :
          \/ i \in 1 .. Len(committed) /\ committed'[i].serial = committed[i].serial
          \/ i = Len(committed) + 1 /\ committed'[i].serial = mPendingCommandSerial
    BY <2>3, <2>4
  <2>7. HandlersInOrder
    BY DEF MetalInv
  <2>8. HandlersInOrder'
    <3> HIDE DEF new
    <3>1. mFinishedCommandSerial' < mPendingCommandSerial'
      BY <2>1, <2>2, <2>4, <2>7 DEF HandlersInOrder
    <3>2. ASSUME NEW i \in 1 .. Len(committed')
          PROVE  /\ mFinishedCommandSerial' < committed'[i].serial
                 /\ committed'[i].serial < mPendingCommandSerial'
      BY <2>1, <2>2, <2>4, <2>5, <2>6, <2>7 DEF HandlersInOrder
    <3>3. ASSUME NEW i \in 1 .. Len(committed'), NEW j \in 1 .. Len(committed'), i < j
          PROVE  committed'[i].serial < committed'[j].serial
      <4>1. i \in 1 .. Len(committed) /\ committed'[i].serial = committed[i].serial
        BY <3>3, <2>3, <2>4, <2>6
      <4>2. QED
        BY <4>1, <3>3, <2>2, <2>4, <2>5, <2>6, <2>7 DEF HandlersInOrder
    <3>4. QED
      BY <3>1, <3>2, <3>3 DEF HandlersInOrder
  <2>9. QED
    BY <2>1, <2>2, <2>3, <2>8
<1>3. QED
  BY <1>1, <1>2

(* The API records commands and queues requests with the pending serial.   *)
LEMMA MetalApi ==
  ASSUME MetalInv, M!Api PROVE MetalInv'
<1>1. \/ UNCHANGED <<mPendingCommands, mInflightRequests, appRefs>>
      \/ /\ UNCHANGED <<mPendingCommands, mInflightRequests>>
         /\ \E b \in MetalBuffers : appRefs' = appRefs \cup {b} \/ appRefs' = appRefs \ {b}
      \/ /\ UNCHANGED <<mInflightRequests, appRefs>>
         /\ \E b, upload \in MetalBuffers : mPendingCommands' = M!Recorded({b, upload})
      \/ /\ UNCHANGED appRefs /\ mPendingCommands' = M!Recorded({})
         /\ \E b \in MetalBuffers :
              mInflightRequests' = M!Enqueue(mInflightRequests, {b}, mPendingCommandSerial)
  BY DEF M!Api, M!CreateBuffer, M!ReleaseBuffer, M!MapAsync, M!SetSubData, M!QueueSubmit,
         M!GetPendingCommandSerial, M!GetPendingCommandBuffer, M!commandVars, M!queueVars
<1>2. UNCHANGED <<mFinishedCommandSerial, mPendingCommandSerial, committed, finishedSerial, fired>>
  BY DEF M!Api, M!CreateBuffer, M!ReleaseBuffer, M!MapAsync, M!SetSubData, M!QueueSubmit,
         M!commandVars, M!tickVars
<1>3. MetalTypes
  BY DEF MetalInv
<1>4. mPendingCommands' \in Seq(SUBSET MetalBuffers)
  <2>1. \A b, upload \in MetalBuffers : M!Recorded({b, upload}) \in Seq(SUBSET MetalBuffers)
    BY <1>3, RecordedType
  <2>2. M!Recorded({}) \in Seq(SUBSET MetalBuffers)
    BY <1>3, RecordedType
  <2>3. QED
    BY <1>1, <1>3, <2>1, <2>2 DEF MetalTypes
<1>5. mInflightRequests' \subseteq Entries
  BY <1>1, <1>3 DEF M!Enqueue, Entries, MetalTypes
<1>6. appRefs' \subseteq MetalBuffers
  BY <1>1, <1>3 DEF MetalTypes
<1>7. MetalTypes'
  BY <1>2, <1>3, <1>4, <1>5, <1>6 DEF MetalTypes
<1>8. HandlersInOrder' /\ FiredAreFinished'
  BY <1>2 DEF MetalInv, HandlersInOrder, FiredAreFinished
<1>9. QED
  BY <1>7, <1>8 DEF MetalInv

(* Submission and the end of a Tick commit, ...                            *)
LEMMA MetalSubmission ==
  ASSUME MetalInv,
         \/ M!Submission
         \/ M!FinishTick
         \/ M!DestroyDevice
  PROVE  MetalInv'
<1>1. UNCHANGED <<mFinishedCommandSerial, finishedSerial, appRefs>>
  BY DEF M!Submission, M!FillCommands, M!FinishTick, M!DestroyDevice, M!queueVars, M!tickVars
<1>2. fired' \subseteq fired /\ mInflightRequests' \subseteq mInflightRequests
  BY DEF M!Submission, M!FillCommands, M!FinishTick, M!DestroyDevice, M!queueVars, M!tickVars,
         M!ClearUpTo
<1>3. MetalTypes
  BY DEF MetalInv
<1>4. \E commands \in Seq(SUBSET MetalBuffers) :
        /\ M!SubmitPendingCommandBuffer(commands)
        /\ mPendingCommands = commands \/ commands # <<>>
  <2>1. CASE M!Submission
    <3>1. PICK uses \in SUBSET appRefs : M!SubmitPendingCommandBuffer(M!Recorded(uses))
      BY <2>1 DEF M!Submission, M!FillCommands
    <3>2. M!Recorded(uses) \in Seq(SUBSET MetalBuffers)
      BY <1>3, RecordedType DEF MetalTypes
    <3>3. M!Recorded(uses) # <<>>
      BY DEF M!Recorded
    <3>4. QED
      BY <3>1, <3>2, <3>3
  <2>2. CASE M!FinishTick \/ M!DestroyDevice
    BY <2>2, <1>3 DEF M!FinishTick, M!DestroyDevice, MetalTypes
  <2>3. QED
    BY <2>1, <2>2
<1>5. /\ HandlersInOrder'
      /\ mPendingCommandSerial' \in Nat
      /\ mPendingCommands' \in Seq(SUBSET MetalBuffers) /\ committed' \in Seq(Commands)
  BY <1>1, <1>4, CommitKeeps
<1>6. MetalTypes' /\ FiredAreFinished'
  BY <1>1, <1>2, <1>3, <1>5 DEF MetalTypes, MetalInv, FiredAreFinished
<1>7. QED
  BY <1>5, <1>6 DEF MetalInv

(* ... the other steps of a Tick leave commands alone, ...                 *)
LEMMA MetalTick ==
  ASSUME MetalInv,
         \/ M!Tick
         \/ M!EndOfWait
         \/ M!TickUploads
         \/ M!TickMaps
         \/ M!FireMapCallback
         \/ M!CallbackReturns
         \/ UNCHANGED M!vars
  PROVE  MetalInv'
<1>1. /\ UNCHANGED <<mFinishedCommandSerial, mPendingCommandSerial, mPendingCommands, committed>>
      /\ UNCHANGED <<mInflightRequests, appRefs>>
  BY DEF M!Tick, M!EndOfWait, M!TickUploads, M!TickMaps, M!FireMapCallback, M!CallbackReturns,
         M!commandVars, M!queueVars, M!vars
<1>2. \/ UNCHANGED <<finishedSerial, fired>>
      \/ finishedSerial' = mFinishedCommandSerial /\ UNCHANGED fired
      \/ /\ UNCHANGED finishedSerial
         /\ \E e \in M!UpTo(mInflightRequests, finishedSerial) : fired' = fired \cup {e}
  BY DEF M!Tick, M!EndOfWait, M!TickUploads, M!TickMaps, M!FireMapCallback, M!CallbackReturns,
         M!tickVars, M!vars, M!RequestsToFire
<1>3. MetalTypes'
  BY <1>1, <1>2 DEF MetalInv, MetalTypes, M!UpTo
<1>4. HandlersInOrder'
  BY <1>1 DEF MetalInv, HandlersInOrder
<1>5. FiredAreFinished'
  <2>1. \A e \in fired : e.serial \in Nat
    BY DEF MetalInv, MetalTypes, Entries
  <2>2. finishedSerial \in Nat /\ mFinishedCommandSerial \in Nat /\ FiredAreFinished
    BY DEF MetalInv, MetalTypes
  <2>3. \A e \in M!UpTo(mInflightRequests, finishedSerial) : e.serial <= finishedSerial
    BY DEF M!UpTo
  <2>4. QED
    BY <1>1, <1>2, <2>1, <2>2, <2>3 DEF FiredAreFinished
<1>6. QED
  BY <1>3, <1>4, <1>5 DEF MetalInv

(* ... and so does the GPU, but for what is completed.                     *)
LEMMA MetalGpu ==
  ASSUME MetalInv, M!GpuCompletes PROVE MetalInv'
<1>1. PICK i \in DOMAIN committed : committed' = [committed EXCEPT ![i].completed = TRUE]
  BY DEF M!GpuCompletes
<1>2. committed \in Seq(Commands) /\ i \in 1 .. Len(committed) /\ committed[i] \in Commands
  BY ElementOfSeq DEF MetalInv, MetalTypes
<1>3. [committed[i] EXCEPT !.completed = TRUE] \in Commands
  BY <1>2 DEF Commands
<1>4. committed' = [committed EXCEPT ![i] = [committed[i] EXCEPT !.completed = TRUE]]
  BY <1>1
<1>5. /\ committed' \in Seq(Commands) /\ Len(committed') = Len(committed)
      /\ \A j \in 1 .. Len(committed) : committed'[j].serial = committed[j].serial
  <2> DEFINE new == [committed[i] EXCEPT !.completed = TRUE]
  <2>1. new.serial = committed[i].serial
    BY <1>2 DEF Commands
  <2>2. new \in Commands /\ committed' = [committed EXCEPT ![i] = new]
    BY <1>3, <1>4
  <2> HIDE DEF new
  <2>3. /\ committed' \in Seq(Commands) /\ Len(committed') = Len(committed)
        /\ \A j \in 1 .. Len(committed) :
             committed'[j] = IF j = i THEN new ELSE committed[j]
    BY <1>2, <2>2, ExceptSeq
  <2>4. QED
    BY <2>1, <2>3
<1>6. UNCHANGED <<mFinishedCommandSerial, mPendingCommandSerial, mPendingCommands,
                  mInflightRequests, appRefs, finishedSerial, fired>>
  BY DEF M!GpuCompletes, M!queueVars, M!tickVars
<1>7. MetalTypes' /\ FiredAreFinished'
  BY <1>5, <1>6 DEF MetalInv, MetalTypes, FiredAreFinished
<1>8. HandlersInOrder'
  BY <1>5, <1>6 DEF MetalInv, HandlersInOrder
<1>9. QED
  BY <1>7, <1>8 DEF MetalInv

(* A handler moves the finished serial on, to below all that still wait.   *)
LEMMA MetalHandler ==
  ASSUME MetalInv, M!CompletedHandler PROVE MetalInv'
<1>1. /\ committed # <<>> /\ committed' = Tail(committed)
      /\ mFinishedCommandSerial' = Head(committed).serial
      /\ UNCHANGED <<mPendingCommandSerial, mPendingCommands, mInflightRequests, appRefs,
                     finishedSerial, fired>>
  BY DEF M!CompletedHandler, M!CapturedSerial, M!queueVars, M!tickVars
<1>2. committed \in Seq(Commands) /\ mFinishedCommandSerial \in Nat /\ finishedSerial \in Nat
  BY DEF MetalInv, MetalTypes
<1>3. /\ committed' \in Seq(Commands) /\ Len(committed') = Len(committed) - 1
      /\ \A i \in 1 .. Len(committed') : committed'[i] = committed[i + 1]
  BY <1>1, <1>2, HeadTailProperties
<1>4. Len(committed) \in Nat /\ Len(committed) > 0 /\ 1 \in 1 .. Len(committed)
  BY <1>1, <1>2, EmptySeq, LenProperties
<1>5. mFinishedCommandSerial' = committed[1].serial /\ committed[1].serial \in Nat
  BY <1>1, <1>2, <1>4, CommandSerials
<1>6. \A i \in 1 .. Len(committed') : i + 1 \in 1 .. Len(committed) /\ 1 < i + 1
  BY <1>3, <1>4
<1>7. HandlersInOrder
  BY DEF MetalInv
<1>8. HandlersInOrder'
  <2>1. mFinishedCommandSerial' < mPendingCommandSerial'
    BY <1>1, <1>4, <1>5, <1>7 DEF HandlersInOrder
  <2>2. ASSUME NEW i \in 1 .. Len(committed')
        PROVE  /\ mFinishedCommandSerial' < committed'[i].serial
               /\ committed'[i].serial < mPendingCommandSerial'
    BY <1>1, <1>3, <1>4, <1>5, <1>6, <1>7 DEF HandlersInOrder
  <2>3. ASSUME NEW i \in 1 .. Len(committed'), NEW j \in 1 .. Len(committed'), i < j
        PROVE  committed'[i].serial < committed'[j].serial
    <3>1. i + 1 < j + 1
      BY <2>3
    <3>2. QED
      BY <3>1, <1>3, <1>6, <1>7 DEF HandlersInOrder
  <2>4. QED
    BY <2>1, <2>2, <2>3 DEF HandlersInOrder
<1>9. MetalTypes'
  BY <1>1, <1>3, <1>5 DEF MetalInv, MetalTypes
<1>10. FiredAreFinished'
  <2>1. mFinishedCommandSerial < mFinishedCommandSerial'
    BY <1>4, <1>5, <1>7 DEF HandlersInOrder
  <2>2. finishedSerial' <= mFinishedCommandSerial'
    BY <2>1, <1>1, <1>2, <1>5 DEF MetalInv, FiredAreFinished
  <2>3. QED
    BY <2>2, <1>1 DEF MetalInv, FiredAreFinished
<1>11. QED
  BY <1>8, <1>9, <1>10 DEF MetalInv

(* For any buffers and any serials, whenever the GPU completes commands    *)
(* and Metal calls the handlers: a map callback runs, and an upload buffer *)
(* is given back, only when the GPU has completed all that was submitted   *)
(* up to its serial, although MapRequestTracker::Tick and                  *)
(* ResourceUploader::Tick read mFinishedCommandSerial at different times.  *)
THEOREM MetalCallbacksSeeFinishedWork == M!Spec => []M!CallbacksSeeFinishedWork
<1>1. M!Init => MetalInv
  BY MetalStart
<1>2. MetalInv /\ [M!Next]_M!vars => MetalInv'
  <2> SUFFICES ASSUME MetalInv, [M!Next]_M!vars PROVE MetalInv'
    OBVIOUS
  <2>1. CASE M!Api
    BY <2>1, MetalApi
  <2>2. CASE M!Submission \/ M!FinishTick \/ M!DestroyDevice
    BY <2>2, MetalSubmission
  <2>3. CASE \/ M!Tick
             \/ M!EndOfWait
             \/ M!TickUploads
             \/ M!TickMaps
             \/ M!FireMapCallback
             \/ M!CallbackReturns
             \/ UNCHANGED M!vars
    BY <2>3, MetalTick
  <2>4. CASE M!GpuCompletes
    BY <2>4, MetalGpu
  <2>5. CASE M!CompletedHandler
    BY <2>5, MetalHandler
  <2>6. QED
    BY <2>1, <2>2, <2>3, <2>4, <2>5 DEF M!Next, M!TickStep, M!Terminated
<1>3. MetalInv => M!CallbacksSeeFinishedWork
  <2> SUFFICES ASSUME MetalInv PROVE M!CallbacksSeeFinishedWork
    OBVIOUS
  <2>1. committed \in Seq(Commands)
    BY DEF MetalInv, MetalTypes
  <2>2. ASSUME NEW c \in M!Unfinished
        PROVE  mFinishedCommandSerial < c.serial /\ c.serial \in Nat
    <3>1. PICK i \in 1 .. Len(committed) : c = committed[i]
      BY <2>1 DEF M!Unfinished, M!ToSet
    <3>2. QED
      BY <3>1, <2>1, CommandSerials DEF MetalInv, HandlersInOrder
  <2>3. ASSUME NEW e \in fired
        PROVE  /\ e.serial \in Nat /\ e.serial <= mFinishedCommandSerial
               /\ e.serial < mPendingCommandSerial
    <3>1. e.serial \in Nat
      BY DEF MetalInv, MetalTypes, Entries
    <3>2. e.serial <= finishedSerial /\ finishedSerial <= mFinishedCommandSerial
      BY DEF MetalInv, FiredAreFinished
    <3>3. mFinishedCommandSerial < mPendingCommandSerial
      BY DEF MetalInv, HandlersInOrder
    <3>4. QED
      BY <3>1, <3>2, <3>3 DEF MetalInv, MetalTypes
  <2>4. mFinishedCommandSerial \in Nat
    BY DEF MetalInv, MetalTypes
  <2>5. \A e \in fired : /\ e.serial < mPendingCommandSerial
                         /\ \A c \in M!Unfinished : c.serial > e.serial
    BY <2>2, <2>3, <2>4
  <2>6. QED
    BY <2>2, <2>5 DEF M!CallbacksSeeFinishedWork
<1>4. QED
  BY <1>1, <1>2, <1>3, PTL DEF M!Spec
=============================================================================
