------------------------ MODULE InferenceBridgeProofs ------------------------
(***************************************************************************)
(* The cache keys, and the program of the bridge as a sequence of stages,  *)
(* for every request.                                                      *)
(***************************************************************************)
EXTENDS InferenceBridge, TLAPS

-----------------------------------------------------------------------------
(* Cache keys.                                                               *)

\* Two requests with one core cache key reach the model with the same camera
\* argument and focal length.
THEOREM CoreKeyDeterminesArguments ==
  ASSUME NEW q \in Request, NEW r \in Request, CoreCacheKey(q) = CoreCacheKey(r)
  PROVE  CoreArguments(q) = CoreArguments(r)
<1>1. /\ q.static_camera = r.static_camera /\ q.f_mm = r.f_mm
      /\ (q.use_dpvo /\ ~q.static_camera) = (r.use_dpvo /\ ~r.static_camera)
  BY DEF CoreCacheKey
<1>2. CameraArgument(q) = CameraArgument(r)
  BY <1>1 DEF CameraArgument, Request
<1> QED BY <1>1, <1>2 DEF CoreArguments

\* Two requests with one render cache key run the same stages.
THEOREM RenderKeyDeterminesProgram ==
  ASSUME NEW q \in Request, NEW r \in Request, RenderCacheKey(q) = RenderCacheKey(r)
  PROVE  Program(q) = Program(r)
<1>1. /\ CoreCacheKey(q) = CoreCacheKey(r) /\ q.video_render = r.video_render
      /\ NormalizeVideoType(q.video_type) = NormalizeVideoType(r.video_type)
  BY DEF RenderCacheKey
<1>2. q.static_camera = r.static_camera
  BY <1>1 DEF CoreCacheKey
<1>3. VideoTypeArgument(q) = VideoTypeArgument(r)
  BY <1>1 DEF VideoTypeArgument
<1>4. EnabledVideos(q) = EnabledVideos(r)
  BY <1>1, <1>3 DEF EnabledVideos
<1>5. RunPreprocess(q) = RunPreprocess(r) /\ LoadDataDict(q) = LoadDataDict(r)
  BY <1>2 DEF RunPreprocess, LoadDataDict
<1> QED BY <1>4, <1>5 DEF Program

-----------------------------------------------------------------------------
(* The stages of a program.                                                  *)

Stages ==
  {s \in [op : {"make", "load", "rename"}, file : Files, reads : SUBSET Files,
          keep : SUBSET Files, all : SUBSET Files] : s.op = "rename" => s.reads # {}}

\* The stages up to the prediction.
Front(r) == <<CopyVideo>> \o RunPreprocess(r) \o <<LoadDataDict(r), Predict>>

PredictAt(r) == IF r.static_camera THEN 6 ELSE 7

\* And the stages after it.
Renders ==
  {RenderIncam, Rename("1_incam", "mesh_incam"), RenderGlobal, Rename("2_global", "mesh_global"),
   MeshComparison, ComputeJointsOnce, RenderSkeletonIncam, RenderSkeletonOnly, SaveJointsJson,
   Rename("0_input_video", "input")}

\* The stages that load the prediction.
PredictionLoaders == {RenderIncam, RenderGlobal, ComputeJointsOnce}

\* Each stage is one.
LEMMA StagesTyped ==
  /\ CopyVideo \in Stages /\ Predict \in Stages /\ Renders \subseteq Stages
  /\ \A r : LoadDataDict(r) \in Stages
  /\ \A f \in Preprocess : \A keep \in SUBSET Preprocess : Make(f, {"0_input_video"}, keep) \in Stages
<1> USE DEF Stages, Make, Load, Rename, Files, Videos, VideoKinds, Preprocess
<1>1. CopyVideo \in Stages /\ Predict \in Stages
  BY DEF CopyVideo, Predict
<1>2. \A r : LoadDataDict(r) \in Stages
  BY DEF LoadDataDict
<1>3. \A f \in Preprocess : \A keep \in SUBSET Preprocess :
        Make(f, {"0_input_video"}, keep) \in Stages
  OBVIOUS
<1>4. RenderIncam \in Stages /\ RenderGlobal \in Stages
  BY DEF RenderIncam, RenderGlobal
<1>5. /\ Rename("1_incam", "mesh_incam") \in Stages /\ Rename("2_global", "mesh_global") \in Stages
      /\ Rename("0_input_video", "input") \in Stages
  OBVIOUS
<1>6. MeshComparison \in Stages
  BY DEF MeshComparison
<1>7. ComputeJointsOnce \in Stages /\ RenderSkeletonIncam \in Stages
  BY DEF ComputeJointsOnce, RenderSkeletonIncam
<1>8. RenderSkeletonOnly \in Stages /\ SaveJointsJson \in Stages
  BY DEF RenderSkeletonOnly, SaveJointsJson
<1> HIDE DEF Stages, Make, Load, Rename, Files, Videos, VideoKinds, Preprocess
<1>9. Renders \subseteq Stages
  BY <1>4, <1>5, <1>6, <1>7, <1>8 DEF Renders
<1> QED BY <1>1, <1>2, <1>3, <1>9

\* Programs put together.
LEMMA Joined ==
  ASSUME NEW s \in Seq(Stages), NEW t \in Seq(Stages)
  PROVE  /\ s \o t \in Seq(Stages) /\ Len(s \o t) = Len(s) + Len(t)
         /\ \A n \in 1 .. Len(s) : (s \o t)[n] = s[n]
         /\ \A n \in 1 .. Len(t) : (s \o t)[Len(s) + n] = t[n]
         /\ \A n \in Len(s) + 1 .. Len(s) + Len(t) :
              (s \o t)[n] = t[n - Len(s)] /\ n - Len(s) \in 1 .. Len(t)
  OBVIOUS

\* The stages up to the prediction: the copy, the preprocessing, which takes a
\* stage more for a moving camera, the loading of its results, the prediction.
LEMMA FrontShape ==
  ASSUME NEW r
  PROVE  /\ Front(r) \in Seq(Stages) /\ Len(Front(r)) = PredictAt(r)
         /\ Front(r)[1] = CopyVideo
         /\ Front(r)[PredictAt(r) - 1] = LoadDataDict(r)
         /\ Front(r)[PredictAt(r)] = Predict
         /\ \A n \in 2 .. PredictAt(r) - 2 :
              \E f \in Preprocess, keep \in SUBSET Preprocess :
                /\ Front(r)[n] = Make(f, {"0_input_video"}, keep)
                /\ f = "slam" => ~r.static_camera
<1> DEFINE a == Make("bbx", {"0_input_video"}, {"bbx"})
           b == Make("vitpose", {"0_input_video"}, {"vitpose"})
           c == Make("vit_features", {"0_input_video"}, {})
           d == Make("slam", {"0_input_video"}, {})
           l == LoadDataDict(r)
<1>1. {a, b, c, d, l, CopyVideo, Predict} \subseteq Stages
  BY StagesTyped DEF Preprocess
<1>2. Front(r) = <<CopyVideo>> \o (<<a, b, c>> \o (IF r.static_camera THEN <<>> ELSE <<d>>))
                   \o <<l, Predict>>
  BY DEF Front, RunPreprocess
<1>3. \A n \in 1 .. 4 : \E f \in Preprocess, keep \in SUBSET Preprocess :
        /\ <<a, b, c, d>>[n] = Make(f, {"0_input_video"}, keep)
        /\ n < 4 => f # "slam"
  <2>1. a = Make("bbx", {"0_input_video"}, {"bbx"}) /\ b = Make("vitpose", {"0_input_video"}, {"vitpose"})
    OBVIOUS
  <2>2. c = Make("vit_features", {"0_input_video"}, {}) /\ d = Make("slam", {"0_input_video"}, {})
    OBVIOUS
  <2> HIDE DEF a, b, c, d
  <2> QED BY <2>1, <2>2 DEF Preprocess
<1> HIDE DEF a, b, c, d, l
<1> DEFINE u == <<CopyVideo>>
           v == <<a, b, c>>
           x == IF r.static_camera THEN <<>> ELSE <<d>>
           z == <<l, Predict>>
<1>4. /\ u \in Seq(Stages) /\ Len(u) = 1 /\ u[1] = CopyVideo
      /\ v \in Seq(Stages) /\ Len(v) = 3
      /\ z \in Seq(Stages) /\ Len(z) = 2 /\ z[1] = l /\ z[2] = Predict
  BY <1>1
<1>5. /\ x \in Seq(Stages) /\ Len(x) = PredictAt(r) - 6
      /\ r.static_camera => Len(x) = 0
      /\ ~r.static_camera => Len(x) = 1 /\ x[1] = d
  BY <1>1 DEF PredictAt
<1>6. \A n \in 1 .. 3 : v[n] = <<a, b, c, d>>[n]
  OBVIOUS
<1>7. Front(r) = (u \o (v \o x)) \o z
  BY <1>2
<1>8. PredictAt(r) \in {6, 7} /\ (PredictAt(r) = 6 <=> r.static_camera)
  BY DEF PredictAt
<1>9. <<a, b, c, d>>[4] = d
  OBVIOUS
<1> HIDE DEF u, v, x, z
<1>10. /\ v \o x \in Seq(Stages) /\ Len(v \o x) = PredictAt(r) - 3
       /\ \A n \in 1 .. 3 : (v \o x)[n] = v[n]
       /\ ~r.static_camera => (v \o x)[4] = d
  <2>1. /\ v \o x \in Seq(Stages) /\ Len(v \o x) = Len(v) + Len(x)
        /\ \A n \in 1 .. Len(v) : (v \o x)[n] = v[n]
        /\ \A n \in 1 .. Len(x) : (v \o x)[Len(v) + n] = x[n]
    BY <1>4, <1>5, Joined
  <2> QED BY <1>4, <1>5, <1>8, <2>1
<1>11. /\ u \o (v \o x) \in Seq(Stages) /\ Len(u \o (v \o x)) = PredictAt(r) - 2
       /\ (u \o (v \o x))[1] = CopyVideo
       /\ \A n \in 2 .. PredictAt(r) - 2 : (u \o (v \o x))[n] = (v \o x)[n - 1]
  <2> DEFINE w == v \o x
  <2>1. w \in Seq(Stages) /\ Len(w) = PredictAt(r) - 3
    BY <1>10
  <2> HIDE DEF w
  <2> SUFFICES /\ u \o w \in Seq(Stages) /\ Len(u \o w) = PredictAt(r) - 2
               /\ (u \o w)[1] = CopyVideo
               /\ \A n \in 2 .. PredictAt(r) - 2 : (u \o w)[n] = w[n - 1]
    BY DEF w
  <2>2. /\ u \o w \in Seq(Stages) /\ Len(u \o w) = Len(u) + Len(w)
        /\ \A n \in 1 .. Len(u) : (u \o w)[n] = u[n]
        /\ \A n \in 1 .. Len(w) : (u \o w)[Len(u) + n] = w[n]
    BY <1>4, <2>1, Joined
  <2>3. ASSUME NEW n \in 2 .. PredictAt(r) - 2 PROVE (u \o w)[n] = w[n - 1]
    <3>1. n - 1 \in 1 .. Len(w) /\ 1 + (n - 1) = n
      BY <1>8, <2>1
    <3> QED BY <1>4, <2>2, <3>1
  <2> QED BY <1>4, <1>8, <2>1, <2>2, <2>3
<1> DEFINE h == u \o (v \o x)
<1>12. Front(r) = h \o z
  BY <1>7
<1>13. /\ h \in Seq(Stages) /\ Len(h) = PredictAt(r) - 2 /\ h[1] = CopyVideo
       /\ \A n \in 2 .. PredictAt(r) - 2 : h[n] = (v \o x)[n - 1]
  BY <1>11
<1> HIDE DEF h
<1>14. /\ h \o z \in Seq(Stages) /\ Len(h \o z) = PredictAt(r)
       /\ \A n \in 1 .. PredictAt(r) - 2 : (h \o z)[n] = h[n]
       /\ (h \o z)[PredictAt(r) - 1] = l /\ (h \o z)[PredictAt(r)] = Predict
  <2>1. h \in Seq(Stages) /\ Len(h) = PredictAt(r) - 2
    BY <1>13
  <2>2. /\ h \o z \in Seq(Stages) /\ Len(h \o z) = Len(h) + Len(z)
        /\ \A n \in 1 .. Len(h) : (h \o z)[n] = h[n]
        /\ \A n \in 1 .. Len(z) : (h \o z)[Len(h) + n] = z[n]
    BY <1>4, <2>1, Joined
  <2>3. (h \o z)[Len(h) + 1] = l /\ (h \o z)[Len(h) + 2] = Predict
    BY <1>4, <2>2
  <2>4. Len(h) + 1 = PredictAt(r) - 1 /\ Len(h) + 2 = PredictAt(r) /\ Len(h) + Len(z) = PredictAt(r)
    BY <1>4, <1>8, <2>1
  <2> QED BY <2>1, <2>2, <2>3, <2>4
<1>15. ASSUME NEW n \in 2 .. PredictAt(r) - 2
       PROVE  \E f \in Preprocess, keep \in SUBSET Preprocess :
                /\ Front(r)[n] = Make(f, {"0_input_video"}, keep)
                /\ f = "slam" => ~r.static_camera
  <2>1. Front(r)[n] = (v \o x)[n - 1]
    <3>1. Front(r)[n] = h[n]
      BY <1>8, <1>14, <1>12
    <3> QED BY <1>13, <3>1
  <2>2. n - 1 \in 1 .. 4 /\ (n - 1 < 4 \/ (n - 1 = 4 /\ ~r.static_camera))
    BY <1>8
  <2>3. Front(r)[n] = <<a, b, c, d>>[n - 1]
    <3>1. CASE n - 1 < 4
      <4>1. n - 1 \in 1 .. 3
        BY <2>2, <3>1
      <4> QED BY <1>6, <1>10, <2>1, <4>1
    <3>2. CASE n - 1 = 4 /\ ~r.static_camera
      BY <1>9, <1>10, <2>1, <3>2
    <3> QED BY <2>2, <3>1, <3>2
  <2> QED BY <1>3, <2>2, <2>3
<1>16. Front(r)[1] = CopyVideo
  <2>1. Front(r)[1] = h[1]
    BY <1>8, <1>14, <1>12
  <2> QED BY <1>13, <2>1
<1> QED BY <1>14, <1>15, <1>16, <1>12 DEF l

\* A program that begins with the stages up to the prediction and goes on with
\* stages after it.
Extends(r, s) ==
  /\ s \in Seq(Stages) /\ Len(s) >= PredictAt(r)
  /\ \A n \in 1 .. PredictAt(r) : s[n] = Front(r)[n]
  /\ \A n \in PredictAt(r) + 1 .. Len(s) : s[n] \in Renders

HasLoader(s) == \E n \in 1 .. Len(s) : s[n] \in PredictionLoaders

\* More stages at its end.
LEMMA Extended ==
  ASSUME NEW r, NEW s, NEW t \in Seq(Renders), Extends(r, s)
  PROVE  /\ Extends(r, s \o t) /\ Len(s \o t) = Len(s) + Len(t)
         /\ HasLoader(s) \/ HasLoader(t) => HasLoader(s \o t)
<1>1. s \in Seq(Stages) /\ t \in Seq(Stages) /\ \A n \in 1 .. Len(t) : t[n] \in Renders
  BY StagesTyped DEF Extends
<1>2. /\ s \o t \in Seq(Stages) /\ Len(s \o t) = Len(s) + Len(t)
      /\ \A n \in 1 .. Len(s) : (s \o t)[n] = s[n]
      /\ \A n \in 1 .. Len(t) : (s \o t)[Len(s) + n] = t[n]
      /\ \A n \in Len(s) + 1 .. Len(s) + Len(t) :
           (s \o t)[n] = t[n - Len(s)] /\ n - Len(s) \in 1 .. Len(t)
  BY <1>1, Joined
<1>3. PredictAt(r) \in {6, 7} /\ Len(s) \in Nat /\ Len(t) \in Nat
  BY <1>1 DEF PredictAt
<1> DEFINE u == s \o t
<1> HIDE DEF u
<1>4. /\ u \in Seq(Stages) /\ Len(u) = Len(s) + Len(t)
      /\ \A n \in 1 .. Len(s) : u[n] = s[n]
      /\ \A n \in 1 .. Len(t) : u[Len(s) + n] = t[n]
      /\ \A n \in Len(s) + 1 .. Len(s) + Len(t) : u[n] = t[n - Len(s)] /\ n - Len(s) \in 1 .. Len(t)
  BY <1>2 DEF u
<1>5. \A n \in 1 .. PredictAt(r) : u[n] = Front(r)[n]
  BY <1>3, <1>4 DEF Extends
<1>6. ASSUME NEW n \in PredictAt(r) + 1 .. Len(u) PROVE u[n] \in Renders
  <2>1. CASE n \in 1 .. Len(s)
    BY <1>3, <1>4, <1>6, <2>1 DEF Extends
  <2>2. CASE n \in Len(s) + 1 .. Len(s) + Len(t)
    BY <1>1, <1>4, <2>2
  <2> QED BY <1>3, <1>4, <2>1, <2>2
<1>7. Extends(r, u)
  BY <1>3, <1>4, <1>5, <1>6 DEF Extends
<1>8. HasLoader(s) => HasLoader(u)
  BY <1>3, <1>4 DEF HasLoader
<1>9. HasLoader(t) => HasLoader(u)
  <2>1. \A n \in 1 .. Len(t) : Len(s) + n \in 1 .. Len(u)
    BY <1>3, <1>4
  <2> QED BY <1>4, <2>1 DEF HasLoader
<1> QED BY <1>4, <1>7, <1>8, <1>9 DEF u

\* The stages of one kind of video.
LEMMA IfStages ==
  ASSUME NEW wanted, NEW s \in Seq(Renders)
  PROVE  If(wanted, s) \in Seq(Renders) /\ (wanted /\ HasLoader(s) => HasLoader(If(wanted, s)))
  BY DEF If

\* The stages that are put together.
LEMMA RenderStages ==
  /\ <<RenderIncam, Rename("1_incam", "mesh_incam")>> \in Seq(Renders)
  /\ <<RenderGlobal, Rename("2_global", "mesh_global")>> \in Seq(Renders)
  /\ \A s \in Renders : <<s>> \in Seq(Renders) /\ Len(<<s>>) = 1
  /\ HasLoader(<<RenderIncam, Rename("1_incam", "mesh_incam")>>)
  /\ HasLoader(<<RenderGlobal, Rename("2_global", "mesh_global")>>)
  /\ HasLoader(<<ComputeJointsOnce>>)
<1>1. /\ Rename("1_incam", "mesh_incam") \in Renders /\ Rename("2_global", "mesh_global") \in Renders
      /\ RenderIncam \in Renders /\ RenderGlobal \in Renders
  BY DEF Renders
<1>2. \A s, t : Len(<<s, t>>) = 2 /\ <<s, t>>[1] = s /\ Len(<<s>>) = 1 /\ <<s>>[1] = s
  OBVIOUS
<1>3. HasLoader(<<ComputeJointsOnce>>)
  BY <1>2 DEF HasLoader, PredictionLoaders
<1>4. HasLoader(<<RenderIncam, Rename("1_incam", "mesh_incam")>>)
  BY <1>2 DEF HasLoader, PredictionLoaders
<1>5. HasLoader(<<RenderGlobal, Rename("2_global", "mesh_global")>>)
  BY <1>2 DEF HasLoader, PredictionLoaders
<1> QED BY <1>1, <1>3, <1>4, <1>5

\* A program runs the stages up to the prediction, then stages after it, of
\* which one loads the prediction unless at most a comparison is wanted.
LEMMA ProgramShape ==
  ASSUME NEW r
  PROVE  /\ Extends(r, Program(r)) /\ Len(Program(r)) > PredictAt(r)
         /\ EnabledVideos(r) \subseteq {"mesh_comparison"} \/ HasLoader(Program(r))
<1> DEFINE on(kind) == kind \in EnabledVideos(r)
           joints == on("skeleton_incam") \/ on("skeleton_only")
           t1 == If(on("mesh_incam"), <<RenderIncam, Rename("1_incam", "mesh_incam")>>)
           t2 == If(on("mesh_global"), <<RenderGlobal, Rename("2_global", "mesh_global")>>)
           t3 == If(on("mesh_comparison"), <<MeshComparison>>)
           t4 == If(joints, <<ComputeJointsOnce>>)
           t5 == If(on("skeleton_incam"), <<RenderSkeletonIncam>>)
           t6 == If(on("skeleton_only"), <<RenderSkeletonOnly>>)
           t7 == If(joints, <<SaveJointsJson>>)
           t8 == <<Rename("0_input_video", "input")>>
           s1 == Front(r) \o t1
           s2 == s1 \o t2
           s3 == s2 \o t3
           s4 == s3 \o t4
           s5 == s4 \o t5
           s6 == s5 \o t6
           s7 == s6 \o t7
           s8 == s7 \o t8
<1>1. Program(r) = s8
  BY DEF Program, Front
<1>2. /\ t1 \in Seq(Renders) /\ (on("mesh_incam") => HasLoader(t1))
      /\ t2 \in Seq(Renders) /\ (on("mesh_global") => HasLoader(t2))
      /\ t4 \in Seq(Renders) /\ (joints => HasLoader(t4))
  <2>1. <<ComputeJointsOnce>> \in Seq(Renders)
    BY RenderStages DEF Renders
  <2> QED BY <2>1, IfStages, RenderStages
<1>3. t3 \in Seq(Renders) /\ t5 \in Seq(Renders) /\ t6 \in Seq(Renders) /\ t7 \in Seq(Renders)
  <2>1. /\ <<MeshComparison>> \in Seq(Renders) /\ <<RenderSkeletonIncam>> \in Seq(Renders)
        /\ <<RenderSkeletonOnly>> \in Seq(Renders) /\ <<SaveJointsJson>> \in Seq(Renders)
    BY RenderStages DEF Renders
  <2> QED BY <2>1, IfStages
<1>4. t8 \in Seq(Renders) /\ Len(t8) = 1
  BY RenderStages DEF Renders
<1>5. EnabledVideos(r) \subseteq VideoKinds
  BY DEF EnabledVideos
<1>6. \/ EnabledVideos(r) \subseteq {"mesh_comparison"}
      \/ on("mesh_incam") \/ on("mesh_global") \/ joints
  BY <1>5 DEF VideoKinds
<1> HIDE DEF on, joints, t1, t2, t3, t4, t5, t6, t7, t8
<1>7. Extends(r, Front(r))
  <2>1. Front(r) \in Seq(Stages) /\ Len(Front(r)) = PredictAt(r)
    BY FrontShape
  <2>2. PredictAt(r) \in {6, 7}
    BY DEF PredictAt
  <2> QED BY <2>1, <2>2 DEF Extends
<1>8. Extends(r, s1) /\ (HasLoader(t1) => HasLoader(s1))
  BY <1>2, <1>7, Extended
<1> HIDE DEF s1
<1>9. Extends(r, s2) /\ (HasLoader(s1) \/ HasLoader(t2) => HasLoader(s2))
  BY <1>2, <1>8, Extended
<1> HIDE DEF s2
<1>10. Extends(r, s3) /\ (HasLoader(s2) => HasLoader(s3))
  BY <1>3, <1>9, Extended
<1> HIDE DEF s3
<1>11. Extends(r, s4) /\ (HasLoader(s3) \/ HasLoader(t4) => HasLoader(s4))
  BY <1>2, <1>10, Extended
<1> HIDE DEF s4
<1>12. Extends(r, s5) /\ (HasLoader(s4) => HasLoader(s5))
  BY <1>3, <1>11, Extended
<1> HIDE DEF s5
<1>13. Extends(r, s6) /\ (HasLoader(s5) => HasLoader(s6))
  BY <1>3, <1>12, Extended
<1> HIDE DEF s6
<1>14. Extends(r, s7) /\ (HasLoader(s6) => HasLoader(s7))
  BY <1>3, <1>13, Extended
<1> HIDE DEF s7
<1>15. Extends(r, s8) /\ Len(s8) = Len(s7) + 1 /\ (HasLoader(s7) => HasLoader(s8))
  BY <1>4, <1>14, Extended
<1> HIDE DEF s8
<1>16. Len(s8) > PredictAt(r)
  BY <1>14, <1>15 DEF Extends, PredictAt
<1> QED BY <1>1, <1>2, <1>6, <1>8, <1>9, <1>10, <1>11, <1>12, <1>13, <1>14, <1>15, <1>16

\* What the stages after the prediction have in common: they make no input of
\* it, and what loads it says so.
LEMMA RenderFacts ==
  ASSUME NEW s \in Renders
  PROVE  /\ s.file \notin Preprocess \union {"hmr4d_results"}
         /\ s.op = "rename" => /\ s.file \notin {"1_incam", "2_global"}
                               /\ \E from \in {"1_incam", "2_global", "0_input_video"} : s.reads = {from}
         /\ s.file \in {"1_incam", "2_global"} => "hmr4d_results" \in s.reads
         /\ s \in PredictionLoaders =>
              /\ "hmr4d_results" \in s.reads /\ s.all = {}
              /\ s.op = "load" \/ (s.op = "make" /\ s.file \in {"1_incam", "2_global"})
<1> USE DEF Make, Load, Rename, Preprocess
<1>1. CASE s = RenderIncam \/ s = RenderGlobal
  BY <1>1 DEF RenderIncam, RenderGlobal
<1>2. CASE s = ComputeJointsOnce
  BY <1>2 DEF ComputeJointsOnce
<1>3. CASE s \in {Rename("1_incam", "mesh_incam"), Rename("2_global", "mesh_global"),
                 Rename("0_input_video", "input")}
  <2>1. s \notin PredictionLoaders
    BY <1>3 DEF PredictionLoaders, RenderIncam, RenderGlobal, ComputeJointsOnce
  <2> QED BY <1>3, <2>1
<1>4. CASE s \in {MeshComparison, RenderSkeletonIncam, RenderSkeletonOnly, SaveJointsJson}
  <2>1. s.op = "make" /\ s.file \in {"mesh_comparison", "skeleton_incam", "skeleton_only", "joints"}
    BY <1>4 DEF MeshComparison, RenderSkeletonIncam, RenderSkeletonOnly, SaveJointsJson
  <2>2. s \notin PredictionLoaders
    BY <2>1 DEF PredictionLoaders, RenderIncam, RenderGlobal, ComputeJointsOnce
  <2> QED BY <2>1, <2>2
<1> QED BY <1>1, <1>2, <1>3, <1>4 DEF Renders

\* The n-th stage of a program.
LEMMA NthStage ==
  ASSUME NEW r, NEW n \in 1 .. Len(Program(r))
  PROVE  LET s == Program(r)[n]
         IN /\ s \in Stages /\ PredictAt(r) \in {6, 7}
            /\ n = 1 => s = CopyVideo
            /\ n = PredictAt(r) - 1 => s = LoadDataDict(r)
            /\ n = PredictAt(r) => s = Predict
            /\ n # PredictAt(r) => s.file # "hmr4d_results"
            /\ n \in 2 .. PredictAt(r) => s.file # "0_input_video"
            /\ n <= PredictAt(r) => s.op # "rename"
            /\ r.static_camera => s.file # "slam"
            /\ n > PredictAt(r) => s \in Renders
            /\ n <= PredictAt(r) => s.file \notin {"1_incam", "2_global"} /\ s \notin PredictionLoaders
<1> DEFINE s == Program(r)[n]
<1>1. PredictAt(r) \in {6, 7} /\ n \in Nat /\ n >= 1
  BY DEF PredictAt
<1>2. /\ Program(r) \in Seq(Stages) /\ Len(Program(r)) > PredictAt(r)
      /\ \A i \in 1 .. PredictAt(r) : Program(r)[i] = Front(r)[i]
      /\ \A i \in PredictAt(r) + 1 .. Len(Program(r)) : Program(r)[i] \in Renders
  BY ProgramShape DEF Extends
<1>3. s \in Stages
  BY <1>2
<1>4. n > PredictAt(r) => s \in Renders
  BY <1>1, <1>2
<1>5. n <= PredictAt(r) => s = Front(r)[n]
  BY <1>1, <1>2
<1> HIDE DEF s
<1>6. PredictionLoaders
        \subseteq {x \in Stages : x.file \in {"1_incam", "2_global"} \/ x = ComputeJointsOnce}
  BY StagesTyped DEF PredictionLoaders, Renders, RenderIncam, RenderGlobal, Make
<1>7. CASE n = 1
  <2>1. s = CopyVideo
    <3>1. s = Front(r)[n]
      BY <1>1, <1>5, <1>7
    <3> QED BY <1>7, <3>1, FrontShape
  <2>2. s.file = "0_input_video" /\ s.op = "make" /\ s # ComputeJointsOnce
    BY <2>1 DEF CopyVideo, Make, ComputeJointsOnce, Load
  <2> QED BY <1>1, <1>3, <1>6, <1>7, <2>1, <2>2 DEF s
<1>8. CASE n \in 2 .. PredictAt(r) - 2
  <2>1. PICK f \in Preprocess, keep \in SUBSET Preprocess :
          s = Make(f, {"0_input_video"}, keep) /\ (f = "slam" => ~r.static_camera)
    <3>1. s = Front(r)[n]
      BY <1>1, <1>5, <1>8
    <3> QED BY <1>8, <3>1, FrontShape
  <2>2. s.file \in Preprocess /\ (s.file = "slam" => ~r.static_camera) /\ s.op = "make"
        /\ s # ComputeJointsOnce
    BY <2>1 DEF Make, ComputeJointsOnce, Load
  <2> QED BY <1>1, <1>3, <1>6, <1>8, <2>2 DEF s, Preprocess
<1>9. CASE n = PredictAt(r) - 1
  <2>1. s = LoadDataDict(r)
    <3>1. s = Front(r)[n]
      BY <1>1, <1>5, <1>9
    <3> QED BY <1>9, <3>1, FrontShape
  <2>2. s.file = "input" /\ s.op = "load"
    BY <2>1 DEF LoadDataDict, Load
  <2>3. s # ComputeJointsOnce
    <3>1. "hmr4d_results" \notin s.reads
      BY <2>1 DEF LoadDataDict, Load
    <3> QED BY <3>1 DEF ComputeJointsOnce, Load
  <2> QED BY <1>1, <1>3, <1>6, <1>9, <2>1, <2>2, <2>3 DEF s
<1>10. CASE n = PredictAt(r)
  <2>1. s = Predict
    <3>1. s = Front(r)[n]
      BY <1>1, <1>5, <1>10
    <3> QED BY <1>10, <3>1, FrontShape
  <2>2. s.file = "hmr4d_results" /\ s.op = "make" /\ s # ComputeJointsOnce
    BY <2>1 DEF Predict, Make, ComputeJointsOnce, Load
  <2> QED BY <1>1, <1>3, <1>6, <1>10, <2>1, <2>2 DEF s
<1>11. CASE n > PredictAt(r)
  <2>1. s \in Renders /\ s.file \notin Preprocess \union {"hmr4d_results"}
    BY <1>4, <1>11, RenderFacts
  <2> QED BY <1>1, <1>3, <1>11, <2>1 DEF s, Preprocess
<1>12. \/ n = 1 \/ n \in 2 .. PredictAt(r) - 2 \/ n = PredictAt(r) - 1 \/ n = PredictAt(r)
       \/ n > PredictAt(r)
  BY <1>1
<1> QED BY <1>7, <1>8, <1>9, <1>10, <1>11, <1>12

-----------------------------------------------------------------------------
(* What a stage does to the files.                                           *)

Directories == [Files -> FileState]

\* A stage that makes or loads leaves every file but its own alone.
LEMMA AfterMake ==
  ASSUME NEW dir \in Directories, NEW s \in Stages, s.op # "rename"
  PROVE  /\ After(dir, s) \in Directories
         /\ \A f \in Files : f # s.file => After(dir, s)[f] = dir[f]
         /\ ~StartsFile(dir, s) => After(dir, s) = dir
         /\ StartsFile(dir, s) =>
              After(dir, s)[s.file] = IF \A f \in s.reads : dir[f] = "whole" THEN "whole" ELSE "partial"
<1>1. s.file \in Files
  BY DEF Stages
<1> QED BY <1>1 DEF After, Directories, FileState

\* A renaming moves one file to another name.
LEMMA AfterRename ==
  ASSUME NEW dir \in Directories, NEW s \in Stages, NEW from \in Files,
         s.op = "rename", s.reads = {from}
  PROVE  /\ After(dir, s) \in Directories
         /\ \A f \in Files \ {from, s.file} : After(dir, s)[f] = dir[f]
         /\ After(dir, s)[from] \in {dir[from], "absent"}
         /\ After(dir, s)[s.file] \in {dir[s.file], dir[from]}
<1>1. (CHOOSE f \in s.reads : TRUE) = from /\ s.file \in Files
  BY DEF Stages
<1>2. After(dir, s) = IF dir[from] # "absent" /\ dir[s.file] = "absent"
                      THEN [dir EXCEPT ![s.file] = dir[from], ![from] = "absent"] ELSE dir
  BY <1>1 DEF After, Renamed
<1> QED BY <1>1, <1>2 DEF Directories, FileState

\* An interruption leaves the stage's own file half written, or nothing new.
LEMMA LeftoversOf ==
  ASSUME NEW dir \in Directories, NEW s \in Stages, NEW left \in Leftovers(dir, s)
  PROVE  /\ left \in Directories
         /\ \/ left = dir
            \/ /\ StartsFile(dir, s) /\ MayPass(dir, s) /\ left[s.file] = "partial"
               /\ \A f \in Files : f # s.file => left[f] = dir[f]
<1>1. s.file \in Files
  BY DEF Stages
<1> QED BY <1>1 DEF Leftovers, Directories, FileState

\* From whole files a stage makes whole files.
LEMMA WholeFromWhole ==
  ASSUME NEW r, NEW n \in 1 .. Len(Program(r)), NEW dir \in Directories,
         MayPass(dir, Program(r)[n]), \A f \in Files : dir[f] # "partial"
  PROVE  \A f \in Files : After(dir, Program(r)[n])[f] # "partial"
<1> DEFINE s == Program(r)[n]
<1>1. s \in Stages /\ (s.op = "rename" => n > PredictAt(r) /\ s \in Renders)
  BY NthStage
<1> HIDE DEF s
<1>2. s.file \in Files /\ s.reads \subseteq Files
  BY <1>1 DEF Stages
<1>3. CASE s.op = "rename"
  <2>1. PICK from \in {"1_incam", "2_global", "0_input_video"} : s.reads = {from}
    BY <1>1, <1>3, RenderFacts
  <2>2. from \in Files
    BY <2>1, <1>2
  <2> QED BY <1>1, <1>2, <1>3, <2>1, <2>2, AfterRename DEF s
<1>4. CASE s.op # "rename" /\ StartsFile(dir, s)
  <2>1. \A f \in s.reads : Loadable(dir, f)
    BY <1>4 DEF MayPass, Loads, s
  <2>2. \A f \in s.reads : dir[f] = "whole"
    BY <1>2, <2>1 DEF Loadable
  <2> QED BY <1>1, <1>2, <1>4, <2>2, AfterMake DEF s
<1>5. CASE s.op # "rename" /\ ~StartsFile(dir, s)
  BY <1>1, <1>5, AfterMake DEF s
<1> QED BY <1>3, <1>4, <1>5

\* No render has been made of a prediction that is not whole.
RendersFollow(dir) ==
  dir["hmr4d_results"] # "whole" => dir["1_incam"] = "absent" /\ dir["2_global"] = "absent"

\* What a stage, or an interruption in the middle of it, does to the
\* prediction and to what is rendered from it.
LEMMA PredictionKept ==
  ASSUME NEW r, NEW n \in 1 .. Len(Program(r)), NEW dir \in Directories, RendersFollow(dir),
         MayPass(dir, Program(r)[n]),
         NEW new \in {After(dir, Program(r)[n])} \union Leftovers(dir, Program(r)[n])
  PROVE  /\ RendersFollow(new)
         /\ dir["hmr4d_results"] = "whole" => new["hmr4d_results"] = "whole"
         /\ n # PredictAt(r) => new["hmr4d_results"] = dir["hmr4d_results"]
         /\ Program(r)[n] \in PredictionLoaders => dir["hmr4d_results"] = "whole"
         /\ dir["hmr4d_results"] # "absent" => new["hmr4d_results"] = dir["hmr4d_results"]
         /\ r.static_camera => new["slam"] = dir["slam"]
<1> DEFINE s == Program(r)[n]
<1>1. /\ s \in Stages /\ (n = PredictAt(r) => s = Predict)
      /\ n # PredictAt(r) => s.file # "hmr4d_results"
      /\ n <= PredictAt(r) => /\ s.op # "rename" /\ s.file \notin {"1_incam", "2_global"}
                              /\ s \notin PredictionLoaders
      /\ r.static_camera => s.file # "slam"
      /\ n > PredictAt(r) => s \in Renders
      /\ n <= PredictAt(r) \/ n > PredictAt(r)
  BY NthStage
<1>2. MayPass(dir, s) /\ new \in {After(dir, s)} \union Leftovers(dir, s)
  OBVIOUS
<1>3. {"hmr4d_results", "1_incam", "2_global", "slam", "0_input_video"} \subseteq Files
  BY DEF Files, Videos, Preprocess
<1> HIDE DEF s
<1>4. s.file \in Files /\ s.reads \subseteq Files
  BY <1>1 DEF Stages
<1>5. \A f \in s.reads : (StartsFile(dir, s) \/ s.op = "load") => Loadable(dir, f)
  BY <1>2 DEF MayPass, Loads
<1>6. Loadable(dir, "hmr4d_results") => dir["hmr4d_results"] = "whole"
  BY DEF Loadable, Videos, VideoKinds
<1>7. CASE n = PredictAt(r)
  <2>1. s = Predict /\ s.file = "hmr4d_results" /\ s.op = "make" /\ s.all = {} /\ s # CopyVideo
    BY <1>1, <1>7 DEF Predict, Make, CopyVideo
  <2>2. StartsFile(dir, s) => dir["hmr4d_results"] = "absent"
    BY <2>1 DEF StartsFile
  <2>3. \A f \in Files : f # "hmr4d_results" => new[f] = dir[f]
    BY <1>1, <1>2, <2>1, AfterMake, LeftoversOf
  <2>4. ~StartsFile(dir, s) => new = dir
    BY <1>1, <1>2, <2>1, AfterMake, LeftoversOf
  <2>5. s \notin PredictionLoaders
    BY <1>1, <1>7
  <2>6. dir["hmr4d_results"] # "absent" => new["hmr4d_results"] = dir["hmr4d_results"]
    BY <2>2, <2>4
  <2>7. RendersFollow(new)
    BY <1>3, <2>2, <2>3, <2>4 DEF RendersFollow
  <2> QED BY <1>3, <1>7, <2>3, <2>5, <2>6, <2>7 DEF s
<1>8. CASE n # PredictAt(r) /\ s.op = "rename"
  <2>1. s \in Renders
    BY <1>1, <1>8
  <2>2. PICK from \in {"1_incam", "2_global", "0_input_video"} : s.reads = {from}
    BY <1>8, <2>1, RenderFacts
  <2>3. /\ \A f \in Files \ {from, s.file} : new[f] = dir[f]
        /\ new[from] \in {dir[from], "absent"}
    <3>1. CASE new = After(dir, s)
      BY <1>1, <1>3, <1>8, <2>2, <3>1, AfterRename
    <3>2. CASE new \in Leftovers(dir, s)
      BY <1>1, <1>4, <1>8, <2>2, <3>2, LeftoversOf DEF StartsFile
    <3> QED BY <1>2, <3>1, <3>2
  <2>4. s.file \notin {"hmr4d_results", "1_incam", "2_global", "slam"} /\ s \notin PredictionLoaders
    BY <1>8, <2>1, RenderFacts DEF Preprocess
  <2>5. new["hmr4d_results"] = dir["hmr4d_results"] /\ new["slam"] = dir["slam"]
    BY <1>3, <2>2, <2>3, <2>4
  <2>6. /\ new["1_incam"] \in {dir["1_incam"], "absent"}
        /\ new["2_global"] \in {dir["2_global"], "absent"}
    BY <1>3, <2>2, <2>3, <2>4
  <2> QED BY <2>4, <2>5, <2>6 DEF RendersFollow, s
<1>9. CASE n # PredictAt(r) /\ s.op # "rename"
  <2>1. /\ \A f \in Files : f # s.file => new[f] = dir[f]
        /\ ~StartsFile(dir, s) => new = dir
    BY <1>1, <1>2, <1>9, AfterMake, LeftoversOf
  <2>2. new["hmr4d_results"] = dir["hmr4d_results"]
    BY <1>1, <1>3, <1>9, <2>1
  <2>3. StartsFile(dir, s) /\ s.file \in {"1_incam", "2_global"} => dir["hmr4d_results"] = "whole"
    BY <1>1, <1>5, <1>6, RenderFacts
  <2>4. RendersFollow(new)
    BY <1>3, <2>1, <2>2, <2>3 DEF RendersFollow
  <2>5. ASSUME s \in PredictionLoaders PROVE dir["hmr4d_results"] = "whole"
    <3>1. s \in Renders
      BY <1>1, <2>5
    <3>2. "hmr4d_results" \in s.reads /\ s.all = {}
          /\ (s.op = "load" \/ (s.op = "make" /\ s.file \in {"1_incam", "2_global"}))
      BY <2>5, <3>1, RenderFacts
    <3>3. CASE s.op = "load"
      BY <1>5, <1>6, <3>2, <3>3
    <3>4. CASE s.op = "make" /\ StartsFile(dir, s)
      BY <1>5, <1>6, <3>2, <3>4
    <3>5. CASE s.op = "make" /\ s.file \in {"1_incam", "2_global"} /\ ~StartsFile(dir, s)
      BY <3>2, <3>5 DEF StartsFile, RendersFollow
    <3> QED BY <3>2, <3>3, <3>4, <3>5
  <2> QED BY <1>1, <1>3, <2>1, <2>2, <2>4, <2>5 DEF s
<1> QED BY <1>7, <1>8, <1>9

\* What the data dict loads is whole when the prediction comes.
LEMMA DataLoaded ==
  ASSUME NEW r, NEW n \in 1 .. Len(Program(r)), NEW dir \in Directories,
         MayPass(dir, Program(r)[n])
  PROVE  LET new == After(dir, Program(r)[n])
         IN /\ n = 1 => new["0_input_video"] = "whole"
            /\ n \in 2 .. PredictAt(r) => new["0_input_video"] = dir["0_input_video"]
            /\ n = PredictAt(r) - 1 =>
                 \A f \in Preprocess : (f = "slam" => ~r.static_camera) => new[f] = "whole"
<1> DEFINE s == Program(r)[n]
<1>1. /\ s \in Stages /\ PredictAt(r) \in {6, 7}
      /\ n = 1 => s = CopyVideo
      /\ n = PredictAt(r) - 1 => s = LoadDataDict(r)
      /\ n \in 2 .. PredictAt(r) => s.file # "0_input_video"
      /\ n <= PredictAt(r) => s.op # "rename"
  BY NthStage
<1>2. MayPass(dir, s)
  OBVIOUS
<1>3. "0_input_video" \in Files /\ Preprocess \subseteq Files
  BY DEF Files, Videos
<1> HIDE DEF s
<1>4. ASSUME n = 1 PROVE After(dir, s)["0_input_video"] = "whole"
  <2>1. s = CopyVideo /\ s.file = "0_input_video" /\ s.op = "make" /\ s.reads = {} /\ s.all = {}
    BY <1>1, <1>4 DEF CopyVideo, Make
  <2>2. CASE StartsFile(dir, s)
    BY <1>1, <2>1, <2>2, AfterMake
  <2>3. CASE ~StartsFile(dir, s)
    BY <1>1, <1>3, <2>1, <2>3, AfterMake DEF StartsFile, Directories, FileState
  <2> QED BY <2>2, <2>3
<1>5. n \in 2 .. PredictAt(r) => After(dir, s)["0_input_video"] = dir["0_input_video"]
  BY <1>1, <1>3, AfterMake
<1>6. ASSUME n = PredictAt(r) - 1, NEW f \in Preprocess, f = "slam" => ~r.static_camera
      PROVE  After(dir, s)[f] = "whole"
  <2>1. s = LoadDataDict(r) /\ s.op = "load" /\ f \in s.reads
    BY <1>1, <1>6 DEF LoadDataDict, Load, Preprocess
  <2>2. After(dir, s) = dir
    BY <1>1, <2>1, AfterMake DEF StartsFile
  <2>3. Loadable(dir, f)
    BY <1>2, <2>1 DEF MayPass, Loads
  <2> QED BY <2>2, <2>3 DEF Loadable, Preprocess, Videos, VideoKinds
<1> QED BY <1>4, <1>5, <1>6 DEF s
=============================================================================
