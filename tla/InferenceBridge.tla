-------------------------- MODULE InferenceBridge --------------------------
(***************************************************************************)
(* What one execution of a job is asked to do and what the GVHMR process   *)
(* does with the files of the job's scratch directory: the request of the  *)
(* user, the cache keys made of it (gvhmr_runner/cache.py), the command of *)
(* the runner, and the program of the bridge (demo_with_skeleton.py and    *)
(* render_skeleton.py) as a sequence of stages.                            *)
(*                                                                         *)
(* The numbers in the files are left out.  What matters is which file a    *)
(* stage makes, that it leaves a file that is there already alone, and     *)
(* what it loads: loading a file that was left half written raises.        *)
(*                                                                         *)
(* A definition Foo_Bar is Foo with a plausible mistake.                   *)
(***************************************************************************)
EXTENDS Naturals, Sequences, FiniteSets

VideoKinds == {"mesh_incam", "mesh_global", "mesh_comparison", "skeleton_incam", "skeleton_only"}

\* A job request.  video_type is the text the user gave, split at its commas;
\* case and blanks make no difference and are left out.  f_mm numbers the values
\* that can be given; 0 is None.
Request == [static_camera : BOOLEAN, use_dpvo : BOOLEAN, f_mm : Nat, video_render : BOOLEAN,
            video_type : Seq(STRING)]

-----------------------------------------------------------------------------
(* Cache keys.                                                               *)

\* A sorted list is given by how often each item occurs in it.
Sorted(items) == [x \in {items[i] : i \in DOMAIN items} |->
                    Cardinality({i \in DOMAIN items : items[i] = x})]

NormalizeVideoType(type) ==
  LET items == SelectSeq(type, LAMBDA part : part # "")
  IN IF items = <<>> THEN Sorted(<<"none">>) ELSE Sorted(items)

\* For one video and one version of GVHMR.
CoreCacheKey(r) == <<r.static_camera, r.use_dpvo /\ ~r.static_camera, r.f_mm>>

RenderCacheKey(r) == <<CoreCacheKey(r), r.video_render, NormalizeVideoType(r.video_type)>>

-----------------------------------------------------------------------------
(* The command line, and how the bridge reads it.                            *)

NoArgument == <<>>

\* The runner passes --video_type only for something else than none.
VideoTypeArgument(r) ==
  LET type == NormalizeVideoType(r.video_type)
  IN IF r.video_render /\ type # Sorted(<<"none">>) THEN type ELSE NoArgument

\* An argument that is not passed defaults to all.
EnabledVideos(r) ==
  IF ~r.video_render THEN {}
  ELSE IF VideoTypeArgument(r) \in {NoArgument, Sorted(<<"all">>)} THEN VideoKinds
  ELSE DOMAIN VideoTypeArgument(r) \intersect VideoKinds

\* -s and --use_dpvo exclude each other.
CameraArgument(r) == IF r.static_camera THEN "-s" ELSE IF r.use_dpvo THEN "--use_dpvo" ELSE "none"

CoreArguments(r) == <<CameraArgument(r), r.f_mm>>

-----------------------------------------------------------------------------
(* The files of a job and the stages that make them.                         *)

Preprocess == {"bbx", "vitpose", "vit_features", "slam"}

Videos == VideoKinds \union {"0_input_video", "input", "1_incam", "2_global"}

Files == Preprocess \union Videos \union {"hmr4d_results", "joints"}

\* Make file out of reads, unless it is there: then keep is loaded.
Make(file, reads, keep) ==
  [op |-> "make", file |-> file, reads |-> reads, keep |-> keep, all |-> {}]

Load(reads) == [op |-> "load", file |-> "input", reads |-> reads, keep |-> {}, all |-> {}]

Rename(from, to) == [op |-> "rename", file |-> to, reads |-> {from}, keep |-> {}, all |-> {}]

CopyVideo == Make("0_input_video", {}, {"0_input_video"})

\* The camera's trajectory takes its own stage for a moving camera.
RunPreprocess(r) ==
  <<Make("bbx", {"0_input_video"}, {"bbx"}),
    Make("vitpose", {"0_input_video"}, {"vitpose"}),
    Make("vit_features", {"0_input_video"}, {})>>
  \o (IF r.static_camera THEN <<>> ELSE <<Make("slam", {"0_input_video"}, {})>>)

LoadDataDict_WithoutFeatures(r) ==
  Load({"0_input_video", "bbx", "vitpose"} \union (IF r.static_camera THEN {} ELSE {"slam"}))

LoadDataDict(r) ==
  Load({"0_input_video", "bbx", "vitpose", "vit_features"}
         \union (IF r.static_camera THEN {} ELSE {"slam"}))

\* Predicts from the data dict, which is in memory.
Predict == Make("hmr4d_results", {}, {})

RenderIncam == Make("1_incam", {"hmr4d_results", "0_input_video"}, {})

RenderGlobal == Make("2_global", {"hmr4d_results", "0_input_video"}, {})

\* Skipped when one of the two is missing.
MeshComparison ==
  LET meshes == {"mesh_incam", "mesh_global"}
  IN [Make("mesh_comparison", meshes, {}) EXCEPT !.all = meshes]

ComputeJointsOnce_Lazily == Load({"0_input_video"})

ComputeJointsOnce == Load({"hmr4d_results"})

RenderSkeletonIncam == Make("skeleton_incam", {"0_input_video"}, {})

RenderSkeletonOnly == Make("skeleton_only", {"0_input_video"}, {})

SaveJointsJson == Make("joints", {}, {})

If(wanted, stages) == IF wanted THEN stages ELSE <<>>

\* main(), for the videos enabled.
Program(r) ==
  LET on(kind) == kind \in EnabledVideos(r)
  IN <<CopyVideo>> \o RunPreprocess(r) \o <<LoadDataDict(r), Predict>>
       \o If(on("mesh_incam"), <<RenderIncam, Rename("1_incam", "mesh_incam")>>)
       \o If(on("mesh_global"), <<RenderGlobal, Rename("2_global", "mesh_global")>>)
       \o If(on("mesh_comparison"), <<MeshComparison>>)
       \o If(on("skeleton_incam") \/ on("skeleton_only"), <<ComputeJointsOnce>>)
       \o If(on("skeleton_incam"), <<RenderSkeletonIncam>>)
       \o If(on("skeleton_only"), <<RenderSkeletonOnly>>)
       \o If(on("skeleton_incam") \/ on("skeleton_only"), <<SaveJointsJson>>)
       \o <<Rename("0_input_video", "input")>>

-----------------------------------------------------------------------------
(* Executing a stage s on the files dir of one directory.                    *)

FileState == {"absent", "partial", "whole"}

Empty == [f \in Files |-> "absent"]

\* A video cut off may still be readable, as a shorter video.
Loadable(dir, f) == dir[f] = "whole" \/ (dir[f] = "partial" /\ f \in Videos)

\* The copy is opened, and made again if it has another number of frames than
\* the input.
StartsFile(dir, s) ==
  /\ s.op = "make"
  /\ \/ dir[s.file] = "absent" /\ \A f \in s.all : dir[f] # "absent"
     \/ s = CopyVideo /\ dir[s.file] = "partial"

\* What the stage loads.
Loads(dir, s) ==
  (IF s.op = "load" \/ StartsFile(dir, s) THEN s.reads ELSE {})
    \union (IF dir[s.file] # "absent" THEN s.keep ELSE {})

\* It may go through, and it may raise, which is a matter of luck for a video.
MayPass(dir, s)  == \A f \in Loads(dir, s) : Loadable(dir, f)
MayBreak(dir, s) == \E f \in Loads(dir, s) : dir[f] # "whole"

\* os.rename, when the source is there and the target is not.
Renamed(dir, s) ==
  LET from == CHOOSE f \in s.reads : TRUE
  IN IF dir[from] # "absent" /\ dir[s.file] = "absent"
     THEN [dir EXCEPT ![s.file] = dir[from], ![from] = "absent"]
     ELSE dir

\* The files after the stage; a file is no better than what it was made from.
After(dir, s) ==
  IF s.op = "rename" THEN Renamed(dir, s)
  ELSE IF StartsFile(dir, s)
       THEN [dir EXCEPT ![s.file] =
               IF \A f \in s.reads : dir[f] = "whole" THEN "whole" ELSE "partial"]
       ELSE dir

\* The files when the process is stopped in the middle of the stage.
Leftovers(dir, s) ==
  {dir} \union (IF StartsFile(dir, s) /\ MayPass(dir, s)
                THEN {[dir EXCEPT ![s.file] = "partial"]} ELSE {})

\* The kinds of files the runner picks up afterwards: everything there is.
Discovered(dir) == {f \in Files : dir[f] # "absent"}
=============================================================================
