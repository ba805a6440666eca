----------------------------- MODULE StrainGraph -----------------------------
(***************************************************************************)
(* GetStrainGraph once the beatmap is loaded (src/service/graph.rs): the   *)
(* strain series of rosu-pp are resampled to a fixed number of points, the *)
(* axes are fitted to them, and every series is drawn on a surface of the  *)
(* requested size, which is encoded as a PNG.                              *)
(*                                                                         *)
(* Strains are integers, positive when the code's are above EPSILON. Times *)
(* are in sections of a beatmap (section_len). A resampled value is scaled *)
(* by NEW_STRAIN_COUNT - 1 and a time by NEW_STRAIN_COUNT times that, so   *)
(* that both stay integers; the code's f64 are exact here. The series of a *)
(* beatmap have a strain per section each, or none at all. Whatever        *)
(* plotters and skia do may fail, with GraphRendering; colours, fonts and  *)
(* labels are left out.                                                    *)
(***************************************************************************)
EXTENDS Integers, Sequences, FiniteSetsExt

CONSTANTS
    NEW_STRAIN_COUNT,
    U32,                            \* 2^32
    DEFAULT_WIDTH, DEFAULT_HEIGHT,
    SizeArg,                        \* the widths and heights of requests
    Strains                         \* what Difficulty::strains can return

(* The series of each mode, in the order in which they are drawn. *)
SeriesOf ==
    [osu   |-> <<"aim", "aim_no_sliders", "speed", "flashlight">>,
     taiko |-> <<"stamina", "single_color_stamina", "color", "rhythm", "reading">>,
     catch |-> <<"movement">>,
     mania |-> <<"strains">>]

(* The series that is counted. *)
Leading == [osu |-> "aim", taiko |-> "color", catch |-> "movement", mania |-> "strains"]

Names(mode) == {SeriesOf[mode][k] : k \in DOMAIN SeriesOf[mode]}

ASSUME GraphAssumption ==
    /\ NEW_STRAIN_COUNT \in Nat
    /\ NEW_STRAIN_COUNT > 2
    /\ U32 \in Nat
    /\ {DEFAULT_WIDTH, DEFAULT_HEIGHT} \subseteq 1 .. U32 \div 2 - 1
    /\ SizeArg \subseteq 0 .. U32 - 1
    /\ \A s \in Strains :
          /\ s.mode \in DOMAIN SeriesOf
          /\ s.series \in [Names(s.mode) -> Seq(Int)]

VARIABLES
    args,       \* width and height of the request
    raw,        \* mode and series of the beatmap
    stage,
    count,      \* strains_count: the sections of the beatmap
    curves,     \* the resampled series
    top,        \* max_strain: the end of the y axis
    surface,    \* its size, as i32
    drawn,      \* the series that are on it
    answer

graphVars == <<args, raw, stage, count, curves, top, surface, drawn, answer>>

GraphInit ==
    /\ args \in [width : SizeArg, height : SizeArg]
    /\ raw \in Strains
    /\ stage = "strains"
    /\ count = 0
    /\ curves = [name \in Names(raw.mode) |-> <<>>]
    /\ top = 0
    /\ surface = [width |-> 0, height |-> 0]
    /\ drawn = <<>>
    /\ answer = "none"

Answer(what) == stage' = "done" /\ answer' = what

-----------------------------------------------------------------------------
(***************************************************************************)
(* GraphStrains::new                                                       *)
(***************************************************************************)

(* aim_no_sliders becomes what the sliders contribute to the aim. *)
Adjusted(name) ==
    LET s == raw.series[name]
        aim == raw.series.aim
    IN  IF name = "aim_no_sliders"
        THEN [k \in DOMAIN s |-> IF k <= Len(aim) THEN aim[k] - s[k] ELSE s[k]]
        ELSE s

NearestStrain(s, i) ==
    s[(i * Len(s)) \div NEW_STRAIN_COUNT + 1] * (NEW_STRAIN_COUNT - 1)

(* create_curve: NEW_STRAIN_COUNT samples of the line through the strains, at
   equal distances from the first strain to the last. Sample i is at
   i * (n - 1) / (NEW_STRAIN_COUNT - 1), between two strains. The line is
   enterpolation's, which refuses to be built from fewer than two strains
   only. *)
Sample(s, i) ==
    LET span == NEW_STRAIN_COUNT - 1
        left == (i * (Len(s) - 1)) \div span
        rest == (i * (Len(s) - 1)) % span
    IN  IF rest = 0 THEN s[left + 1] * span
        ELSE s[left + 1] * (span - rest) + s[left + 2] * rest

CurveOrNothing(s) ==
    IF s = <<>> THEN <<>> ELSE [k \in 1 .. NEW_STRAIN_COUNT |-> Sample(s, k - 1)]

Curve(s) ==
    [k \in 1 .. NEW_STRAIN_COUNT |-> IF s = <<>> THEN 0 ELSE Sample(s, k - 1)]

Counted == Len(raw.series[Leading[raw.mode]])

NoSections ==
    /\ stage = "strains"
    /\ Counted = 0
    /\ Answer("NoStrainData")
    /\ UNCHANGED <<args, raw, count, curves, top, surface, drawn>>

CountTheSamples ==
    /\ stage = "strains"
    /\ Counted # 0
    /\ stage' = "smooth"
    /\ count' = NEW_STRAIN_COUNT
    /\ curves' = [name \in Names(raw.mode) |-> Curve(Adjusted(name))]
    /\ UNCHANGED <<args, raw, top, surface, drawn, answer>>

Smooth ==
    /\ stage = "strains"
    /\ Counted # 0
    /\ stage' = "smooth"
    /\ count' = Counted
    /\ curves' = [name \in Names(raw.mode) |-> Curve(Adjusted(name))]
    /\ UNCHANGED <<args, raw, top, surface, drawn, answer>>

-----------------------------------------------------------------------------
(***************************************************************************)
(* render_strain_graph                                                     *)
(***************************************************************************)

(* calculate_max_strain walks the series side by side and stops at the end
   of the shortest. *)
MaxStrain ==
    LET shortest == Min({Len(curves[name]) : name \in DOMAIN curves})
    IN  Max({0} \cup {curves[name][k] : name \in DOMAIN curves, k \in 1 .. shortest})

Flat ==
    /\ stage = "smooth"
    /\ MaxStrain <= 0
    /\ Answer("NoStrainData")
    /\ UNCHANGED <<args, raw, count, curves, top, surface, drawn>>

FitAxes ==
    /\ stage = "smooth"
    /\ MaxStrain > 0
    /\ top' = MaxStrain
    /\ stage' = "surface"
    /\ UNCHANGED <<args, raw, count, curves, surface, drawn, answer>>

AsI32(n) == IF n < U32 \div 2 THEN n ELSE n - U32

Size == [width  |-> IF args.width = 0 THEN DEFAULT_WIDTH ELSE args.width,
         height |-> IF args.height = 0 THEN DEFAULT_HEIGHT ELSE args.height]

SurfaceSize == [width |-> AsI32(Size.width), height |-> AsI32(Size.height)]

MakeAnySurface ==
    /\ stage = "surface"
    /\ surface' = SurfaceSize
    /\ stage' = "background"
    /\ UNCHANGED <<args, raw, count, curves, top, drawn, answer>>

(* skia makes no surface of a size that is not positive. *)
MakeSurface ==
    /\ stage = "surface"
    /\ SurfaceSize.width > 0
    /\ SurfaceSize.height > 0
    /\ surface' = SurfaceSize
    /\ stage' = "background"
    /\ UNCHANGED <<args, raw, count, curves, top, drawn, answer>>

(* A background that cannot be decoded is none; one that can be decoded is
   resized, and not drawn either. *)
DrawBackground ==
    /\ stage = "background"
    /\ stage' = "series"
    /\ UNCHANGED <<args, raw, count, curves, top, surface, drawn, answer>>

DrawSeries ==
    /\ stage = "series"
    /\ Len(drawn) < Len(SeriesOf[raw.mode])
    /\ drawn' = Append(drawn, SeriesOf[raw.mode][Len(drawn) + 1])
    /\ UNCHANGED <<args, raw, stage, count, curves, top, surface, answer>>

Encode ==
    /\ stage = "series"
    /\ Len(drawn) = Len(SeriesOf[raw.mode])
    /\ Answer("PNG")
    /\ UNCHANGED <<args, raw, count, curves, top, surface, drawn>>

(* No memory for the surface, or an error of plotters or of the encoder. *)
RenderingFails ==
    /\ stage \in {"surface", "background", "series"}
    /\ Answer("GraphRendering")
    /\ UNCHANGED <<args, raw, count, curves, top, surface, drawn>>

Rendered == stage = "done" /\ UNCHANGED graphVars

GraphNext ==
    \/ NoSections \/ Smooth \/ Flat \/ FitAxes
    \/ MakeSurface \/ DrawBackground \/ DrawSeries \/ Encode
    \/ RenderingFails \/ Rendered

GraphSpec == GraphInit /\ [][GraphNext]_graphVars

-----------------------------------------------------------------------------

GraphTypeOK ==
    /\ stage \in {"strains", "smooth", "surface", "background", "series", "done"}
    /\ count \in 0 .. Counted
    /\ DOMAIN curves = Names(raw.mode)
    /\ \A name \in Names(raw.mode) :
          curves[name] \in Seq(Int) /\ Len(curves[name]) \in {0, NEW_STRAIN_COUNT}
    /\ top \in Nat
    /\ answer \in {"none", "NoStrainData", "GraphRendering", "PNG"}

(* No series reaches above the y axis, and a beatmap is called flat only if
   every series of it is, even if some series are empty and end before the
   others (graph.rs:66-70, 126-163: the walk over all series stops at the
   shortest). *)
TopIsTheLargestSample ==
    stage \notin {"strains", "smooth"} =>
        \A name \in DOMAIN curves : \A k \in DOMAIN curves[name] : curves[name][k] <= top

(* A resampled series starts and ends as the series does and lies within it,
   whether it is stretched or, for a long beatmap, thinned out
   (graph.rs:347-362). *)
CurvesFollowTheStrains ==
    \A name \in DOMAIN curves :
        LET s == Adjusted(name)
            scaled == {s[k] * (NEW_STRAIN_COUNT - 1) : k \in DOMAIN s}
            c == curves[name]
        IN  s # <<>> /\ c # <<>> =>
                /\ c[1] = s[1] * (NEW_STRAIN_COUNT - 1)
                /\ c[NEW_STRAIN_COUNT] = s[Len(s)] * (NEW_STRAIN_COUNT - 1)
                /\ \A k \in DOMAIN c : Min(scaled) <= c[k] /\ c[k] <= Max(scaled)

(* The times at which the k-th sample of the counted series is drawn
   (`factor`), and at which it was taken. *)
DrawnAt(k) == (k - 1) * count * (NEW_STRAIN_COUNT - 1)

TakenAt(k) == (k - 1) * (Counted - 1) * NEW_STRAIN_COUNT

Distance(a, b) == IF a < b THEN b - a ELSE a - b

(* factor (graph.rs:221) stretches the samples over as many sections as there
   are strains, while they were taken between the first strain and the last:
   a sample is drawn off its time by at most the part of a section, or of a
   sample, by which the two counts differ. *)
DrawnOnTime ==
    stage \in {"surface", "background", "series"} =>
        \A k \in 1 .. NEW_STRAIN_COUNT :
            Distance(DrawnAt(k), TakenAt(k))
                <= Distance(NEW_STRAIN_COUNT, Counted) * (NEW_STRAIN_COUNT - 1)

(* A PNG has the size that was asked for, or the default, and each series of
   the mode is drawn on it once; a size that does not fit an i32 is answered
   with an error. *)
PngIsComplete ==
    answer = "PNG" =>
        /\ surface = Size
        /\ drawn = SeriesOf[raw.mode]

=============================================================================
