---------------------------- MODULE SearchSpace ----------------------------
(***************************************************************************)
(* How a scanned network becomes the candidates of a P6 search: the        *)
(* Stage1 graph scan describes each dependency group and binds them into   *)
(* knobs, the bridge turns a knob into width anchors and software points,  *)
(* and the Pyramid adapter multiplies the points of the three stages.      *)
(* Three components, each reading what the one before it wrote: what one   *)
(* writes and the next one understands is what the properties are about.   *)
(* A dependency group is its stage, bucket, width and number of            *)
(* convolution groups.  A rate is an integer in ten-thousandths, as the    *)
(* scan rounds it.                                                         *)
(***************************************************************************)
EXTENDS Integers, Sequences, FiniteSets, FiniteSetsExt, SequencesExt, Functions

CONSTANTS
  Networks,  \* sets of dependency groups to scan: [bucket, stage, width, g]
  Hardware   \* capabilities to scan for: [int8Align, pack, legalBits]

Digits == 10000   \* round(..., 4)
Stages == {"stage1", "stage2", "stage3"}
Modes == {"fp16", "int8"}
None == <<>>

\* Tensor alignments are multiples of the packing factor (32 or 16, and 4, in the profiles).
SpaceAssumption ==
  \A c \in Hardware : /\ c.int8Align \in Nat \ {0} /\ c.pack \in Nat \ {0}
                      /\ c.int8Align % c.pack = 0 /\ c.legalBits \subseteq Modes

VARIABLES
  network, hw, dryRun,  \* what is scanned, for what, and whether the half-pruned network ran
  manifest,  \* None or <<[status, groups, knobs]>>: the scan's result
  space,     \* None or <<[keys -> candidate]>>: the bridge's result
  plan,      \* None or <<set of candidates>>: the adapter's result
  phase      \* "scan", "load", "plan", "done", or who refused: "unloadable", "unusable"

vars == <<network, hw, dryRun, manifest, space, plan, phase>>

----------------------------------------------------------------------------
(* graph_scan *)

Divides(d, n) == n % d = 0
Lcm(a, b) == (a * b) \div Max({d \in 1..a : Divides(d, a) /\ Divides(d, b)})
LcmOfAll(S) == FoldSet(Lcm, 1, S)

\* round(n / d, 4) in ten-thousandths, to even on a tie
Rounded(n, d) ==
  LET q == (2 * Digits * n + d) \div (2 * d)
      tie == Divides(2 * d, 2 * Digits * n + d)
  IN IF tie /\ q % 2 = 1 THEN q - 1 ELSE q

RoundTo(x) == IF x.g = 1 THEN hw.int8Align ELSE Lcm(hw.int8Align, x.g)
BuildAlign(x) == hw.pack * x.g
WidthFloor(x) == Min({RoundTo(x), x.width})

MaxRate(x) == Rounded(x.width - WidthFloor(x), x.width)

\* backbone and bev_encoder are bound by stage, everything else by bucket
SearchKey(x) ==
  IF x.bucket \in {"backbone", "bev_encoder"} THEN <<x.bucket, x.stage>> ELSE <<x.bucket, "none">>

\* Mutated form: the widest of the members' alignments serves them all.
WidestAlign(members) == Max({BuildAlign(x) : x \in members})

KnobAlign(members) == LcmOfAll({BuildAlign(x) : x \in members})

\* consolidate_search_groups
Knob(members) ==
  [widths |-> {x.width : x \in members},
   maxRate |-> Min({MaxRate(x) : x \in members}),
   roundTo |-> Max({RoundTo(x) : x \in members}),
   align |-> KnobAlign(members),
   grouped |-> \E x \in members : x.g > 1]

Knobs(groups) ==
  [key \in {SearchKey(x) : x \in groups} |-> Knob({x \in groups : SearchKey(x) = key})]

\* The bits of the knob's quantization unit, its bucket; the heads are locked to fp16.
UnitBits(key) == IF key[1] = "heads" THEN {"fp16"} ELSE hw.legalBits \cup {"fp16"}

----------------------------------------------------------------------------
(* stage1_bridge: one knob *)

\* KnobSpec.from_entry
KnobLoads(k) == \A w \in k.widths : Divides(k.roundTo, w)

BaseWidth(k) == Max(k.widths)

\* base * (1 - max_rate), up to a multiple of round_to
KnobFloor(k) ==
  LET units == -((-(BaseWidth(k) * (Digits - k.maxRate))) \div (Digits * k.roundTo))
  IN Max({k.roundTo, units * k.roundTo})

LegalWidths(k) == {w \in KnobFloor(k)..BaseWidth(k) : Divides(k.roundTo, w)}
BuildableWidths(k) == {w \in LegalWidths(k) : Divides(k.align, w)}

\* _select_representative_widths: the first, the middle one, the last
Representative(W) ==
  IF Cardinality(W) <= 3 THEN W
  ELSE {Min(W), CHOOSE w \in W : Cardinality({v \in W : v < w}) = Cardinality(W) \div 2, Max(W)}

Distance(a, b) == IF a < b THEN b - a ELSE a - b

\* The legal width nearest to base * (1 - q/4), the wider one on a tie.
LegacyWidth(k, q) ==
  CHOOSE w \in LegalWidths(k) : \A v \in LegalWidths(k) \ {w} :
    LET dw == Distance(4 * w, BaseWidth(k) * (4 - q))
        dv == Distance(4 * v, BaseWidth(k) * (4 - q))
    IN dw < dv \/ (dw = dv /\ w > v)

LegacyWidths(k) == {LegacyWidth(k, q) : q \in {r \in 1..3 : r * (Digits \div 4) <= k.maxRate}}

Traps(k) == LegalWidths(k) \ BuildableWidths(k)

\* The traps on either side of a buildable width.
CliffNeighbours(k) ==
  UNION {LET below == {t \in Traps(k) : t < w}
             above == {t \in Traps(k) : t > w}
         IN (IF below = {} THEN {} ELSE {Max(below)}) \cup (IF above = {} THEN {} ELSE {Min(above)})
         : w \in BuildableWidths(k)}

Roles(k) ==
  [baseline |-> {BaseWidth(k)}, legacy |-> LegacyWidths(k), cliff |-> CliffNeighbours(k),
   buildable |-> Representative(BuildableWidths(k)), coverage |-> Representative(LegalWidths(k))]

Priority(roles, w) ==
  IF w \in roles.baseline THEN 0 ELSE IF w \in roles.legacy THEN 1
  ELSE IF w \in roles.cliff THEN 2 ELSE IF w \in roles.buildable THEN 3 ELSE 4

MaxAnchors == 9

\* _width_anchors: the first nine by priority, wider ones first within one
WidthAnchors(k) ==
  IF LegalWidths(k) = {} THEN {}
  ELSE LET roles == Roles(k)
           all == roles.baseline \cup roles.legacy \cup roles.cliff \cup roles.buildable \cup roles.coverage
           rank == [w \in all |-> Priority(roles, w)]
       IN {w \in all :
             Cardinality({v \in all : rank[v] < rank[w] \/ (rank[v] = rank[w] /\ v > w)}) < MaxAnchors}

----------------------------------------------------------------------------
(* stage1_bridge: the search space *)

Policies(key) == UnitBits(key)

PointBuildable(k, w, mode) == mode # "int8" \/ Divides(k.align, w)

Points(key, k) ==
  {[width |-> w, mode |-> mode, buildable |-> PointBuildable(k, w, mode),
    status |-> IF PointBuildable(k, w, mode) THEN "active" ELSE "diagnostic_only"] :
     w \in WidthAnchors(k), mode \in Policies(key)}

\* _stage_from_search_group
DenseStage(key) ==
  CASE key[2] = "s0" -> "stage1" [] key[2] = "s1" -> "stage2" [] key[2] = "s2" -> "stage3"
    [] OTHER -> IF key[1] \in {"neck", "heads"} THEN key[1] ELSE "stage_unspecified"

Candidates(knobs) ==
  [key \in DOMAIN knobs |->
     [stage |-> DenseStage(key), anchors |-> WidthAnchors(knobs[key]), points |-> Points(key, knobs[key])]]

HasCliff(knobs) == \E key \in DOMAIN knobs : Traps(knobs[key]) # {}

\* _model_search_policy
SearchPolicy(knobs) ==
  IF (\E key \in DOMAIN knobs : knobs[key].grouped) /\ HasCliff(knobs) THEN "joint" ELSE "serial"

----------------------------------------------------------------------------
(* pyramid_search_space_adapter_v1 *)

StagePoints(cands, stage) == cands[CHOOSE key \in DOMAIN cands : cands[key].stage = stage].points

PointAccepted(p) ==
  \/ p.status = "active" /\ p.buildable
  \/ p.status = "diagnostic" /\ ~p.buildable

AdapterAccepts(cands) ==
  /\ {cands[key].stage : key \in DOMAIN cands} = Stages
  /\ Cardinality(DOMAIN cands) = 3
  /\ \A s \in Stages : StagePoints(cands, s) # {} /\ \A p \in StagePoints(cands, s) : PointAccepted(p)

ActiveWidths(cands, stage, mode) ==
  {p.width : p \in {q \in StagePoints(cands, stage) : q.status = "active" /\ q.mode = mode}}

\* The combinations of one precision; none if a stage lacks it.
Combinations(cands, mode) ==
  ActiveWidths(cands, "stage1", mode) \X ActiveWidths(cands, "stage2", mode) \X ActiveWidths(cands, "stage3", mode)

CandidatePlan(cands) == UNION {{[width |-> w, mode |-> m] : w \in Combinations(cands, m)} : m \in Modes}

----------------------------------------------------------------------------
(* The three steps *)

Init ==
  /\ network \in Networks /\ hw \in Hardware /\ dryRun \in {"ok", "fail"}
  /\ manifest = None /\ space = None /\ plan = None
  /\ phase = "scan"

Scan ==
  /\ phase = "scan"
  /\ manifest' = <<[status |-> IF dryRun = "ok" THEN "ok" ELSE "partial",
                    groups |-> network, knobs |-> Knobs(network)]>>
  /\ phase' = "load"
  /\ UNCHANGED <<network, hw, dryRun, space, plan>>

\* SpaceSpec.from_manifest and stage2_search_space
Load ==
  /\ phase = "load"
  /\ LET knobs == manifest[1].knobs
         loads == manifest[1].status = "ok" /\ \A key \in DOMAIN knobs : KnobLoads(knobs[key])
     IN /\ space' = IF loads THEN <<[candidates |-> Candidates(knobs), policy |-> SearchPolicy(knobs)]>> ELSE None
        /\ phase' = IF loads THEN "plan" ELSE "unloadable"
  /\ UNCHANGED <<network, hw, dryRun, manifest, plan>>

\* build_pyramid_candidate_plan
ExpandPlan ==
  /\ phase = "plan"
  /\ LET cands == space[1].candidates
         accepts == AdapterAccepts(cands) /\ CandidatePlan(cands) # {}
     IN /\ plan' = IF accepts THEN <<CandidatePlan(cands)>> ELSE None
        /\ phase' = IF accepts THEN "done" ELSE "unusable"
  /\ UNCHANGED <<network, hw, dryRun, manifest, space>>

Next == Scan \/ Load \/ ExpandPlan

Spec == Init /\ [][Next]_vars

----------------------------------------------------------------------------
(* Properties *)

\* The state has its types; every dependency group is in the knob of its key and in no other.
TypeOK ==
  /\ phase \in {"scan", "load", "plan", "done", "unloadable", "unusable"}
  /\ manifest # None =>
       \A key \in DOMAIN manifest[1].knobs :
         /\ manifest[1].knobs[key].maxRate \in 0..(Digits - 1)
         /\ manifest[1].knobs[key].widths # {}
  /\ space # None => \A key \in DOMAIN space[1].candidates :
       space[1].candidates[key].stage \in Stages \cup {"neck", "heads", "stage_unspecified"}

Members(key) == {x \in manifest[1].groups : SearchKey(x) = key}

\* A knob's anchors hold its full width, are at most nine, and each of them prunes no member by
\* more than the rate the scan allows the tightest of them, up to the scan's rounding.
AnchorsStayInRange ==
  space # None => \A key \in DOMAIN space[1].candidates :
    LET anchors == space[1].candidates[key].anchors
        base == Max({x.width : x \in Members(key)})
    IN /\ base \in anchors /\ Cardinality(anchors) <= 9
       /\ \A w \in anchors, x \in Members(key) :
            (base - w) * x.width * Digits <= ((x.width - WidthFloor(x)) * Digits + x.width) * base

\* A width offered for int8 can be packed by every member of the knob, each with its own number
\* of convolution groups: the scan combines the members' alignments, the bridge tests the result.
IntEightBuildsInEveryMember ==
  space # None => \A key \in DOMAIN space[1].candidates :
    \A p \in space[1].candidates[key].points :
      p.mode = "int8" /\ p.status = "active" =>
        \A x \in Members(key) : Divides(hw.pack * x.g, p.width)

\* The cap on anchors never leaves out int8 altogether: a knob that may be int8 and has a legal
\* width every member can pack offers such a width.
IntEightIsOffered ==
  space # None => \A key \in DOMAIN space[1].candidates :
    /\ "int8" \in UnitBits(key)
    /\ BuildableWidths(manifest[1].knobs[key]) # {}
    => \E p \in space[1].candidates[key].points : p.mode = "int8" /\ p.status = "active"

\* A model searched serially has no trap: all its int8 points can be built.
SerialHasNoTrap ==
  space # None /\ space[1].policy = "serial" =>
    \A key \in DOMAIN space[1].candidates : \A p \in space[1].candidates[key].points : p.buildable

\* In an accepted plan every anchor of every stage is used in fp16 and, if the hardware has it, in
\* int8: no stage loses one of its widths to the product.
AnchorsReachThePlan ==
  plan # None => \A key \in DOMAIN space[1].candidates :
    LET c == space[1].candidates[key]
        at == CASE c.stage = "stage1" -> 1 [] c.stage = "stage2" -> 2 [] c.stage = "stage3" -> 3
    IN \A w \in c.anchors, m \in hw.legalBits \cup {"fp16"} :
         \E row \in plan[1] : row.width[at] = w /\ row.mode = m

\* What is searched can be built: anchors in the range of every member, int8 where all members can
\* be packed and wherever one can, no trap in a serial search, and none of it lost in the plan.
SpaceIsBuildable ==
  /\ AnchorsStayInRange /\ IntEightBuildsInEveryMember /\ IntEightIsOffered
  /\ SerialHasNoTrap /\ AnchorsReachThePlan
=============================================================================
