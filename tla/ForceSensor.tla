----------------------------- MODULE ForceSensor -----------------------------
(***************************************************************************)
(* The force sensor of the punching bag (apps/gk_bag/src/force_sensor.c)   *)
(* and the turn of the main task that uses it (apps/gk_bag/src/main.c):    *)
(* calibration, a median filter over the last five samples, a moving       *)
(* average over the last five medians, the decision whether the result is  *)
(* a hit, the statistics of the session and the panel that shows them.     *)
(*                                                                         *)
(* Forces are integers in twentieths of a newton.  The six channels are    *)
(* filtered alike and independently; two are kept, one horizontal, fx, and *)
(* the vertical fz that carries gravity.  The torques only place the hit   *)
(* point on the bag.  The sensor is external: any sample of Raw may come.  *)
(***************************************************************************)
EXTENDS Integers, Sequences, FiniteSets

CONSTANTS Raw,               \* samples the sensor delivers
          Rest,              \* the one of the bag at rest: gravity on fz
          MaxReads,          \* bound: samples read
          MaxCalibrations    \* bound: calibrations

Channels == {"fx", "fz"}
Samples == [Channels -> Int]

ASSUME ForceSensorAssumption ==
    /\ Raw \subseteq Samples
    /\ Rest \in Raw
    /\ MaxReads \in Nat
    /\ MaxCalibrations \in Nat

Gravity == 196                \* 9.81 N
FORCE_THRESHOLD == 100        \* 5 N
Window == 5                   \* length of both rings
cal_samples == 100

VARIABLES
    offset,             \* g_sensor_cal: the offset of each channel
    history,            \* ring of calibrated samples
    smoothed_history,   \* ring of medians
    history_index, history_count,
    hit_count, max_force_session,
    panel,              \* force, count and maximum that the labels show
    data,               \* history: what the last read returned
    samples,            \* history: every calibrated sample, in order
    calibrations        \* history: how many calibrations were made

ring == <<history, smoothed_history, history_index, history_count>>
stats == <<hit_count, max_force_session, panel>>
vars == <<offset, ring, stats, data, samples, calibrations>>

Zero == [c \in Channels |-> 0]
Slots == 0 .. Window - 1

\* gk_sensor_init, called before the main task enters its loop.
Init ==
    /\ offset = [fx |-> 0, fz |-> Gravity]
    /\ history = [i \in Slots |-> Zero]
    /\ smoothed_history = [i \in Slots |-> Zero]
    /\ history_index = 0
    /\ history_count = 0
    /\ hit_count = 0
    /\ max_force_session = 0
    /\ panel = [force |-> 0, count |-> 0, max |-> 0]
    /\ data = Zero
    /\ samples = << >>
    /\ calibrations = 0

-----------------------------------------------------------------------------
(* The filters *)

\* Neighbours in the wrong order are exchanged.
Swapped(a, j) == IF a[j] > a[j + 1] THEN [a EXCEPT ![j] = a[j + 1], ![j + 1] = a[j]] ELSE a

\* The bubble sort of calculate_median: a pass makes n comparisons, every pass one less
\* than the one before.
Pass(a, n) == LET p[j \in 0..n] == IF j = 0 THEN a ELSE Swapped(p[j - 1], j) IN p[n]
Sorted(a, n) == LET s[i \in 0..n - 1] == IF i = 0 THEN a ELSE Pass(s[i - 1], n - i) IN s[n - 1]

\* calculate_median: sorts, and takes the upper of two middle values.
Median(values, count) == Sorted(values, count)[count \div 2 + 1]

\* Mutant of SmoothSlot: the slot after the one the sample went to.
SmoothSlotNext(index) == index % Window

\* The slot of the new median, from history_index after its increment.
SmoothSlot(index) == (index - 1) % Window

\* Mutant of CountSample: the fifth sample is not counted.
CountSampleFour(count) == IF count < Window - 1 THEN count + 1 ELSE count

\* The samples in the ring, one more of them.
CountSample(count) == IF count < Window THEN count + 1 ELSE count

Total(f, n) == LET s[i \in 0..n] == IF i = 0 THEN 0 ELSE s[i - 1] + f[i - 1] IN s[n]

\* The rings and the result of gk_sensor_read_data for one raw sample.
ReadData(raw) ==
    LET sample == [c \in Channels |-> raw[c] - offset[c]]
        index == history_index + 1
        count == CountSample(history_count)
        hist == [history EXCEPT ![history_index % Window] = sample]
        median == [c \in Channels |-> Median([i \in 1..count |-> hist[i - 1][c]], count)]
        smoothed == [smoothed_history EXCEPT ![SmoothSlot(index)] = median]
    IN /\ history' = hist
       /\ history_index' = index
       /\ history_count' = count
       /\ smoothed_history' = smoothed
       /\ data' = [c \in Channels |-> Total([i \in Slots |-> smoothed[i][c]], count) \div count]
       /\ samples' = Append(samples, sample)

-----------------------------------------------------------------------------
(* Hits and statistics *)

\* The square of the magnitude: comparing squares spares the square root.
NormSq(f) == f.fx * f.fx + f.fz * f.fz

IsHit(f) == NormSq(f) >= FORCE_THRESHOLD * FORCE_THRESHOLD

\* The statistics at the end of gk_calculate_hit_point.
CountHit(sq) ==
    /\ hit_count' = hit_count + 1
    /\ max_force_session' = IF sq > max_force_session THEN sq ELSE max_force_session

\* gk_gui_update_hit_visual reads the statistics back for its labels.
UpdateHitVisual(sq) == panel' = [force |-> sq, count |-> hit_count', max |-> max_force_session']

\* One turn of the main task's loop.
MainTurn(raw) ==
    /\ Len(samples) < MaxReads
    /\ ReadData(raw)
    /\ \/ IsHit(data') /\ CountHit(NormSq(data')) /\ UpdateHitVisual(NormSq(data'))
       \/ ~IsHit(data') /\ UNCHANGED stats
    /\ UNCHANGED <<offset, calibrations>>

\* Mutant of ResetStats: forgets the maximum.
ResetStatsCount == hit_count' = 0 /\ UNCHANGED max_force_session

ResetStats == hit_count' = 0 /\ max_force_session' = 0

\* gk_sensor_reset_session_stats: the panel keeps what it shows.
ResetSession ==
    /\ ResetStats
    /\ UNCHANGED <<offset, ring, panel, data, samples, calibrations>>

\* gk_sensor_calibrate: the mean of 100 samples, of which all but one are at
\* rest; gravity is added back to fz.  The rings keep samples of the old offsets.
Calibrate(raw) ==
    /\ calibrations < MaxCalibrations
    /\ calibrations' = calibrations + 1
    /\ LET mean == [c \in Channels |-> ((cal_samples - 1) * Rest[c] + raw[c]) \div cal_samples]
       IN offset' = [mean EXCEPT !.fz = @ + Gravity]
    /\ UNCHANGED <<ring, stats, data, samples>>

Next ==
    \/ \E raw \in Raw : MainTurn(raw) \/ Calibrate(raw)
    \/ ResetSession

Spec == Init /\ [][Next]_vars

-----------------------------------------------------------------------------
(* Properties *)

\* Types; and the ring counts the samples read, up to its length.
TypeOK ==
    /\ offset \in Samples
    /\ history \in [Slots -> Samples]
    /\ smoothed_history \in [Slots -> Samples]
    /\ history_index \in 0..MaxReads
    /\ history_count = IF history_index < Window THEN history_index ELSE Window
    /\ hit_count \in Nat
    /\ max_force_session \in Nat
    /\ panel \in [force : Nat, count : Nat, max : Nat]
    /\ data \in Samples
    /\ samples \in Seq(Samples)
    /\ calibrations \in 0..MaxCalibrations

\* The positions of the last five samples up to the k-th.
Latest(k) == {i \in 1..k : i > k - Window}

\* v is the median of channel c over those: of n values, the one with at most
\* half of them, rounded down, below it, and more than that not above it.
IsMedian(v, c, k) ==
    LET half == Cardinality(Latest(k)) \div 2
    IN /\ Cardinality({i \in Latest(k) : samples[i][c] < v}) <= half
       /\ Cardinality({i \in Latest(k) : samples[i][c] <= v}) > half

MedianOf(c, k) == CHOOSE v \in {samples[i][c] : i \in Latest(k)} : IsMedian(v, c, k)

\* gk_sensor_read_data returns the mean of the last five medians, each of the
\* five samples before it, from the first sample on and across every wrap of
\* the two rings: neither ring ever mixes in a slot of another age.
FilterMatchesReference ==
    LET n == Len(samples)
    IN n > 0 => \A c \in Channels :
         LET m == [k \in 0..n |-> IF k \in Latest(n) THEN MedianOf(c, k) ELSE 0]
         IN data[c] = Total(m, n + 1) \div Cardinality(Latest(n))

\* The session's two statistics agree with each other and with the panel: no
\* maximum without a hit, and after a hit the panel shows the current count and
\* maximum, which is no less than the force shown beside it.
StatsConsistent ==
    /\ hit_count = 0 <=> max_force_session = 0
    /\ hit_count > 0 => /\ panel.count = hit_count
                        /\ panel.max = max_force_session
                        /\ panel.force <= max_force_session
=============================================================================
