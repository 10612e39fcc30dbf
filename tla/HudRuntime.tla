---------------------------- MODULE HudRuntime ----------------------------
(***************************************************************************)
(* The process-wide part of the HUD: HudRuntime (src/src/hud/              *)
(* hud_runtime.cpp) keeps the registered swapchains under lifecycle_mutex  *)
(* and names one of them primary; MetricSampler (hud_metrics.cpp) is the   *)
(* thread that samples the sensors while a swapchain is registered;        *)
(* SnapshotPublication (hud_types.hpp) carries its samples to the threads  *)
(* that present, with a generation counter that is odd during a write.     *)
(*                                                                         *)
(* The thread that works for a swapchain is named by it: pc[s] says where  *)
(* it is.  A sample is its number, stored in every one of its words; which *)
(* metrics it holds is left out, and so is the frame tracker.              *)
(***************************************************************************)
EXTENDS Naturals, Sequences, FiniteSets

CONSTANTS
    Swapchains,     \* the swapchains the HUD is asked to draw on
    Area,           \* Area[s]: the pixels of swapchain s
    MaxSamples,     \* bound: samples the sampler publishes
    WeakOrder       \* TRUE: memory as C++ and ARM order it.  A relaxed load of
                    \* a word may be performed after the acquire load of the
                    \* generation that follows it, and a relaxed store of a
                    \* word may be seen before the odd generation that
                    \* precedes it.  FALSE: every access in program order

ASSUME HudAssumption ==
    /\ "none" \notin Swapchains
    /\ Area \in [Swapchains -> Nat]
    /\ MaxSamples \in Nat \ {0}
    /\ WeakOrder \in BOOLEAN

VARIABLES
    pc,          \* pc[s]: where the thread that works for s is
    records,     \* swapchains: the registered swapchains, oldest first
    primary,     \* primary_id, or "none"
    lifecycle,   \* lifecycle_mutex: the swapchain whose thread holds it
    sampler,     \* the sampler: pc, stopping, and whether sources are open
    generation,  \* the generation counter of the publication
    words,       \* the words of the published sample
    reading      \* reading[s]: a read of the publication in progress

runtimeVars == <<pc, records, primary, lifecycle, sampler, generation, words,
                 reading>>

Words == {1, 2}      \* two words tell a whole sample from a torn one
Loads == Words \union {0}        \* 0: the second load of the generation
Nobody == "none"

NotReading == [before |-> 0, left |-> {}, after |-> 0, copy |-> [w \in Words |-> 0]]

InitRuntime ==
    /\ records = <<>>
    /\ primary = Nobody
    /\ lifecycle = Nobody
    /\ sampler = [pc |-> "none", stopping |-> FALSE, sources |-> FALSE]
    /\ generation = 0
    /\ words = [w \in Words |-> 0]
    /\ reading = [s \in Swapchains |-> NotReading]

-----------------------------------------------------------------------------
(* Registration.                                                           *)

\* choose_primary_locked: the largest area, the latest registered among equals.
Primary(recs) ==
    IF recs = <<>> THEN Nobody
    ELSE LET Beats(i, j) ==
                 \/ Area[recs[i]] > Area[recs[j]]
                 \/ Area[recs[i]] = Area[recs[j]] /\ i >= j
         IN recs[CHOOSE i \in DOMAIN recs : \A j \in DOMAIN recs : Beats(i, j)]

\* MetricSampler::start: a thread that exists is kept; opening the sources or
\* creating the thread may fail, and then neither remains.
Started ==
    IF sampler.pc # "none" THEN {sampler}
    ELSE { [pc |-> "reading", stopping |-> FALSE, sources |-> TRUE],
           [pc |-> "none", stopping |-> FALSE, sources |-> FALSE] }

\* register_swapchain: the record, the primary and, for the first swapchain,
\* the sampler thread, in one critical section; the record may not be had.
RegisterSwapchain(s, registered, refused) ==
    /\ pc[s] = "register"
    /\ lifecycle = Nobody
    /\ \/ /\ records' = Append(records, s)
          /\ primary' = Primary(records')
          /\ \/ records = <<>> /\ sampler' \in Started
             \/ records # <<>> /\ UNCHANGED sampler
          /\ pc' = [pc EXCEPT ![s] = registered]
       \/ /\ pc' = [pc EXCEPT ![s] = refused]
          /\ UNCHANGED <<records, primary, sampler>>
    /\ UNCHANGED <<lifecycle, generation, words, reading>>

\* The records but that of s: every swapchain registers under an id of its own.
Without(s) ==
    IF \A k \in DOMAIN records : records[k] # s THEN records
    ELSE LET gone == CHOOSE k \in DOMAIN records : records[k] = s
         IN  [k \in 1 .. Len(records) - 1 |-> records[IF k < gone THEN k ELSE k + 1]]

\* unregister_swapchain: the last swapchain asks the sampler to stop, and
\* keeps lifecycle_mutex until it has.
UnregisterSwapchain(s, unregistered) ==
    /\ pc[s] = "unregister"
    /\ lifecycle = Nobody
    /\ records' = Without(s)
    /\ primary' = Primary(records')
    /\ \/ /\ records' # <<>>
          /\ pc' = [pc EXCEPT ![s] = unregistered]
          /\ UNCHANGED <<lifecycle, sampler>>
       \/ /\ records' = <<>>
          /\ lifecycle' = s
          /\ sampler' = [sampler EXCEPT !.stopping = TRUE]
          /\ pc' = [pc EXCEPT ![s] = "notify"]
    /\ UNCHANGED <<generation, words, reading>>

\* stop: notify_all is called without wait_mutex, so a sampler that has seen
\* no stop and is not asleep yet does not hear it.
NotifySampler(s) ==
    /\ pc[s] = "notify"
    /\ sampler' = IF sampler.pc = "asleep" THEN [sampler EXCEPT !.pc = "woken"]
                                           ELSE sampler
    /\ pc' = [pc EXCEPT ![s] = "join"]
    /\ UNCHANGED <<records, primary, lifecycle, generation, words, reading>>

\* stop: the thread is joined, then its sources are closed.
JoinSampler(s, unregistered) ==
    /\ pc[s] = "join"
    /\ sampler.pc \in {"none", "done"}
    /\ sampler' = [sampler EXCEPT !.pc = "none", !.sources = FALSE]
    /\ lifecycle' = Nobody
    /\ pc' = [pc EXCEPT ![s] = unregistered]
    /\ UNCHANGED <<records, primary, generation, words, reading>>

-----------------------------------------------------------------------------
(* The sampler thread.                                                     *)

SamplerTo(next) == sampler' = [sampler EXCEPT !.pc = next]

\* sample_once has read its sources; publish() makes the generation odd.
\* Past MaxSamples a sample repeats the published one.
PublishBegins ==
    /\ sampler.pc = "reading"
    /\ IF generation < 2 * MaxSamples
       THEN generation' = generation + 1 /\ SamplerTo("storing")
       ELSE SamplerTo("published") /\ UNCHANGED generation
    /\ UNCHANGED <<pc, records, primary, lifecycle, words, reading>>

\* The number of the sample that is being written, or will be next.
NextSample == generation \div 2 + 1

\* publish: one word of the sample, in any order.  The increment that makes
\* the generation odd does not hold back the relaxed stores after it.
StoreWord ==
    /\ \/ sampler.pc = "storing"
       \/ WeakOrder /\ sampler.pc = "reading" /\ generation < 2 * MaxSamples
    /\ \E w \in Words :
          /\ words[w] # NextSample
          /\ words' = [words EXCEPT ![w] = NextSample]
    /\ UNCHANGED <<pc, records, primary, lifecycle, sampler, generation, reading>>

\* publish: every word is stored, the generation is even again.
PublishEnds ==
    /\ sampler.pc = "storing"
    /\ \A w \in Words : words[w] = NextSample
    /\ generation' = generation + 1
    /\ SamplerTo("published")
    /\ UNCHANGED <<pc, records, primary, lifecycle, words, reading>>

\* run: wait_for tests its predicate, under wait_mutex, before it sleeps.
TestStopping ==
    /\ sampler.pc = "published"
    /\ SamplerTo(IF sampler.stopping THEN "done" ELSE "falling asleep")
    /\ UNCHANGED <<pc, records, primary, lifecycle, generation, words, reading>>

FallAsleep ==
    /\ sampler.pc = "falling asleep"
    /\ SamplerTo("asleep")
    /\ UNCHANGED <<pc, records, primary, lifecycle, generation, words, reading>>

\* wait_for: the interval is over.
IntervalEnds ==
    /\ sampler.pc = "asleep"
    /\ SamplerTo("woken")
    /\ UNCHANGED <<pc, records, primary, lifecycle, generation, words, reading>>

\* run: the loop ends when stopping is set, else another sample is taken.
SampleAgain ==
    /\ sampler.pc = "woken"
    /\ SamplerTo(IF sampler.stopping THEN "done" ELSE "reading")
    /\ UNCHANGED <<pc, records, primary, lifecycle, generation, words, reading>>

SamplerStep ==
    \/ PublishBegins \/ StoreWord \/ PublishEnds
    \/ TestStopping \/ FallAsleep \/ IntervalEnds \/ SampleAgain

-----------------------------------------------------------------------------
(* Reading the publication.                                                *)

\* read: the first load of the generation, tried again while it is odd.
LoadBefore(s) ==
    /\ pc[s] = "snapshot"
    /\ reading[s].left = {}
    /\ generation % 2 = 0
    /\ reading' = [reading EXCEPT ![s] =
                      [NotReading EXCEPT !.before = generation, !.left = Loads]]
    /\ UNCHANGED <<pc, records, primary, lifecycle, sampler, generation, words>>

\* read: a load of a word, or the second load of the generation.
Reads(s, l) ==
    IF l = 0 THEN [reading[s] EXCEPT !.left = @ \ {l}, !.after = generation]
             ELSE [reading[s] EXCEPT !.left = @ \ {l}, !.copy[l] = words[l]]

\* read: a load that is not the last.  The words are loaded relaxed: nothing
\* orders them among themselves, and an acquire load does not order the loads
\* before it: the second load of the generation need not be the last one.
Load(s) ==
    /\ pc[s] = "snapshot"
    /\ \E l \in reading[s].left :
          /\ l = 0 => WeakOrder \/ reading[s].left = {0}
          /\ reading[s].left # {l}
          /\ reading' = [reading EXCEPT ![s] = Reads(s, l)]
    /\ UNCHANGED <<pc, records, primary, lifecycle, sampler, generation, words>>

\* Mutant: the copy is kept without a look at the second generation.
LastLoadKept(s, have) ==
    /\ pc[s] = "snapshot"
    /\ \E l \in Loads :
          /\ reading[s].left = {l}
          /\ reading' = [reading EXCEPT ![s] = Reads(s, l)]
    /\ pc' = [pc EXCEPT ![s] = have]
    /\ UNCHANGED <<records, primary, lifecycle, sampler, generation, words>>

\* read: the last load; the copy is kept when the generation did not move.
LastLoad(s, have) ==
    /\ pc[s] = "snapshot"
    /\ \E l \in Loads :
          /\ reading[s].left = {l}
          /\ reading' = [reading EXCEPT ![s] = Reads(s, l)]
    /\ pc' = IF reading'[s].before = reading'[s].after
             THEN [pc EXCEPT ![s] = have] ELSE pc
    /\ UNCHANGED <<records, primary, lifecycle, sampler, generation, words>>

=============================================================================
