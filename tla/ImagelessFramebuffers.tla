------------------------ MODULE ImagelessFramebuffers ------------------------
(***************************************************************************)
(* Imageless framebuffers on a driver without them                         *)
(* (src/layer/src/main/cpp/core/imageless_framebuffer_manager.cpp).        *)
(*                                                                         *)
(* vkCreateFramebuffer only makes a record.  The framebuffer itself is     *)
(* created when a render pass begins with views, kept under [pass, views], *)
(* and owned by the record that was begun first: another record with the   *)
(* same key uses it too.  It goes with one of its views, with its owner or *)
(* with the device.  Two counters let the common calls skip the mutex.     *)
(*                                                                         *)
(* Handles are taken to be distinct between devices, as a key has no       *)
(* device; extents are part of what a pass stands for.                     *)
(***************************************************************************)
EXTENDS Naturals, FiniteSets

CONSTANTS
    Synthetic, \* synthetic VkFramebuffer handles: m_next_handle never comes back to one
    Passes,    \* render passes with the extent of a framebuffer
    Views,     \* VkImageView handles
    Natives,   \* VkFramebuffer handles of the driver
    Null

\* The code's list of views is a set here.
Keys == [pass : Passes, views : (SUBSET Views) \ {{}}]

VARIABLES
    emulated,    \* m_emulated_devices has the device
    record,      \* m_records, "new" and "gone" for handles that are not in it
    real,        \* m_real
    recordCount, \* m_record_count
    realCount,   \* m_real_count
    alive,       \* views the driver knows
    content      \* the driver's framebuffers

vars == <<emulated, record, real, recordCount, realCount, alive, content>>
counts == <<recordCount, realCount>>

Init ==
    /\ emulated \in BOOLEAN
    /\ record = [s \in Synthetic |-> "new"]
    /\ real = [k \in Keys |-> Null]
    /\ recordCount = 0 /\ realCount = 0
    /\ alive = {}
    /\ content = [n \in Natives |-> Null]

Recorded == {s \in Synthetic : record[s] \in Passes}
Entries == {k \in Keys : real[k] # Null}

-----------------------------------------------------------------------------

\* Without emulation the call goes to the driver.
Create(s, p) ==
    /\ emulated /\ record[s] = "new"
    /\ record' = [record EXCEPT ![s] = p]
    /\ recordCount' = recordCount + 1
    /\ UNCHANGED <<emulated, real, realCount, alive, content>>

\* The entries in dead are destroyed with their framebuffers.
Drop(dead) ==
    /\ real' = [k \in Keys |-> IF k \in dead THEN Null ELSE real[k]]
    /\ content' = [n \in Natives |-> IF \E k \in dead : real[k].frame = n THEN Null ELSE content[n]]
    /\ realCount' = realCount - Cardinality(dead)

OwnedBy(s) == {k \in Entries : real[k].owner = s}

Destroy(s) ==
    /\ s \in Recorded
    /\ Drop(OwnedBy(s))
    /\ record' = [record EXCEPT ![s] = "gone"]
    /\ recordCount' = recordCount - 1
    /\ UNCHANGED <<emulated, alive>>

\* A begin of s with these views, under the mutex: the entry is there, is
\* created, or cannot be and the begin is not recorded.
Resolve(s, views) ==
    LET key == [pass |-> record[s], views |-> views] IN
    /\ recordCount > 0
    /\ \/ /\ real[key] = Null
          /\ \E n \in Natives :
                /\ content[n] = Null
                /\ content' = [content EXCEPT ![n] = key]
                /\ real' = [real EXCEPT ![key] = [frame |-> n, owner |-> s]]
          /\ realCount' = realCount + 1
       \/ UNCHANGED <<real, realCount, content>>

BeginRenderPass(s, views) ==
    /\ s \in Recorded /\ views \subseteq alive /\ views # {}
    /\ Resolve(s, views)
    /\ UNCHANGED <<emulated, record, recordCount, alive>>

CreateView(v) ==
    /\ v \notin alive
    /\ alive' = alive \cup {v}
    /\ UNCHANGED <<emulated, record, real, counts, content>>

\* Mutant: only framebuffers whose single view goes are dropped.
ReferencesOnly(v) == {k \in Entries : k.views = {v}}
References(v) == {k \in Entries : v \in k.views}

OnDestroyImageView(v) ==
    IF realCount = 0 THEN UNCHANGED <<real, realCount, content>> ELSE Drop(References(v))

DestroyView(v) ==
    /\ v \in alive
    /\ OnDestroyImageView(v)
    /\ alive' = alive \ {v}
    /\ UNCHANGED <<emulated, record, recordCount>>

\* A device that goes takes its records; the next one has new handles.
RemoveDevice ==
    /\ Drop(Entries)
    /\ record' = [s \in Synthetic |-> IF s \in Recorded THEN "gone" ELSE record[s]]
    /\ recordCount' = recordCount - Cardinality(Recorded)
    /\ alive' = {}
    /\ emulated' \in BOOLEAN

Next ==
    \/ \E s \in Synthetic :
          \/ \E p \in Passes : Create(s, p)
          \/ Destroy(s)
          \/ \E views \in SUBSET Views : BeginRenderPass(s, views)
    \/ \E v \in Views : CreateView(v) \/ DestroyView(v)
    \/ RemoveDevice

Spec == Init /\ [][Next]_vars

-----------------------------------------------------------------------------

\* Every framebuffer of the driver is in one entry, is what the entry's key
\* says, names only views that exist, and has an owner that will destroy it;
\* and the counters that let calls skip the mutex are exact.
FramebuffersSound ==
    /\ \A k \in Entries :
          /\ content[real[k].frame] = k
          /\ k.views \subseteq alive
          /\ real[k].owner \in Recorded
    /\ \A n \in Natives : content[n] # Null => \E k \in Entries : real[k].frame = n
    /\ recordCount = Cardinality(Recorded) /\ realCount = Cardinality(Entries)

=============================================================================
