-------------------------- MODULE Rendering_proofs --------------------------
(***************************************************************************)
(* Theorems about the objects behind emulated rendering, for every value   *)
(* of the constants: the caches of dynamic rendering (RenderingCache) with *)
(* any number of threads, and imageless framebuffers.                      *)
(***************************************************************************)
EXTENDS MCRendering, FiniteSetTheorems, TLAPS

-----------------------------------------------------------------------------
(* RenderingCache: the invariant.                                           *)

FrameKey(c) == [pass |-> c.pass, views |-> c.views]
Renders(c) == c.at = "continue" \/ c.use # "pipeline"
FormatsOf(l) == [i \in DOMAIN l |-> format[l[i]]]

\* Where a call may be, by what it looks for a pass for.
Placed(c) ==
    /\ c.at # "idle" => c.key \in PassKeys
    /\ c.use = "pipeline" => c.at \in {"idle", "create", "insert", "continue"}
    /\ c.use = "continuation" => c.at \in {"create", "insert"}
    /\ c.use = "begin" => c.at \notin {"idle", "continue"}
    /\ c.at \in {"check", "frame", "insertFrame", "record", "rendering"} => c.pass # Null
    /\ c.at \in {"record", "rendering"} => c.frame # Null

\* A rendering is of views that exist, of the formats of its key.
Viewing(c) ==
    IF Renders(c)
    THEN /\ c.views \in Attachments /\ \A v \in Elements(c.views) : format[v] # Null
         /\ c.key.formats = FormatsOf(c.views)
    ELSE c.views = <<>> /\ c.pass = Null /\ c.frame = Null /\ c.continuation = Null

\* What a call has found is still what the caches hold.
FoundBy(c, ps, fs) ==
    /\ c.pass # Null => ps[c.key] = c.pass
    /\ c.frame # Null => c.pass # Null /\ fs[FrameKey(c)] = c.frame
    /\ c.continuation # Null => ps[LoadKey(c.key)] = c.continuation
FoundIn(c) == FoundBy(c, passes, frames)

\* What a call has made is its own.
OwnPass(c, live, ps, kept) ==
    c.at = "insert" =>
       /\ c.made \in PassHandles /\ live[c.made] = Wanted(c)
       /\ \A k \in PassKeys : ps[k] # c.made
       /\ \A p \in AppPasses : kept[p] # c.made
OwnFrame(c, live, fs) ==
    c.at = "insertFrame" =>
       /\ c.made \in FrameHandles /\ live[c.made] = FrameKey(c)
       /\ \A k \in FrameKeys : fs[k] # c.made
MadePass(c) == OwnPass(c, livePass, passes, legacy)
MadeFrame(c) == OwnFrame(c, liveFrame, frames)

CallSound(c) == Placed(c) /\ Viewing(c) /\ FoundIn(c) /\ MadePass(c) /\ MadeFrame(c)

\* A call that owns nothing, with these caches.
Settled(c, ps, fs) ==
    c.at \notin {"insert", "insertFrame"} /\ Placed(c) /\ Viewing(c) /\ FoundBy(c, ps, fs)

\* Every native object has one holder, and what is alive has one.
Separate ==
    /\ \A p \in AppPasses : legacy[p] # Null =>
          /\ livePass[legacy[p]] # Null
          /\ \A k \in PassKeys : passes[k] # legacy[p]
          /\ \A q \in AppPasses \ {p} : legacy[q] # legacy[p]
    /\ \A t, u \in Threads :
          t # u /\ call[t].at = call[u].at /\ call[t].at \in {"insert", "insertFrame"}
             => call[t].made # call[u].made

Holding(t, place, h) == call[t].at = place /\ call[t].made = h
Accounted ==
    /\ \A h \in PassHandles : livePass[h] # Null =>
          \/ \E k \in PassKeys : passes[k] = h
          \/ \E p \in AppPasses : legacy[p] = h
          \/ \E t \in Threads : Holding(t, "insert", h)
    /\ \A h \in FrameHandles : liveFrame[h] # Null =>
          \/ \E k \in FrameKeys : frames[k] = h
          \/ \E t \in Threads : Holding(t, "insertFrame", h)
    /\ \A h \in PassHandles : h \in owned.passes <=> \E k \in PassKeys : passes[k] = h
    /\ \A h \in FrameHandles : h \in owned.frames <=> \E k \in FrameKeys : frames[k] = h

\* A cached framebuffer is of a cached pass and of views that exist; its
\* views lead to it.
FramesOfPasses ==
    \A k \in FrameKeys : frames[k] # Null =>
       /\ \E key \in PassKeys : passes[key] = k.pass
       /\ \A v \in Elements(k.views) : format[v] # Null
Indexed ==
    \A v \in Views : \A k \in FrameKeys :
       k \in index[v] <=> frames[k] # Null /\ v \in Elements(k.views)

CacheInv ==
    /\ TypeOK /\ CacheSound /\ Indexed /\ Accounted /\ Separate /\ FramesOfPasses
    /\ \A t \in Threads : CallSound(call[t])

-----------------------------------------------------------------------------
(* RenderingCache: lists, keys and calls.                                   *)

LEMMA ListFacts ==
    \A l \in Attachments : /\ Len(l) \in Lengths /\ Len(l) \in Nat /\ DOMAIN l = 1..Len(l)
                           /\ Elements(l) \subseteq Views
                           /\ \A i \in DOMAIN l : l[i] \in Elements(l)
BY RenderingAssumption DEF Lengths, Elements

LEMMA KeyFacts ==
    /\ \A k \in PassKeys : LoadKey(k) \in PassKeys /\ LoadKey(k).formats = k.formats
    /\ \A k \in PassKeys : k.load = "load" => LoadKey(k) = k
    /\ \A c : Wanted(c) = (IF c.use = "continuation" THEN LoadKey(c.key) ELSE c.key)
BY DEF PassKeys, Loads, LoadKey, Wanted

LEMMA IdleFacts ==
    /\ Idle \in Calls /\ Idle.at = "idle" /\ Idle.use = "pipeline" /\ Idle.views = <<>>
    /\ Idle.pass = Null /\ Idle.frame = Null /\ Idle.continuation = Null
BY DEF Idle, Calls, Places

LEMMA IdleSettled == \A ps, fs : Settled(Idle, ps, fs)
BY IdleFacts DEF Settled, Placed, Viewing, Renders, FoundBy

LEMMA SettledSound ==
    ASSUME NEW t \in Threads, NEW c, call'[t] = c, Settled(c, passes', frames'), format' = format
    PROVE  CallSound(call[t])'
BY DEF Settled, CallSound, Placed, Viewing, Renders, FormatsOf, FoundIn, FoundBy, FrameKey, MadePass, OwnPass,
       MadeFrame, OwnFrame

LEMMA FrameKeyType ==
    ASSUME NEW c \in Calls, c.pass # Null, c.views \in Attachments PROVE FrameKey(c) \in FrameKeys
BY DEF FrameKey, FrameKeys, Calls

\* Where a call is that has found something.
LEMMA WhereFound ==
    ASSUME NEW c \in Calls, CallSound(c)
    PROVE  /\ c.pass # Null \/ c.frame # Null \/ c.continuation # Null => Renders(c)
           /\ Renders(c) => c.at # "idle" /\ c.key \in PassKeys /\ c.views \in Attachments
           /\ c.at = "idle" => c.views = <<>>
BY DEF CallSound, Placed, Viewing, Renders, Calls

\* A call that does not move stays sound when what it relies on stays.
LEMMA CallStays ==
    ASSUME CacheInv, NEW t \in Threads, call'[t] = call[t],
           \A v \in Elements(call[t].views) : format'[v] = format[v],
           \A k \in PassKeys : passes[k] # Null => passes'[k] = passes[k],
           \A k \in FrameKeys : k.views = call[t].views /\ frames[k] # Null => frames'[k] = frames[k],
           call[t].at = "insert" =>
              /\ livePass'[call[t].made] = livePass[call[t].made]
              /\ \A k \in PassKeys : passes'[k] # call[t].made
              /\ \A p \in AppPasses : legacy'[p] # call[t].made,
           call[t].at = "insertFrame" =>
              /\ liveFrame'[call[t].made] = liveFrame[call[t].made]
              /\ \A k \in FrameKeys : frames'[k] # call[t].made
    PROVE  CallSound(call[t])'
<1> DEFINE c == call[t]
<1>1. CallSound(c) /\ c \in Calls BY DEF CacheInv, TypeOK
<1>2. Placed(call[t])' BY <1>1 DEF CallSound, Placed
<1>3. Viewing(call[t])'
  <2>1. Renders(c) => FormatsOf(c.views)' = FormatsOf(c.views)
    BY <1>1, WhereFound, ListFacts DEF FormatsOf
  <2> QED BY <1>1, <2>1 DEF CallSound, Viewing, Renders, FormatsOf
<1>4. FoundIn(call[t])'
  <2>1. c.pass # Null => c.key \in PassKeys /\ passes[c.key] = c.pass
    BY <1>1, WhereFound DEF CallSound, FoundIn, FoundBy
  <2>2. c.frame # Null => FrameKey(c) \in FrameKeys /\ FrameKey(c).views = c.views /\ frames[FrameKey(c)] = c.frame
    BY <1>1, WhereFound, FrameKeyType DEF CallSound, FoundIn, FoundBy, FrameKey
  <2>3. c.continuation # Null => LoadKey(c.key) \in PassKeys /\ passes[LoadKey(c.key)] = c.continuation
    BY <1>1, WhereFound, KeyFacts DEF CallSound, FoundIn, FoundBy
  <2>4. c.frame # Null => c.pass # Null BY <1>1 DEF CallSound, FoundIn, FoundBy
  <2> QED BY <2>1, <2>2, <2>3, <2>4 DEF FoundIn, FoundBy, FrameKey
<1>5. MadePass(call[t])' BY <1>1 DEF CallSound, MadePass, OwnPass
<1>6. MadeFrame(call[t])' BY <1>1 DEF CallSound, MadeFrame, OwnFrame, FrameKey
<1> QED BY <1>2, <1>3, <1>4, <1>5, <1>6 DEF CallSound

-----------------------------------------------------------------------------
(* RenderingCache: the steps that only move a call.                         *)

LEMMA CallStep ==
    ASSUME CacheInv, NEW t \in Threads, NEW c \in Calls, Settled(c, passes, frames), To(t, c),
           UNCHANGED <<device, format, caches, legacy, driver>>,
           call[t].at \notin {"insert", "insertFrame"}
    PROVE  CacheInv'
<1> USE DEF device, caches, driver
<1>1. call' \in [Threads -> Calls] /\ call'[t] = c /\ \A u \in Threads \ {t} : call'[u] = call[u]
  BY DEF To, CacheInv, TypeOK
<1>2. TypeOK' BY <1>1 DEF CacheInv, TypeOK
<1>3. CacheSound' BY DEF CacheInv, CacheSound
<1>4. Indexed' BY DEF CacheInv, Indexed
<1>5. \A u \in Threads : \A h : Holding(u, "insert", h) <=> Holding(u, "insert", h)' BY <1>1 DEF Holding, Settled
<1>6. \A u \in Threads : \A h : Holding(u, "insertFrame", h) <=> Holding(u, "insertFrame", h)'
  BY <1>1 DEF Holding, Settled
<1>7. Accounted' BY <1>5, <1>6 DEF CacheInv, Accounted
<1>8. Separate' BY <1>1 DEF CacheInv, Separate, Settled
<1>9. FramesOfPasses' BY DEF CacheInv, FramesOfPasses
<1>10. CallSound(call[t])' BY <1>1, SettledSound
<1>11. ASSUME NEW u \in Threads \ {t} PROVE CallSound(call[u])'
  <2>1. CallSound(call[u]) /\ call'[u] = call[u] BY <1>1 DEF CacheInv
  <2>2. call[u].at = "insert" =>
           /\ \A k \in PassKeys : passes'[k] # call[u].made
           /\ \A p \in AppPasses : legacy'[p] # call[u].made
    BY <2>1 DEF CallSound, MadePass, OwnPass
  <2>3. call[u].at = "insertFrame" => \A k \in FrameKeys : frames'[k] # call[u].made
    BY <2>1 DEF CallSound, MadeFrame, OwnFrame
  <2> QED BY <2>1, <2>2, <2>3, CallStays
<1> QED BY <1>2, <1>3, <1>4, <1>7, <1>8, <1>9, <1>10, <1>11 DEF CacheInv

LEMMA KeyOf ==
    ASSUME CacheInv, NEW l \in Attachments, \A v \in Elements(l) : format[v] # Null,
           NEW load \in {"clear", "load"}
    PROVE  [formats |-> FormatsOf(l), load |-> load] \in PassKeys
<1>1. \A i \in DOMAIN l : format[l[i]] \in Formats
  BY ListFacts DEF CacheInv, TypeOK
<1>2. FormatsOf(l) \in [1..Len(l) -> Formats] /\ Len(l) \in Lengths
  BY <1>1, ListFacts DEF FormatsOf
<1> QED BY <1>2 DEF PassKeys, Loads

LEMMA FrameOfFacts ==
    ASSUME CacheInv, NEW p \in PassHandles \cup {Null}, NEW l \in Attachments
    PROVE  /\ FrameOf(p, l) \in FrameHandles \cup {Null}
           /\ FrameOf(p, l) # Null => p # Null /\ frames[[pass |-> p, views |-> l]] = FrameOf(p, l)
BY DEF FrameOf, CacheInv, TypeOK, FrameKeys

\* A call that goes on once its continuation is settled.
LEMMA Resumed ==
    ASSUME NEW c \in Calls, Renders(c), c.key \in PassKeys, Viewing(c), NEW ps, NEW fs, FoundBy(c, ps, fs)
    PROVE  Resume(c) \in Calls /\ Settled(Resume(c), ps, fs)
<1> DEFINE r == Resume(c)
<1>1. /\ r.use = "begin" /\ r.made = Null /\ r.key = c.key /\ r.views = c.views /\ r.pass = c.pass
      /\ r.frame = c.frame /\ r.continuation = c.continuation
      /\ r.at = (IF c.pass = Null THEN "create" ELSE IF c.frame = Null THEN "check" ELSE "record")
  BY DEF Resume, Calls
<1>2. r \in Calls BY DEF Resume, Calls, Places
<1> HIDE DEF r
<1>3. Placed(r) BY <1>1 DEF Placed
<1>4. Viewing(r) BY <1>1 DEF Viewing, Renders
<1>5. FoundBy(r, ps, fs) BY <1>1 DEF FoundBy, FrameKey
<1> QED BY <1>1, <1>2, <1>3, <1>4, <1>5 DEF Settled, r

LEMMA CompatibleStep ==
    ASSUME CacheInv, NEW t \in Threads, NEW key \in PassKeys, CompatiblePass(t, key) PROVE CacheInv'
<1> DEFINE c == [Idle EXCEPT !.at = "create", !.key = key]
<1>1. c \in Calls BY IdleFacts DEF Calls, Places
<1>2. /\ c.at = "create" /\ c.use = "pipeline" /\ c.key = key /\ c.views = <<>> /\ c.pass = Null
      /\ c.frame = Null /\ c.continuation = Null
  BY DEF Idle
<1>3. To(t, c) /\ UNCHANGED <<device, format, caches, legacy, driver>> /\ call[t].at = "idle"
  BY DEF CompatiblePass, At
<1> HIDE DEF c
<1>4. Settled(c, passes, frames) BY <1>2 DEF Settled, Placed, Viewing, Renders, FoundBy
<1> QED BY <1>1, <1>2, <1>3, <1>4, CallStep

LEMMA PassFailsStep ==
    ASSUME CacheInv, NEW t \in Threads, CreatePassFails(t) PROVE CacheInv'
<1> DEFINE c == call[t]
<1>1. c \in Calls /\ CallSound(c) BY DEF CacheInv, TypeOK
<1>2. /\ c.at = "create" /\ UNCHANGED <<device, format, caches, legacy, driver>>
      /\ To(t, IF c.use = "continuation" THEN Resume(c) ELSE Idle)
  BY DEF CreatePassFails, At
<1>3. CASE c.use = "continuation"
  <2>1. Renders(c) /\ c.key \in PassKeys /\ Viewing(c) /\ FoundBy(c, passes, frames)
    BY <1>1, <1>3, WhereFound DEF Renders, CallSound, FoundIn
  <2> QED BY <2>1, <1>1, <1>2, <1>3, Resumed, CallStep
<1>4. CASE c.use # "continuation" BY <1>2, <1>4, IdleFacts, IdleSettled, CallStep
<1> QED BY <1>3, <1>4

LEMMA BeginRenderingStep ==
    ASSUME CacheInv, NEW t \in Threads, NEW l \in Attachments, NEW load \in {"clear", "load"},
           BeginRendering(t, l, load)
    PROVE  CacheInv'
<1> DEFINE key == [formats |-> FormatsOf(l), load |-> load]
<1>1. /\ call[t].at = "idle" /\ \A v \in Elements(l) : format[v] # Null
      /\ UNCHANGED <<device, format, caches, legacy, driver>>
  BY DEF BeginRendering, At
<1>2. key \in PassKeys BY <1>1, KeyOf
<1>3. PICK eligible \in {tiler, FALSE} :
         LET c == [Idle EXCEPT !.key = key, !.views = l, !.tiled = eligible,
                               !.pass = passes[key], !.frame = FrameOf(passes[key], l)]
         IN  To(t, IF eligible THEN [c EXCEPT !.at = "continue"] ELSE Resume(c))
  BY DEF BeginRendering, FormatsOf
<1>4. eligible \in BOOLEAN BY DEF CacheInv, TypeOK
<1> DEFINE c == [Idle EXCEPT !.key = key, !.views = l, !.tiled = eligible,
                             !.pass = passes[key], !.frame = FrameOf(passes[key], l)]
           d == [c EXCEPT !.at = "continue"]
<1>5. key.formats = FormatsOf(l) OBVIOUS
<1> HIDE DEF key
<1>6. passes[key] \in PassHandles \cup {Null} BY <1>2 DEF CacheInv, TypeOK
<1>7. /\ FrameOf(passes[key], l) \in FrameHandles \cup {Null}
      /\ FrameOf(passes[key], l) # Null =>
            passes[key] # Null /\ frames[[pass |-> passes[key], views |-> l]] = FrameOf(passes[key], l)
  BY <1>6, FrameOfFacts
<1>8. d \in Calls BY <1>2, <1>4, <1>6, <1>7, IdleFacts DEF Calls, Places
<1>9. /\ d.at = "continue" /\ d.use = "pipeline" /\ d.key = key /\ d.views = l /\ d.pass = passes[key]
      /\ d.frame = FrameOf(passes[key], l) /\ d.continuation = Null
  BY DEF Idle
<1>10. Resume(c) = Resume(d) BY DEF Resume, Idle
<1>11. To(t, d) \/ To(t, Resume(d)) BY <1>3, <1>10
<1> HIDE DEF c, d
<1>12. Renders(d) /\ Viewing(d) BY <1>1, <1>5, <1>9 DEF Renders, Viewing
<1>13. FoundBy(d, passes, frames) BY <1>7, <1>9 DEF FoundBy, FrameKey
<1>14. Placed(d) BY <1>2, <1>9 DEF Placed
<1>15. CASE To(t, d) BY <1>1, <1>8, <1>9, <1>12, <1>13, <1>14, <1>15, CallStep DEF Settled
<1>16. CASE To(t, Resume(d))
  <2>1. Resume(d) \in Calls /\ Settled(Resume(d), passes, frames)
    BY <1>2, <1>8, <1>9, <1>12, <1>13, Resumed
  <2> QED BY <2>1, <1>1, <1>16, CallStep
<1> QED BY <1>11, <1>15, <1>16


LEMMA ContinuationStep ==
    ASSUME CacheInv, NEW t \in Threads, Continuation(t) PROVE CacheInv'
<1> DEFINE c == call[t]
           found == passes[LoadKey(c.key)]
           e == [c EXCEPT !.continuation = found]
           d == [c EXCEPT !.at = "create", !.use = "continuation"]
<1>1. c \in Calls /\ CallSound(c) BY DEF CacheInv, TypeOK
<1>2. /\ c.at = "continue" /\ UNCHANGED <<device, format, caches, legacy, driver>>
      /\ To(t, IF found # Null THEN Resume(e) ELSE d)
  BY DEF Continuation, At
<1>3. Renders(c) /\ c.key \in PassKeys /\ Viewing(c) /\ FoundBy(c, passes, frames)
  BY <1>1, <1>2, WhereFound DEF Renders, CallSound, FoundIn
<1>4. CASE found # Null
  <2>1. found \in PassHandles \cup {Null} BY <1>3, KeyFacts DEF CacheInv, TypeOK
  <2>2. e \in Calls /\ e.at = c.at /\ e.use = c.use /\ e.key = c.key /\ e.views = c.views
        /\ e.pass = c.pass /\ e.frame = c.frame /\ e.continuation = found
    BY <1>1, <2>1 DEF Calls
  <2> HIDE DEF e
  <2>3. Renders(e) /\ Viewing(e) BY <1>3, <2>2 DEF Renders, Viewing
  <2>4. FoundBy(e, passes, frames) BY <1>3, <2>2 DEF FoundBy, FrameKey
  <2>5. Resume(e) \in Calls /\ Settled(Resume(e), passes, frames) BY <1>3, <2>2, <2>3, <2>4, Resumed
  <2> QED BY <2>5, <1>2, <1>4, CallStep
<1>5. CASE found = Null
  <2>1. d \in Calls /\ d.at = "create" /\ d.use = "continuation" /\ d.key = c.key /\ d.views = c.views
        /\ d.pass = c.pass /\ d.frame = c.frame /\ d.continuation = c.continuation
    BY <1>1 DEF Calls, Places
  <2> HIDE DEF d
  <2>2. Settled(d, passes, frames)
    BY <1>3, <2>1 DEF Settled, Placed, Viewing, Renders, FoundBy, FrameKey
  <2> QED BY <2>1, <2>2, <1>2, <1>5, CallStep
<1> QED BY <1>4, <1>5

LEMMA CheckFrameStep ==
    ASSUME CacheInv, NEW t \in Threads, CheckFrame(t) PROVE CacheInv'
<1> DEFINE c == call[t]
           found == FrameOf(c.pass, c.views)
           d == [c EXCEPT !.frame = found, !.at = IF found = Null THEN "frame" ELSE "record"]
<1>1. c \in Calls /\ CallSound(c) BY DEF CacheInv, TypeOK
<1>2. /\ c.at = "check" /\ UNCHANGED <<device, format, caches, legacy, driver>> /\ To(t, d)
  BY DEF CheckFrame, At
<1>3. /\ c.use = "begin" /\ c.key \in PassKeys /\ c.pass # Null /\ c.views \in Attachments
      /\ Renders(c) /\ Viewing(c) /\ FoundBy(c, passes, frames)
  BY <1>1, <1>2, WhereFound DEF Renders, CallSound, FoundIn, Placed, Calls
<1>4. c.pass \in PassHandles \cup {Null} BY <1>1 DEF Calls
<1>5. /\ found \in FrameHandles \cup {Null}
      /\ found # Null => frames[FrameKey(c)] = found
  BY <1>3, <1>4, FrameOfFacts DEF FrameKey
<1> HIDE DEF found
<1>6. d \in Calls /\ d.at = (IF found = Null THEN "frame" ELSE "record") /\ d.use = "begin"
      /\ d.key = c.key /\ d.views = c.views /\ d.pass = c.pass /\ d.frame = found
      /\ d.continuation = c.continuation
  BY <1>1, <1>3, <1>5 DEF Calls, Places
<1> HIDE DEF d
<1>7. Settled(d, passes, frames)
  BY <1>3, <1>5, <1>6 DEF Settled, Placed, Viewing, Renders, FoundBy, FrameKey
<1> QED BY <1>2, <1>6, <1>7, CallStep

LEMMA RecordStep ==
    ASSUME CacheInv, NEW t \in Threads, Record(t) \/ EndRendering(t) PROVE CacheInv'
<1> DEFINE c == call[t]
           d == [c EXCEPT !.at = "rendering"]
<1>1. c \in Calls /\ CallSound(c) BY DEF CacheInv, TypeOK
<1>2. UNCHANGED <<device, format, caches, legacy, driver>> /\ c.at \in {"record", "rendering"}
  BY DEF Record, EndRendering, At
<1>3. CASE Record(t)
  <2>1. c.at = "record" /\ To(t, d) BY <1>3 DEF Record, At
  <2>2. /\ c.use = "begin" /\ c.key \in PassKeys /\ c.pass # Null /\ c.frame # Null
        /\ Renders(c) /\ Viewing(c) /\ FoundBy(c, passes, frames)
    BY <1>1, <2>1, WhereFound DEF Renders, CallSound, FoundIn, Placed, Calls
  <2>3. d \in Calls /\ d.at = "rendering" /\ d.use = c.use /\ d.key = c.key /\ d.views = c.views
        /\ d.pass = c.pass /\ d.frame = c.frame /\ d.continuation = c.continuation
    BY <1>1 DEF Calls, Places
  <2> HIDE DEF d
  <2>4. Settled(d, passes, frames)
    BY <2>2, <2>3 DEF Settled, Placed, Viewing, Renders, FoundBy, FrameKey
  <2> QED BY <1>2, <2>1, <2>3, <2>4, CallStep
<1>4. CASE EndRendering(t)
  <2>1. To(t, Idle) BY <1>4 DEF EndRendering
  <2> QED BY <1>2, <2>1, IdleFacts, IdleSettled, CallStep
<1> QED BY <1>3, <1>4

-----------------------------------------------------------------------------
(* RenderingCache: objects made and kept.                                   *)

LEMMA CachedFacts ==
    CacheSound <=>
      /\ \A k \in PassKeys : passes[k] # Null => livePass[passes[k]] = k
      /\ \A k \in FrameKeys : frames[k] # Null =>
            /\ liveFrame[frames[k]] = k /\ livePass[k.pass] # Null
            /\ livePass[k.pass].formats = FormatsOf(k.views)
BY Zenon DEF CacheSound, FormatsOf

\* A handle that is dead in the driver has no holder.
LEMMA DeadPass ==
    ASSUME CacheInv, NEW h \in PassHandles, livePass[h] = Null
    PROVE  /\ \A k \in PassKeys : passes[k] # h
           /\ \A p \in AppPasses : legacy[p] # h
           /\ \A t \in Threads : call[t].at = "insert" => call[t].made # h
<1>1. h # Null /\ Null \notin PassKeys BY RenderingAssumption
<1>2. \A k \in PassKeys : passes[k] # h BY <1>1 DEF CacheInv, CacheSound
<1>3. \A p \in AppPasses : legacy[p] # h BY <1>1 DEF CacheInv, Separate
<1>4. ASSUME NEW t \in Threads, call[t].at = "insert" PROVE call[t].made # h
  <2>1. livePass[call[t].made] = Wanted(call[t]) /\ call[t].key \in PassKeys
    BY <1>4 DEF CacheInv, CallSound, MadePass, OwnPass, Placed
  <2>2. Wanted(call[t]) \in PassKeys BY <2>1, KeyFacts
  <2> QED BY <1>1, <2>1, <2>2
<1> QED BY <1>2, <1>3, <1>4

LEMMA DeadFrame ==
    ASSUME CacheInv, NEW h \in FrameHandles, liveFrame[h] = Null
    PROVE  /\ \A k \in FrameKeys : frames[k] # h
           /\ \A t \in Threads : call[t].at = "insertFrame" => call[t].made # h
<1>1. h # Null /\ Null \notin FrameKeys BY RenderingAssumption
<1>2. \A k \in FrameKeys : frames[k] # h BY <1>1, CachedFacts DEF CacheInv
<1>3. ASSUME NEW t \in Threads, call[t].at = "insertFrame" PROVE call[t].made # h
  <2>1. liveFrame[call[t].made] = FrameKey(call[t]) /\ call[t].use # "pipeline" /\ call[t].pass # Null
    BY <1>3 DEF CacheInv, CallSound, MadeFrame, OwnFrame, Placed
  <2>2. FrameKey(call[t]) \in FrameKeys
    BY <2>1, FrameKeyType DEF CacheInv, TypeOK, CallSound, Viewing, Renders
  <2> QED BY <1>1, <2>1, <2>2
<1> QED BY <1>2, <1>3

\* The driver makes a pass that nobody holds yet.
LEMMA NewPass ==
    ASSUME CacheInv, NEW h \in PassHandles, livePass[h] = Null, NEW k \in PassKeys \cup {NoKey},
           livePass' = [livePass EXCEPT ![h] = k], UNCHANGED <<passes, frames, liveFrame, format>>
    PROVE  /\ livePass' \in [PassHandles -> PassKeys \cup {NoKey, Null}]
           /\ livePass'[h] = k /\ k # Null
           /\ \A g \in PassHandles \ {h} : livePass'[g] = livePass[g]
           /\ CacheSound'
<1>1. /\ livePass' \in [PassHandles -> PassKeys \cup {NoKey, Null}]
      /\ livePass'[h] = k /\ k # Null
      /\ \A g \in PassHandles \ {h} : livePass'[g] = livePass[g]
  BY RenderingAssumption DEF CacheInv, TypeOK
<1>2. \A key \in PassKeys : passes[key] # Null => passes[key] \in PassHandles \ {h}
  BY DeadPass DEF CacheInv, TypeOK
<1>3. \A key \in FrameKeys : frames[key] # Null => key.pass \in PassHandles \ {h}
  BY DEF CacheInv, CacheSound, FrameKeys
<1>4. \A key \in PassKeys : passes'[key] # Null => livePass'[passes'[key]] = key
  BY <1>1, <1>2, CachedFacts DEF CacheInv
<1>5. ASSUME NEW key \in FrameKeys, frames'[key] # Null
      PROVE  /\ liveFrame'[frames'[key]] = key /\ livePass'[key.pass] # Null
             /\ livePass'[key.pass].formats = [i \in DOMAIN key.views |-> format'[key.views[i]]]
  <2>1. /\ liveFrame[frames[key]] = key /\ livePass[key.pass] # Null
        /\ livePass[key.pass].formats = FormatsOf(key.views)
    BY <1>5, CachedFacts DEF CacheInv
  <2>2. livePass'[key.pass] = livePass[key.pass] BY <1>1, <1>3, <1>5
  <2> QED BY <1>5, <2>1, <2>2 DEF FormatsOf
<1>6. CacheSound' BY <1>4, <1>5 DEF CacheSound
<1> QED BY <1>1, <1>6


FormatsNext(l) == [i \in DOMAIN l |-> format'[l[i]]]

LEMMA CachedNext ==
    ASSUME \A k \in PassKeys : passes'[k] # Null => livePass'[passes'[k]] = k,
           \A k \in FrameKeys : frames'[k] # Null =>
              /\ liveFrame'[frames'[k]] = k /\ livePass'[k.pass] # Null
              /\ livePass'[k.pass].formats = FormatsNext(k.views)
    PROVE  CacheSound'
BY Zenon DEF CacheSound, FormatsNext

\* A call that moves to d, which makes and owns something or nothing.
LEMMA MovedSound ==
    ASSUME NEW t \in Threads, NEW d, call'[t] = d, format' = format, Placed(d), Viewing(d),
           FoundBy(d, passes', frames'), OwnPass(d, livePass', passes', legacy'),
           OwnFrame(d, liveFrame', frames')
    PROVE  CallSound(call[t])'
BY DEF CallSound, Placed, Viewing, Renders, FormatsOf, FoundIn, FoundBy, FrameKey, MadePass, OwnPass, MadeFrame, OwnFrame

LEMMA CreatePassStep ==
    ASSUME CacheInv, NEW t \in Threads, CreatePass(t) PROVE CacheInv'
<1> DEFINE c == call[t]
<1>1. c \in Calls /\ CallSound(c) BY DEF CacheInv, TypeOK
<1>2. PICK h \in PassHandles :
         /\ livePass[h] = Null /\ livePass' = [livePass EXCEPT ![h] = Wanted(c)]
         /\ To(t, [c EXCEPT !.at = "insert", !.made = h])
  BY DEF CreatePass
<1>3. c.at = "create" /\ UNCHANGED <<device, format, caches, legacy, liveFrame>>
  BY DEF CreatePass, At
<1> DEFINE d == [c EXCEPT !.at = "insert", !.made = h]
<1>4. /\ d \in Calls /\ d.at = "insert" /\ d.made = h /\ d.use = c.use /\ d.key = c.key
      /\ d.views = c.views /\ d.pass = c.pass /\ d.frame = c.frame /\ d.continuation = c.continuation
  BY <1>1 DEF Calls, Places
<1>5. call' = [call EXCEPT ![t] = d] BY <1>2 DEF To
<1> HIDE DEF d
<1>6. call' \in [Threads -> Calls] /\ call'[t] = d /\ \A u \in Threads \ {t} : call'[u] = call[u]
  BY <1>4, <1>5 DEF CacheInv, TypeOK
<1>7. Placed(c) /\ Viewing(c) /\ FoundBy(c, passes, frames) /\ c.key \in PassKeys
  BY <1>1, <1>3 DEF CallSound, FoundIn, Placed
<1>8. Wanted(c) \in PassKeys /\ Wanted(d) = Wanted(c) BY <1>4, <1>7, KeyFacts
<1>9. /\ livePass' \in [PassHandles -> PassKeys \cup {NoKey, Null}]
      /\ livePass'[h] = Wanted(c) /\ Wanted(c) # Null
      /\ \A g \in PassHandles \ {h} : livePass'[g] = livePass[g]
      /\ CacheSound'
  BY <1>2, <1>3, <1>8, NewPass DEF caches
<1>10. /\ \A k \in PassKeys : passes[k] # h
       /\ \A p \in AppPasses : legacy[p] # h
       /\ \A u \in Threads : call[u].at = "insert" => call[u].made # h
  BY <1>2, DeadPass
<1> USE DEF device, caches
<1>11. TypeOK' BY <1>3, <1>6, <1>9 DEF CacheInv, TypeOK
<1>12. Indexed' BY <1>3 DEF CacheInv, Indexed
<1>13. Accounted'
  <2>1. \A u \in Threads : \A g, place : Holding(u, place, g) /\ place \in {"insert", "insertFrame"}
           => Holding(u, place, g)'
    BY <1>3, <1>6 DEF Holding
  <2>2. Holding(t, "insert", h)' BY <1>4, <1>6 DEF Holding
  <2>3. ASSUME NEW g \in PassHandles, livePass'[g] # Null
        PROVE  \/ \E k \in PassKeys : passes'[k] = g
               \/ \E p \in AppPasses : legacy'[p] = g
               \/ \E u \in Threads : Holding(u, "insert", g)'
    <3>1. CASE g = h BY <3>1, <2>2
    <3>2. CASE g # h
      <4>1. livePass[g] # Null BY <1>9, <2>3, <3>2
      <4>2. \/ \E k \in PassKeys : passes[k] = g
            \/ \E p \in AppPasses : legacy[p] = g
            \/ \E u \in Threads : Holding(u, "insert", g)
        BY <4>1 DEF CacheInv, Accounted
      <4> QED BY <1>3, <2>1, <4>2
    <3> QED BY <3>1, <3>2
  <2>4. \A g \in FrameHandles : liveFrame'[g] # Null =>
           \/ \E k \in FrameKeys : frames'[k] = g
           \/ \E u \in Threads : Holding(u, "insertFrame", g)'
    BY <1>3, <2>1 DEF CacheInv, Accounted
  <2>5. /\ \A g \in PassHandles : g \in owned'.passes <=> \E k \in PassKeys : passes'[k] = g
        /\ \A g \in FrameHandles : g \in owned'.frames <=> \E k \in FrameKeys : frames'[k] = g
    BY <1>3 DEF CacheInv, Accounted
  <2> QED BY <2>3, <2>4, <2>5 DEF Accounted
<1>14. Separate'
  <2>1. \A p \in AppPasses : legacy'[p] # Null =>
           /\ livePass'[legacy'[p]] # Null
           /\ \A k \in PassKeys : passes'[k] # legacy'[p]
           /\ \A q \in AppPasses \ {p} : legacy'[q] # legacy'[p]
    BY <1>3, <1>9, <1>10 DEF CacheInv, Separate, TypeOK
  <2>2. \A u, w \in Threads :
           u # w /\ call'[u].at = call'[w].at /\ call'[u].at \in {"insert", "insertFrame"}
              => call'[u].made # call'[w].made
    BY <1>4, <1>6, <1>10 DEF CacheInv, Separate
  <2> QED BY <2>1, <2>2 DEF Separate
<1>15. FramesOfPasses' BY <1>3 DEF CacheInv, FramesOfPasses
<1>16. CallSound(call[t])'
  <2>1. Placed(d) BY <1>4, <1>7, <1>3 DEF Placed
  <2>2. Viewing(d) BY <1>3, <1>4, <1>7 DEF Viewing, Renders
  <2>3. FoundBy(d, passes', frames') BY <1>3, <1>4, <1>7 DEF FoundBy, FrameKey
  <2>4. OwnPass(d, livePass', passes', legacy') /\ OwnFrame(d, liveFrame', frames')
    BY <1>3, <1>4, <1>8, <1>9, <1>10 DEF OwnPass, OwnFrame
  <2> QED BY <1>3, <1>6, <2>1, <2>2, <2>3, <2>4, MovedSound
<1>17. ASSUME NEW u \in Threads \ {t} PROVE CallSound(call[u])'
  <2>1. CallSound(call[u]) /\ call'[u] = call[u] BY <1>6 DEF CacheInv
  <2>2. call[u].at = "insert" =>
           /\ livePass'[call[u].made] = livePass[call[u].made]
           /\ \A k \in PassKeys : passes'[k] # call[u].made
           /\ \A p \in AppPasses : legacy'[p] # call[u].made
    BY <1>3, <1>9, <1>10, <2>1 DEF CallSound, MadePass, OwnPass
  <2>3. call[u].at = "insertFrame" =>
           /\ liveFrame'[call[u].made] = liveFrame[call[u].made]
           /\ \A k \in FrameKeys : frames'[k] # call[u].made
    BY <1>3, <2>1 DEF CallSound, MadeFrame, OwnFrame
  <2>4. /\ \A v \in Elements(call[u].views) : format'[v] = format[v]
        /\ \A k \in PassKeys : passes[k] # Null => passes'[k] = passes[k]
        /\ \A k \in FrameKeys : k.views = call[u].views /\ frames[k] # Null => frames'[k] = frames[k]
    BY <1>3
  <2> QED BY <2>1, <2>2, <2>3, <2>4, CallStays
<1> QED BY <1>9, <1>11, <1>12, <1>13, <1>14, <1>15, <1>16, <1>17 DEF CacheInv


\* A call that is given the pass it wanted owns nothing more.
LEMMA Given ==
    ASSUME NEW c \in Calls, c.at = "insert", Placed(c), Viewing(c), NEW ps, NEW fs,
           FoundBy(c, ps, fs), NEW h \in PassHandles, ps[Wanted(c)] = h
    PROVE  Give(c, h) \in Calls /\ Settled(Give(c, h), ps, fs)
<1>1. h # Null /\ c.key \in PassKeys BY RenderingAssumption DEF Placed
<1>2. CASE c.use = "pipeline" BY <1>2, IdleFacts, IdleSettled DEF Give
<1>3. CASE c.use = "continuation"
  <2> DEFINE e == [c EXCEPT !.continuation = h]
  <2>1. e \in Calls /\ e.at = c.at /\ e.use = c.use /\ e.key = c.key /\ e.views = c.views
        /\ e.pass = c.pass /\ e.frame = c.frame /\ e.continuation = h
    BY DEF Calls
  <2>2. Give(c, h) = Resume(e) BY <1>3 DEF Give
  <2> HIDE DEF e
  <2>3. Renders(e) /\ Viewing(e) BY <1>3, <2>1 DEF Renders, Viewing
  <2>4. FoundBy(e, ps, fs) BY <1>3, <2>1, KeyFacts DEF FoundBy, FrameKey
  <2> QED BY <1>1, <2>1, <2>2, <2>3, <2>4, Resumed
<1>4. CASE c.use = "begin"
  <2> DEFINE d == [c EXCEPT !.pass = h, !.made = Null, !.at = "check"]
  <2>1. d \in Calls /\ d.at = "check" /\ d.use = c.use /\ d.key = c.key /\ d.views = c.views
        /\ d.pass = h /\ d.frame = c.frame /\ d.continuation = c.continuation
    BY DEF Calls, Places
  <2>2. Give(c, h) = d BY <1>4 DEF Give
  <2> HIDE DEF d
  <2>3. ps[c.key] = h BY <1>4, KeyFacts
  <2>4. FoundBy(d, ps, fs) BY <1>1, <2>1, <2>3 DEF FoundBy, FrameKey
  <2> QED BY <1>1, <1>4, <2>1, <2>2, <2>4 DEF Settled, Placed, Viewing, Renders
<1> QED BY <1>2, <1>3, <1>4 DEF Calls

\* Where a found object is looked up.
LEMMA FoundKeys ==
    ASSUME NEW c \in Calls, CallSound(c)
    PROVE  /\ c.pass # Null => c.key \in PassKeys /\ passes[c.key] = c.pass
           /\ c.continuation # Null =>
                 LoadKey(c.key) \in PassKeys /\ passes[LoadKey(c.key)] = c.continuation
           /\ c.frame # Null =>
                 c.pass # Null /\ FrameKey(c) \in FrameKeys /\ frames[FrameKey(c)] = c.frame
BY WhereFound, KeyFacts, FrameKeyType DEF CallSound, FoundIn, FoundBy

LEMMA InsertPassFacts ==
    ASSUME CacheInv, NEW t \in Threads, InsertPass(t)
    PROVE  LET c == call[t] IN
           /\ c \in Calls /\ CallSound(c) /\ c.at = "insert"
           /\ Placed(c) /\ Viewing(c) /\ FoundBy(c, passes, frames)
           /\ Wanted(c) \in PassKeys /\ c.made \in PassHandles /\ livePass[c.made] = Wanted(c)
           /\ \A k \in PassKeys : passes[k] # c.made
           /\ \A p \in AppPasses : legacy[p] # c.made
           /\ \A u \in Threads \ {t} : call[u].at = "insert" => call[u].made # c.made
<1> DEFINE c == call[t]
<1>1. c \in Calls /\ CallSound(c) /\ c.at = "insert" BY DEF CacheInv, TypeOK, InsertPass, At
<1>2. \A u \in Threads \ {t} : call[u].at = "insert" => call[u].made # c.made
  BY <1>1 DEF CacheInv, Separate
<1>3. Wanted(c) \in PassKeys BY <1>1, KeyFacts DEF CallSound, Placed
<1> QED BY <1>1, <1>2, <1>3 DEF CallSound, FoundIn, MadePass, OwnPass

LEMMA KeepPassStep ==
    ASSUME CacheInv, NEW t \in Threads, InsertPass(t), passes[Wanted(call[t])] = Null PROVE CacheInv'
<1> DEFINE c == call[t]
           w == Wanted(c)
           d == Give(c, c.made)
<1>1. /\ c \in Calls /\ CallSound(c) /\ c.at = "insert"
      /\ Placed(c) /\ Viewing(c) /\ FoundBy(c, passes, frames)
      /\ w \in PassKeys /\ c.made \in PassHandles /\ livePass[c.made] = w
      /\ \A k \in PassKeys : passes[k] # c.made
      /\ \A p \in AppPasses : legacy[p] # c.made
      /\ \A u \in Threads \ {t} : call[u].at = "insert" => call[u].made # c.made
  BY InsertPassFacts
<1>2. /\ passes' = [passes EXCEPT ![w] = c.made]
      /\ owned' = [owned EXCEPT !["passes"] = @ \cup {c.made}]
      /\ call' = [call EXCEPT ![t] = d]
      /\ UNCHANGED <<device, format, frames, index, legacy, livePass, liveFrame>>
  BY DEF InsertPass, Owned, To
<1> HIDE DEF w, d
<1>3. /\ passes' \in [PassKeys -> PassHandles \cup {Null}] /\ passes'[w] = c.made
      /\ \A k \in PassKeys \ {w} : passes'[k] = passes[k]
      /\ \A k \in PassKeys : passes[k] # Null => passes'[k] = passes[k]
  BY <1>1, <1>2 DEF CacheInv, TypeOK, w
<1>4. /\ owned' \in [passes : SUBSET PassHandles, frames : SUBSET FrameHandles]
      /\ owned'.passes = owned.passes \cup {c.made} /\ owned'.frames = owned.frames
  BY <1>1, <1>2 DEF CacheInv, TypeOK
<1>5. FoundBy(c, passes', frames') BY <1>1, <1>2, <1>3, FoundKeys DEF FoundBy
<1>6. d \in Calls /\ Settled(d, passes', frames') BY <1>1, <1>3, <1>5, Given DEF d, w
<1>7. call' \in [Threads -> Calls] /\ call'[t] = d /\ \A u \in Threads \ {t} : call'[u] = call[u]
  BY <1>2, <1>6 DEF CacheInv, TypeOK
<1>8. d.at \notin {"insert", "insertFrame"} BY <1>6 DEF Settled
<1>9. TypeOK' BY <1>2, <1>3, <1>4, <1>7 DEF CacheInv, TypeOK, device
<1>10. CacheSound'
  <2>1. \A k \in PassKeys : passes'[k] # Null => livePass'[passes'[k]] = k
    BY <1>1, <1>2, <1>3 DEF CacheInv, CacheSound
  <2>2. \A k \in FrameKeys : frames'[k] # Null =>
           /\ liveFrame'[frames'[k]] = k /\ livePass'[k.pass] # Null
           /\ livePass'[k.pass].formats = FormatsNext(k.views)
    BY <1>2, CachedFacts DEF CacheInv, FormatsOf, FormatsNext
  <2> QED BY <2>1, <2>2, CachedNext
<1>11. Indexed' BY <1>2 DEF CacheInv, Indexed
<1>12. Accounted'
  <2>1. \A u \in Threads \ {t} : \A place, g : Holding(u, place, g) => Holding(u, place, g)'
    BY <1>7 DEF Holding
  <2>2. \A g : Holding(t, "insert", g) => g = c.made BY <1>1 DEF Holding
  <2>3. \A g : ~Holding(t, "insertFrame", g) BY <1>1 DEF Holding
  <2>4. ASSUME NEW g \in PassHandles, livePass'[g] # Null
        PROVE  \/ \E k \in PassKeys : passes'[k] = g
               \/ \E p \in AppPasses : legacy'[p] = g
               \/ \E u \in Threads : Holding(u, "insert", g)'
    <3>1. \/ \E k \in PassKeys : passes[k] = g
          \/ \E p \in AppPasses : legacy[p] = g
          \/ \E u \in Threads : Holding(u, "insert", g)
      BY <1>2, <2>4 DEF CacheInv, Accounted
    <3>2. g # Null BY RenderingAssumption
    <3> QED BY <1>1, <1>2, <1>3, <2>1, <2>2, <3>1, <3>2
  <2>5. \A g \in FrameHandles : liveFrame'[g] # Null =>
           \/ \E k \in FrameKeys : frames'[k] = g
           \/ \E u \in Threads : Holding(u, "insertFrame", g)'
    BY <1>2, <2>1, <2>3 DEF CacheInv, Accounted
  <2>6. ASSUME NEW g \in PassHandles PROVE g \in owned'.passes <=> \E k \in PassKeys : passes'[k] = g
    <3>1. g \in owned.passes <=> \E k \in PassKeys : passes[k] = g BY DEF CacheInv, Accounted
    <3>2. g # Null BY RenderingAssumption
    <3> QED BY <1>1, <1>3, <1>4, <3>1, <3>2 DEF w
  <2>7. \A g \in FrameHandles : g \in owned'.frames <=> \E k \in FrameKeys : frames'[k] = g
    BY <1>2, <1>4 DEF CacheInv, Accounted
  <2> QED BY <2>4, <2>5, <2>6, <2>7 DEF Accounted
<1>13. Separate'
  <2>1. \A p \in AppPasses : legacy'[p] # Null =>
           /\ livePass'[legacy'[p]] # Null
           /\ \A k \in PassKeys : passes'[k] # legacy'[p]
           /\ \A q \in AppPasses \ {p} : legacy'[q] # legacy'[p]
    BY <1>1, <1>2, <1>3 DEF CacheInv, Separate
  <2>2. \A u, v \in Threads :
           u # v /\ call'[u].at = call'[v].at /\ call'[u].at \in {"insert", "insertFrame"}
              => call'[u].made # call'[v].made
    BY <1>7, <1>8 DEF CacheInv, Separate
  <2> QED BY <2>1, <2>2 DEF Separate
<1>14. FramesOfPasses'
  <2> SUFFICES ASSUME NEW k \in FrameKeys, frames[k] # Null
               PROVE  /\ \E key \in PassKeys : passes'[key] = k.pass
                      /\ \A v \in Elements(k.views) : format[v] # Null
    BY <1>2 DEF FramesOfPasses
  <2>1. k.pass # Null BY RenderingAssumption DEF FrameKeys
  <2> QED BY <1>3, <2>1 DEF CacheInv, FramesOfPasses
<1>15. CallSound(call[t])' BY <1>2, <1>6, <1>7, SettledSound
<1>16. ASSUME NEW u \in Threads \ {t} PROVE CallSound(call[u])'
  <2>1. CallSound(call[u]) /\ call'[u] = call[u] BY <1>7 DEF CacheInv
  <2>2. call[u].at = "insert" =>
           /\ livePass'[call[u].made] = livePass[call[u].made]
           /\ \A k \in PassKeys : passes'[k] # call[u].made
           /\ \A p \in AppPasses : legacy'[p] # call[u].made
    BY <1>1, <1>2, <1>3, <2>1 DEF CallSound, MadePass, OwnPass
  <2>3. call[u].at = "insertFrame" =>
           /\ liveFrame'[call[u].made] = liveFrame[call[u].made]
           /\ \A k \in FrameKeys : frames'[k] # call[u].made
    BY <1>2, <2>1 DEF CallSound, MadeFrame, OwnFrame
  <2>4. /\ \A v \in Elements(call[u].views) : format'[v] = format[v]
        /\ \A k \in FrameKeys : k.views = call[u].views /\ frames[k] # Null => frames'[k] = frames[k]
    BY <1>2
  <2> QED BY <1>3, <2>1, <2>2, <2>3, <2>4, CallStays
<1> QED BY <1>9, <1>10, <1>11, <1>12, <1>13, <1>14, <1>15, <1>16 DEF CacheInv


\* The loser of a race destroys the pass it made.
LEMMA DropPassStep ==
    ASSUME CacheInv, NEW t \in Threads, InsertPass(t), passes[Wanted(call[t])] # Null PROVE CacheInv'
<1> DEFINE c == call[t]
           w == Wanted(c)
           d == Give(c, passes[w])
<1>1. /\ c \in Calls /\ CallSound(c) /\ c.at = "insert"
      /\ Placed(c) /\ Viewing(c) /\ FoundBy(c, passes, frames)
      /\ w \in PassKeys /\ c.made \in PassHandles /\ livePass[c.made] = w
      /\ \A k \in PassKeys : passes[k] # c.made
      /\ \A p \in AppPasses : legacy[p] # c.made
      /\ \A u \in Threads \ {t} : call[u].at = "insert" => call[u].made # c.made
  BY InsertPassFacts
<1>2. /\ livePass' = [livePass EXCEPT ![c.made] = Null] /\ call' = [call EXCEPT ![t] = d]
      /\ UNCHANGED <<device, format, passes, owned, frames, index, legacy, liveFrame>>
  BY DEF InsertPass, To
<1>3. passes[w] \in PassHandles BY <1>1 DEF CacheInv, TypeOK
<1>4. d \in Calls /\ Settled(d, passes, frames) BY <1>1, <1>3, Given
<1> HIDE DEF w, d
<1>5. /\ livePass' \in [PassHandles -> PassKeys \cup {NoKey, Null}] /\ livePass'[c.made] = Null
      /\ \A g \in PassHandles \ {c.made} : livePass'[g] = livePass[g]
  BY <1>1, <1>2 DEF CacheInv, TypeOK
<1>6. call' \in [Threads -> Calls] /\ call'[t] = d /\ \A u \in Threads \ {t} : call'[u] = call[u]
  BY <1>2, <1>4 DEF CacheInv, TypeOK
<1>7. d.at \notin {"insert", "insertFrame"} BY <1>4 DEF Settled
<1>8. TypeOK' BY <1>2, <1>5, <1>6 DEF CacheInv, TypeOK, device
<1>9. CacheSound'
  <2>1. \A k \in PassKeys : passes'[k] # Null => livePass'[passes'[k]] = k
    BY <1>1, <1>2, <1>5 DEF CacheInv, CacheSound, TypeOK
  <2>2. ASSUME NEW k \in FrameKeys, frames'[k] # Null
        PROVE  /\ liveFrame'[frames'[k]] = k /\ livePass'[k.pass] # Null
               /\ livePass'[k.pass].formats = FormatsNext(k.views)
    <3>1. k.pass \in PassHandles \ {c.made} BY <1>1, <1>2, <2>2 DEF CacheInv, FramesOfPasses, FrameKeys
    <3> QED BY <1>2, <1>5, <2>2, <3>1, CachedFacts DEF CacheInv, FormatsOf, FormatsNext
  <2> QED BY <2>1, <2>2, CachedNext
<1>10. Indexed' BY <1>2 DEF CacheInv, Indexed
<1>11. Accounted'
  <2>1. \A u \in Threads \ {t} : \A place, g : Holding(u, place, g) => Holding(u, place, g)'
    BY <1>6 DEF Holding
  <2>2. \A g : Holding(t, "insert", g) => g = c.made BY <1>1 DEF Holding
  <2>3. \A g : ~Holding(t, "insertFrame", g) BY <1>1 DEF Holding
  <2>4. ASSUME NEW g \in PassHandles, livePass'[g] # Null
        PROVE  \/ \E k \in PassKeys : passes'[k] = g
               \/ \E p \in AppPasses : legacy'[p] = g
               \/ \E u \in Threads : Holding(u, "insert", g)'
    <3>1. g # c.made /\ livePass[g] # Null BY <1>1, <1>5, <2>4
    <3>2. \/ \E k \in PassKeys : passes[k] = g
          \/ \E p \in AppPasses : legacy[p] = g
          \/ \E u \in Threads : Holding(u, "insert", g)
      BY <3>1 DEF CacheInv, Accounted
    <3> QED BY <1>2, <2>1, <2>2, <3>1, <3>2
  <2>5. \A g \in FrameHandles : liveFrame'[g] # Null =>
           \/ \E k \in FrameKeys : frames'[k] = g
           \/ \E u \in Threads : Holding(u, "insertFrame", g)'
    BY <1>2, <2>1, <2>3 DEF CacheInv, Accounted
  <2>6. /\ \A g \in PassHandles : g \in owned'.passes <=> \E k \in PassKeys : passes'[k] = g
        /\ \A g \in FrameHandles : g \in owned'.frames <=> \E k \in FrameKeys : frames'[k] = g
    BY <1>2 DEF CacheInv, Accounted
  <2> QED BY <2>4, <2>5, <2>6 DEF Accounted
<1>12. Separate'
  <2>1. \A p \in AppPasses : legacy'[p] # Null =>
           /\ livePass'[legacy'[p]] # Null
           /\ \A k \in PassKeys : passes'[k] # legacy'[p]
           /\ \A q \in AppPasses \ {p} : legacy'[q] # legacy'[p]
    BY <1>1, <1>2, <1>5 DEF CacheInv, Separate, TypeOK
  <2>2. \A u, v \in Threads :
           u # v /\ call'[u].at = call'[v].at /\ call'[u].at \in {"insert", "insertFrame"}
              => call'[u].made # call'[v].made
    BY <1>6, <1>7 DEF CacheInv, Separate
  <2> QED BY <2>1, <2>2 DEF Separate
<1>13. FramesOfPasses' BY <1>2 DEF CacheInv, FramesOfPasses
<1>14. CallSound(call[t])' BY <1>2, <1>4, <1>6, SettledSound
<1>15. ASSUME NEW u \in Threads \ {t} PROVE CallSound(call[u])'
  <2>1. CallSound(call[u]) /\ call'[u] = call[u] BY <1>6 DEF CacheInv
  <2>2. call[u].at = "insert" =>
           /\ livePass'[call[u].made] = livePass[call[u].made]
           /\ \A k \in PassKeys : passes'[k] # call[u].made
           /\ \A p \in AppPasses : legacy'[p] # call[u].made
    BY <1>1, <1>2, <1>5, <2>1 DEF CallSound, MadePass, OwnPass
  <2>3. call[u].at = "insertFrame" =>
           /\ liveFrame'[call[u].made] = liveFrame[call[u].made]
           /\ \A k \in FrameKeys : frames'[k] # call[u].made
    BY <1>2, <2>1 DEF CallSound, MadeFrame, OwnFrame
  <2>4. /\ \A v \in Elements(call[u].views) : format'[v] = format[v]
        /\ \A k \in PassKeys : passes[k] # Null => passes'[k] = passes[k]
        /\ \A k \in FrameKeys : k.views = call[u].views /\ frames[k] # Null => frames'[k] = frames[k]
    BY <1>2
  <2> QED BY <2>1, <2>2, <2>3, <2>4, CallStays
<1> QED BY <1>8, <1>9, <1>10, <1>11, <1>12, <1>13, <1>14, <1>15 DEF CacheInv

\* A call at "frame" or "insertFrame".
LEMMA FrameCallFacts ==
    ASSUME CacheInv, NEW t \in Threads, call[t].at \in {"frame", "insertFrame"}
    PROVE  LET c == call[t] IN
           /\ c \in Calls /\ CallSound(c) /\ c.use = "begin" /\ c.key \in PassKeys
           /\ Placed(c) /\ Viewing(c) /\ FoundBy(c, passes, frames)
           /\ c.pass \in PassHandles /\ passes[c.key] = c.pass /\ c.views \in Attachments
           /\ FrameKey(c) \in FrameKeys
<1> DEFINE c == call[t]
<1>1. c \in Calls /\ CallSound(c) BY DEF CacheInv, TypeOK
<1>2. c.use = "begin" /\ c.pass # Null /\ c.key \in PassKeys BY <1>1 DEF CallSound, Placed, Calls
<1>3. c.views \in Attachments BY <1>1, <1>2 DEF CallSound, Viewing, Renders
<1>4. c.pass \in PassHandles BY <1>1, <1>2 DEF Calls
<1> QED BY <1>1, <1>2, <1>3, <1>4, FrameKeyType DEF CallSound, FoundIn, FoundBy

LEMMA CreateFrameStep ==
    ASSUME CacheInv, NEW t \in Threads, CreateFrame(t) PROVE CacheInv'
<1> DEFINE c == call[t]
<1>1. /\ c.at = "frame" /\ UNCHANGED <<device, format, caches, legacy, livePass>>
      /\ c \in Calls /\ CallSound(c) /\ c.use = "begin" /\ c.key \in PassKeys
      /\ Placed(c) /\ Viewing(c) /\ FoundBy(c, passes, frames)
      /\ c.pass \in PassHandles /\ FrameKey(c) \in FrameKeys
  BY FrameCallFacts DEF CreateFrame, At
<1>2. CASE To(t, Idle) /\ UNCHANGED liveFrame
  BY <1>1, <1>2, IdleFacts, IdleSettled, CallStep DEF driver
<1>3. ASSUME NEW h \in FrameHandles, liveFrame[h] = Null,
             liveFrame' = [liveFrame EXCEPT ![h] = FrameKey(c)],
             To(t, [c EXCEPT !.at = "insertFrame", !.made = h])
      PROVE  CacheInv'
  <2> DEFINE d == [c EXCEPT !.at = "insertFrame", !.made = h]
  <2>1. /\ d \in Calls /\ d.at = "insertFrame" /\ d.made = h /\ d.use = c.use /\ d.key = c.key
        /\ d.views = c.views /\ d.pass = c.pass /\ d.frame = c.frame /\ d.continuation = c.continuation
    BY <1>1 DEF Calls, Places
  <2>2. call' = [call EXCEPT ![t] = d] BY <1>3 DEF To
  <2> HIDE DEF d
  <2>3. call' \in [Threads -> Calls] /\ call'[t] = d /\ \A u \in Threads \ {t} : call'[u] = call[u]
    BY <2>1, <2>2 DEF CacheInv, TypeOK
  <2>4. /\ \A k \in FrameKeys : frames[k] # h
        /\ \A u \in Threads : call[u].at = "insertFrame" => call[u].made # h
        /\ h # Null
    BY <1>3, DeadFrame, RenderingAssumption
  <2>5. /\ liveFrame' \in [FrameHandles -> FrameKeys \cup {Null}]
        /\ liveFrame'[h] = FrameKey(c)
        /\ \A g \in FrameHandles \ {h} : liveFrame'[g] = liveFrame[g]
    BY <1>1, <1>3 DEF CacheInv, TypeOK
  <2> USE DEF device, caches
  <2>6. TypeOK' BY <1>1, <2>3, <2>5 DEF CacheInv, TypeOK
  <2>7. CacheSound'
    <3>1. \A k \in PassKeys : passes'[k] # Null => livePass'[passes'[k]] = k
      BY <1>1 DEF CacheInv, CacheSound
    <3>2. ASSUME NEW k \in FrameKeys, frames'[k] # Null
          PROVE  /\ liveFrame'[frames'[k]] = k /\ livePass'[k.pass] # Null
                 /\ livePass'[k.pass].formats = FormatsNext(k.views)
      <4>1. frames[k] \in FrameHandles \ {h} BY <1>1, <2>4, <3>2 DEF CacheInv, TypeOK
      <4> QED BY <1>1, <2>5, <3>2, <4>1, CachedFacts DEF CacheInv, FormatsOf, FormatsNext
    <3> QED BY <3>1, <3>2, CachedNext
  <2>8. Indexed' BY <1>1 DEF CacheInv, Indexed
  <2>9. Accounted'
    <3>1. \A u \in Threads : \A g, place : Holding(u, place, g) /\ place \in {"insert", "insertFrame"}
             => Holding(u, place, g)'
      BY <1>1, <2>3 DEF Holding
    <3>2. Holding(t, "insertFrame", h)' BY <2>1, <2>3 DEF Holding
    <3>3. ASSUME NEW g \in FrameHandles, liveFrame'[g] # Null
          PROVE  \/ \E k \in FrameKeys : frames'[k] = g
                 \/ \E u \in Threads : Holding(u, "insertFrame", g)'
      BY <1>1, <2>5, <3>1, <3>2, <3>3 DEF CacheInv, Accounted
    <3>4. \A g \in PassHandles : livePass'[g] # Null =>
             \/ \E k \in PassKeys : passes'[k] = g
             \/ \E p \in AppPasses : legacy'[p] = g
             \/ \E u \in Threads : Holding(u, "insert", g)'
      BY <1>1, <3>1 DEF CacheInv, Accounted
    <3>5. /\ \A g \in PassHandles : g \in owned'.passes <=> \E k \in PassKeys : passes'[k] = g
          /\ \A g \in FrameHandles : g \in owned'.frames <=> \E k \in FrameKeys : frames'[k] = g
      BY <1>1 DEF CacheInv, Accounted
    <3> QED BY <3>3, <3>4, <3>5 DEF Accounted
  <2>10. Separate'
    <3>1. \A p \in AppPasses : legacy'[p] # Null =>
             /\ livePass'[legacy'[p]] # Null
             /\ \A k \in PassKeys : passes'[k] # legacy'[p]
             /\ \A q \in AppPasses \ {p} : legacy'[q] # legacy'[p]
      BY <1>1 DEF CacheInv, Separate
    <3>2. \A u, w \in Threads :
             u # w /\ call'[u].at = call'[w].at /\ call'[u].at \in {"insert", "insertFrame"}
                => call'[u].made # call'[w].made
      BY <2>1, <2>3, <2>4 DEF CacheInv, Separate
    <3> QED BY <3>1, <3>2 DEF Separate
  <2>11. FramesOfPasses' BY <1>1 DEF CacheInv, FramesOfPasses
  <2>12. CallSound(call[t])'
    <3>1. Placed(d) /\ Viewing(d) BY <1>1, <2>1 DEF Placed, Viewing, Renders
    <3>2. FoundBy(d, passes', frames') BY <1>1, <2>1 DEF FoundBy, FrameKey
    <3>3. OwnPass(d, livePass', passes', legacy') /\ OwnFrame(d, liveFrame', frames')
      BY <1>1, <2>1, <2>4, <2>5 DEF OwnPass, OwnFrame, FrameKey
    <3> QED BY <1>1, <2>3, <3>1, <3>2, <3>3, MovedSound
  <2>13. ASSUME NEW u \in Threads \ {t} PROVE CallSound(call[u])'
    <3>1. CallSound(call[u]) /\ call'[u] = call[u] BY <2>3 DEF CacheInv
    <3>2. call[u].at = "insert" =>
             /\ livePass'[call[u].made] = livePass[call[u].made]
             /\ \A k \in PassKeys : passes'[k] # call[u].made
             /\ \A p \in AppPasses : legacy'[p] # call[u].made
      BY <1>1, <3>1 DEF CallSound, MadePass, OwnPass
    <3>3. call[u].at = "insertFrame" =>
             /\ liveFrame'[call[u].made] = liveFrame[call[u].made]
             /\ \A k \in FrameKeys : frames'[k] # call[u].made
      BY <1>1, <2>4, <2>5, <3>1 DEF CallSound, MadeFrame, OwnFrame
    <3>4. /\ \A v \in Elements(call[u].views) : format'[v] = format[v]
          /\ \A k \in PassKeys : passes[k] # Null => passes'[k] = passes[k]
          /\ \A k \in FrameKeys : k.views = call[u].views /\ frames[k] # Null => frames'[k] = frames[k]
      BY <1>1
    <3> QED BY <3>1, <3>2, <3>3, <3>4, CallStays
  <2> QED BY <2>6, <2>7, <2>8, <2>9, <2>10, <2>11, <2>12, <2>13 DEF CacheInv
<1> QED BY <1>2, <1>3 DEF CreateFrame, FrameKey


LEMMA InsertFrameFacts ==
    ASSUME CacheInv, NEW t \in Threads, InsertFrame(t)
    PROVE  LET c == call[t] IN
           /\ c \in Calls /\ CallSound(c) /\ c.at = "insertFrame" /\ c.use = "begin" /\ c.key \in PassKeys
           /\ Placed(c) /\ Viewing(c) /\ FoundBy(c, passes, frames)
           /\ c.pass \in PassHandles /\ passes[c.key] = c.pass /\ c.views \in Attachments
           /\ FrameKey(c) \in FrameKeys /\ c.made \in FrameHandles /\ c.made # Null
           /\ liveFrame[c.made] = FrameKey(c)
           /\ \A k \in FrameKeys : frames[k] # c.made
           /\ \A u \in Threads \ {t} : call[u].at = "insertFrame" => call[u].made # c.made
<1> DEFINE c == call[t]
<1>1. c.at = "insertFrame" BY DEF InsertFrame, At
<1>2. /\ c \in Calls /\ CallSound(c) /\ c.use = "begin" /\ c.key \in PassKeys
      /\ Placed(c) /\ Viewing(c) /\ FoundBy(c, passes, frames)
      /\ c.pass \in PassHandles /\ passes[c.key] = c.pass /\ c.views \in Attachments
      /\ FrameKey(c) \in FrameKeys
  BY <1>1, FrameCallFacts
<1>3. \A u \in Threads \ {t} : call[u].at = "insertFrame" => call[u].made # c.made
  BY <1>1 DEF CacheInv, Separate
<1>4. /\ c.made \in FrameHandles /\ liveFrame[c.made] = FrameKey(c)
      /\ \A k \in FrameKeys : frames[k] # c.made
  BY <1>1, <1>2 DEF CallSound, MadeFrame, OwnFrame
<1>5. c.made # Null BY <1>4, RenderingAssumption
<1> QED BY <1>1, <1>2, <1>3, <1>4, <1>5

LEMMA ToRecord ==
    ASSUME NEW c \in Calls, Placed(c), Viewing(c), c.use = "begin", c.key \in PassKeys, c.pass \in PassHandles,
           NEW ps, NEW fs, FoundBy(c, ps, fs), NEW h \in FrameHandles, fs[FrameKey(c)] = h,
           NEW d, d = [c EXCEPT !.at = "record", !.frame = h, !.made = Null]
    PROVE  d \in Calls /\ Settled(d, ps, fs)
<1>1. /\ d \in Calls /\ d.at = "record" /\ d.frame = h /\ d.use = c.use /\ d.key = c.key
      /\ d.views = c.views /\ d.pass = c.pass /\ d.continuation = c.continuation
  BY DEF Calls, Places
<1>2. h # Null /\ c.pass # Null BY RenderingAssumption
<1> QED BY <1>1, <1>2 DEF Settled, Placed, Viewing, Renders, FoundBy, FrameKey

LEMMA KeepFrameStep ==
    ASSUME CacheInv, NEW t \in Threads, InsertFrame(t), frames[FrameKey(call[t])] = Null PROVE CacheInv'
<1> DEFINE c == call[t]
           w == FrameKey(c)
           d == [c EXCEPT !.at = "record", !.frame = c.made, !.made = Null]
<1>1. /\ c \in Calls /\ CallSound(c) /\ c.at = "insertFrame" /\ c.use = "begin" /\ c.key \in PassKeys
      /\ Placed(c) /\ Viewing(c) /\ FoundBy(c, passes, frames)
      /\ c.pass \in PassHandles /\ passes[c.key] = c.pass /\ c.views \in Attachments
      /\ w \in FrameKeys /\ c.made \in FrameHandles /\ c.made # Null /\ liveFrame[c.made] = w
      /\ \A k \in FrameKeys : frames[k] # c.made
      /\ \A u \in Threads \ {t} : call[u].at = "insertFrame" => call[u].made # c.made
  BY InsertFrameFacts
<1>2. /\ frames' = [frames EXCEPT ![w] = c.made]
      /\ owned' = [owned EXCEPT !["frames"] = @ \cup {c.made}]
      /\ index' = [v \in Views |-> IF v \in Elements(w.views) THEN index[v] \cup {w} ELSE index[v]]
      /\ call' = [call EXCEPT ![t] = d]
      /\ UNCHANGED <<device, format, passes, legacy, livePass, liveFrame>>
  BY DEF InsertFrame, Owned, To, Viewed, FrameKey
<1>3. w.pass = c.pass /\ w.views = c.views BY DEF FrameKey
<1>4. /\ frames' \in [FrameKeys -> FrameHandles \cup {Null}] /\ frames'[w] = c.made
      /\ \A k \in FrameKeys \ {w} : frames'[k] = frames[k]
      /\ \A k \in FrameKeys : frames[k] # Null => frames'[k] = frames[k]
  BY <1>1, <1>2 DEF CacheInv, TypeOK
<1>5. /\ owned' \in [passes : SUBSET PassHandles, frames : SUBSET FrameHandles]
      /\ owned'.frames = owned.frames \cup {c.made} /\ owned'.passes = owned.passes
  BY <1>1, <1>2 DEF CacheInv, TypeOK
<1>6. FoundBy(c, passes', frames') BY <1>1, <1>2, <1>4, FoundKeys DEF FoundBy
<1>7. d \in Calls /\ Settled(d, passes', frames') BY <1>1, <1>4, <1>6, ToRecord
<1> HIDE DEF w, d
<1>8. call' \in [Threads -> Calls] /\ call'[t] = d /\ \A u \in Threads \ {t} : call'[u] = call[u]
  BY <1>2, <1>7 DEF CacheInv, TypeOK
<1>9. d.at \notin {"insert", "insertFrame"} BY <1>7 DEF Settled
<1>10. index' \in [Views -> SUBSET FrameKeys] BY <1>1, <1>2 DEF CacheInv, TypeOK
<1>11. TypeOK' BY <1>2, <1>4, <1>5, <1>8, <1>10 DEF CacheInv, TypeOK, device
<1>12. /\ c.key.formats = FormatsOf(w.views) /\ livePass[w.pass] = c.key
       /\ \A v \in Elements(w.views) : format[v] # Null
  BY <1>1, <1>3, CachedFacts, RenderingAssumption DEF CacheInv, Viewing, Renders
<1>13. CacheSound'
  <2>1. \A k \in PassKeys : passes'[k] # Null => livePass'[passes'[k]] = k
    BY <1>2 DEF CacheInv, CacheSound
  <2>2. ASSUME NEW k \in FrameKeys, frames'[k] # Null
        PROVE  /\ liveFrame'[frames'[k]] = k /\ livePass'[k.pass] # Null
               /\ livePass'[k.pass].formats = FormatsNext(k.views)
    <3>1. CASE k = w
      <4>1. c.key # Null BY <1>1, RenderingAssumption
      <4> QED BY <1>1, <1>2, <1>4, <1>12, <3>1, <4>1 DEF FormatsOf, FormatsNext
    <3>2. CASE k # w BY <1>2, <1>4, <2>2, <3>2, CachedFacts DEF CacheInv, FormatsOf, FormatsNext
    <3> QED BY <3>1, <3>2
  <2> QED BY <2>1, <2>2, CachedNext
<1>14. Indexed'
  <2> SUFFICES ASSUME NEW v \in Views, NEW k \in FrameKeys
               PROVE  k \in index'[v] <=> frames'[k] # Null /\ v \in Elements(k.views)
    BY DEF Indexed
  <2>1. k \in index[v] <=> frames[k] # Null /\ v \in Elements(k.views) BY DEF CacheInv, Indexed
  <2> QED BY <1>1, <1>2, <1>4, <2>1
<1>15. Accounted'
  <2>1. \A u \in Threads \ {t} : \A place, g : Holding(u, place, g) => Holding(u, place, g)'
    BY <1>8 DEF Holding
  <2>2. \A g : Holding(t, "insertFrame", g) => g = c.made BY <1>1 DEF Holding
  <2>3. \A g : ~Holding(t, "insert", g) BY <1>1 DEF Holding
  <2>4. ASSUME NEW g \in FrameHandles, liveFrame'[g] # Null
        PROVE  \/ \E k \in FrameKeys : frames'[k] = g
               \/ \E u \in Threads : Holding(u, "insertFrame", g)'
    <3>1. \/ \E k \in FrameKeys : frames[k] = g
          \/ \E u \in Threads : Holding(u, "insertFrame", g)
      BY <1>2, <2>4 DEF CacheInv, Accounted
    <3>2. g # Null BY RenderingAssumption
    <3> QED BY <1>1, <1>4, <2>1, <2>2, <3>1, <3>2
  <2>5. \A g \in PassHandles : livePass'[g] # Null =>
           \/ \E k \in PassKeys : passes'[k] = g
           \/ \E p \in AppPasses : legacy'[p] = g
           \/ \E u \in Threads : Holding(u, "insert", g)'
    BY <1>2, <2>1, <2>3 DEF CacheInv, Accounted
  <2>6. ASSUME NEW g \in FrameHandles PROVE g \in owned'.frames <=> \E k \in FrameKeys : frames'[k] = g
    <3>1. g \in owned.frames <=> \E k \in FrameKeys : frames[k] = g BY DEF CacheInv, Accounted
    <3>2. g # Null BY RenderingAssumption
    <3> QED BY <1>1, <1>4, <1>5, <3>1, <3>2
  <2>7. \A g \in PassHandles : g \in owned'.passes <=> \E k \in PassKeys : passes'[k] = g
    BY <1>2, <1>5 DEF CacheInv, Accounted
  <2> QED BY <2>4, <2>5, <2>6, <2>7 DEF Accounted
<1>16. Separate'
  <2>1. \A p \in AppPasses : legacy'[p] # Null =>
           /\ livePass'[legacy'[p]] # Null
           /\ \A k \in PassKeys : passes'[k] # legacy'[p]
           /\ \A q \in AppPasses \ {p} : legacy'[q] # legacy'[p]
    BY <1>2 DEF CacheInv, Separate
  <2>2. \A u, v \in Threads :
           u # v /\ call'[u].at = call'[v].at /\ call'[u].at \in {"insert", "insertFrame"}
              => call'[u].made # call'[v].made
    BY <1>8, <1>9 DEF CacheInv, Separate
  <2> QED BY <2>1, <2>2 DEF Separate
<1>17. FramesOfPasses'
  <2> SUFFICES ASSUME NEW k \in FrameKeys, frames'[k] # Null
               PROVE  /\ \E key \in PassKeys : passes[key] = k.pass
                      /\ \A v \in Elements(k.views) : format[v] # Null
    BY <1>2 DEF FramesOfPasses
  <2>1. CASE k = w BY <1>1, <1>3, <1>12, <2>1
  <2>2. CASE k # w BY <1>4, <2>2 DEF CacheInv, FramesOfPasses
  <2> QED BY <2>1, <2>2
<1>18. CallSound(call[t])' BY <1>2, <1>7, <1>8, SettledSound
<1>19. ASSUME NEW u \in Threads \ {t} PROVE CallSound(call[u])'
  <2>1. CallSound(call[u]) /\ call'[u] = call[u] BY <1>8 DEF CacheInv
  <2>2. call[u].at = "insert" =>
           /\ livePass'[call[u].made] = livePass[call[u].made]
           /\ \A k \in PassKeys : passes'[k] # call[u].made
           /\ \A p \in AppPasses : legacy'[p] # call[u].made
    BY <1>2, <2>1 DEF CallSound, MadePass, OwnPass
  <2>3. call[u].at = "insertFrame" =>
           /\ liveFrame'[call[u].made] = liveFrame[call[u].made]
           /\ \A k \in FrameKeys : frames'[k] # call[u].made
    BY <1>1, <1>2, <1>4, <2>1 DEF CallSound, MadeFrame, OwnFrame
  <2>4. /\ \A v \in Elements(call[u].views) : format'[v] = format[v]
        /\ \A k \in PassKeys : passes[k] # Null => passes'[k] = passes[k]
    BY <1>2
  <2> QED BY <1>4, <2>1, <2>2, <2>3, <2>4, CallStays
<1> QED BY <1>11, <1>13, <1>14, <1>15, <1>16, <1>17, <1>18, <1>19 DEF CacheInv

\* The loser of a race destroys the framebuffer it made.
LEMMA DropFrameStep ==
    ASSUME CacheInv, NEW t \in Threads, InsertFrame(t), frames[FrameKey(call[t])] # Null PROVE CacheInv'
<1> DEFINE c == call[t]
           w == FrameKey(c)
           d == [c EXCEPT !.at = "record", !.frame = frames[w], !.made = Null]
<1>1. /\ c \in Calls /\ CallSound(c) /\ c.at = "insertFrame" /\ c.use = "begin" /\ c.key \in PassKeys
      /\ Placed(c) /\ Viewing(c) /\ FoundBy(c, passes, frames)
      /\ c.pass \in PassHandles /\ passes[c.key] = c.pass /\ c.views \in Attachments
      /\ w \in FrameKeys /\ c.made \in FrameHandles /\ c.made # Null /\ liveFrame[c.made] = w
      /\ \A k \in FrameKeys : frames[k] # c.made
      /\ \A u \in Threads \ {t} : call[u].at = "insertFrame" => call[u].made # c.made
  BY InsertFrameFacts
<1>2. /\ liveFrame' = [liveFrame EXCEPT ![c.made] = Null] /\ call' = [call EXCEPT ![t] = d]
      /\ UNCHANGED <<device, format, passes, frames, index, owned, legacy, livePass>>
  BY DEF InsertFrame, To, FrameKey
<1>3. frames[w] \in FrameHandles BY <1>1 DEF CacheInv, TypeOK
<1>4. d \in Calls /\ Settled(d, passes, frames) BY <1>1, <1>3, ToRecord
<1> HIDE DEF w, d
<1>5. /\ liveFrame' \in [FrameHandles -> FrameKeys \cup {Null}] /\ liveFrame'[c.made] = Null
      /\ \A g \in FrameHandles \ {c.made} : liveFrame'[g] = liveFrame[g]
  BY <1>1, <1>2 DEF CacheInv, TypeOK
<1>6. call' \in [Threads -> Calls] /\ call'[t] = d /\ \A u \in Threads \ {t} : call'[u] = call[u]
  BY <1>2, <1>4 DEF CacheInv, TypeOK
<1>7. d.at \notin {"insert", "insertFrame"} BY <1>4 DEF Settled
<1>8. TypeOK' BY <1>2, <1>5, <1>6 DEF CacheInv, TypeOK, device
<1>9. CacheSound'
  <2>1. \A k \in PassKeys : passes'[k] # Null => livePass'[passes'[k]] = k
    BY <1>2 DEF CacheInv, CacheSound
  <2>2. ASSUME NEW k \in FrameKeys, frames'[k] # Null
        PROVE  /\ liveFrame'[frames'[k]] = k /\ livePass'[k.pass] # Null
               /\ livePass'[k.pass].formats = FormatsNext(k.views)
    <3>1. frames[k] \in FrameHandles \ {c.made} BY <1>1, <1>2, <2>2 DEF CacheInv, TypeOK
    <3> QED BY <1>2, <1>5, <2>2, <3>1, CachedFacts DEF CacheInv, FormatsOf, FormatsNext
  <2> QED BY <2>1, <2>2, CachedNext
<1>10. Indexed' BY <1>2 DEF CacheInv, Indexed
<1>11. Accounted'
  <2>1. \A u \in Threads \ {t} : \A place, g : Holding(u, place, g) => Holding(u, place, g)'
    BY <1>6 DEF Holding
  <2>2. \A g : Holding(t, "insertFrame", g) => g = c.made BY <1>1 DEF Holding
  <2>3. \A g : ~Holding(t, "insert", g) BY <1>1 DEF Holding
  <2>4. ASSUME NEW g \in FrameHandles, liveFrame'[g] # Null
        PROVE  \/ \E k \in FrameKeys : frames'[k] = g
               \/ \E u \in Threads : Holding(u, "insertFrame", g)'
    <3>1. g # c.made /\ liveFrame[g] # Null BY <1>5, <2>4
    <3> QED BY <1>2, <2>1, <2>2, <3>1 DEF CacheInv, Accounted
  <2>5. \A g \in PassHandles : livePass'[g] # Null =>
           \/ \E k \in PassKeys : passes'[k] = g
           \/ \E p \in AppPasses : legacy'[p] = g
           \/ \E u \in Threads : Holding(u, "insert", g)'
    BY <1>2, <2>1, <2>3 DEF CacheInv, Accounted
  <2>6. /\ \A g \in PassHandles : g \in owned'.passes <=> \E k \in PassKeys : passes'[k] = g
        /\ \A g \in FrameHandles : g \in owned'.frames <=> \E k \in FrameKeys : frames'[k] = g
    BY <1>2 DEF CacheInv, Accounted
  <2> QED BY <2>4, <2>5, <2>6 DEF Accounted
<1>12. Separate'
  <2>1. \A p \in AppPasses : legacy'[p] # Null =>
           /\ livePass'[legacy'[p]] # Null
           /\ \A k \in PassKeys : passes'[k] # legacy'[p]
           /\ \A q \in AppPasses \ {p} : legacy'[q] # legacy'[p]
    BY <1>2 DEF CacheInv, Separate
  <2>2. \A u, v \in Threads :
           u # v /\ call'[u].at = call'[v].at /\ call'[u].at \in {"insert", "insertFrame"}
              => call'[u].made # call'[v].made
    BY <1>6, <1>7 DEF CacheInv, Separate
  <2> QED BY <2>1, <2>2 DEF Separate
<1>13. FramesOfPasses' BY <1>2 DEF CacheInv, FramesOfPasses
<1>14. CallSound(call[t])' BY <1>2, <1>4, <1>6, SettledSound
<1>15. ASSUME NEW u \in Threads \ {t} PROVE CallSound(call[u])'
  <2>1. CallSound(call[u]) /\ call'[u] = call[u] BY <1>6 DEF CacheInv
  <2>2. call[u].at = "insert" =>
           /\ livePass'[call[u].made] = livePass[call[u].made]
           /\ \A k \in PassKeys : passes'[k] # call[u].made
           /\ \A p \in AppPasses : legacy'[p] # call[u].made
    BY <1>2, <2>1 DEF CallSound, MadePass, OwnPass
  <2>3. call[u].at = "insertFrame" =>
           /\ liveFrame'[call[u].made] = liveFrame[call[u].made]
           /\ \A k \in FrameKeys : frames'[k] # call[u].made
    BY <1>1, <1>2, <1>5, <2>1 DEF CallSound, MadeFrame, OwnFrame
  <2>4. /\ \A v \in Elements(call[u].views) : format'[v] = format[v]
        /\ \A k \in PassKeys : passes[k] # Null => passes'[k] = passes[k]
        /\ \A k \in FrameKeys : k.views = call[u].views /\ frames[k] # Null => frames'[k] = frames[k]
    BY <1>2
  <2> QED BY <2>1, <2>2, <2>3, <2>4, CallStays
<1> QED BY <1>8, <1>9, <1>10, <1>11, <1>12, <1>13, <1>14, <1>15 DEF CacheInv


-----------------------------------------------------------------------------
(* RenderingCache: views, passes of the application and the device.         *)

LEMMA CreateViewStep ==
    ASSUME CacheInv, NEW v \in Views, NEW f \in Formats, CreateView(v, f) PROVE CacheInv'
<1>1. /\ format[v] = Null /\ format' = [format EXCEPT ![v] = f]
      /\ UNCHANGED <<device, caches, legacy, driver, call>>
  BY DEF CreateView
<1>2. /\ format' \in [Views -> Formats \cup {Null}] /\ f # Null
      /\ \A w \in Views : format[w] # Null => format'[w] = format[w] /\ w # v
  BY <1>1, RenderingAssumption DEF CacheInv, TypeOK
<1> USE DEF device, caches, driver
<1>3. TypeOK' BY <1>1, <1>2 DEF CacheInv, TypeOK
<1>4. \A k \in FrameKeys : frames[k] # Null =>
         FormatsNext(k.views) = FormatsOf(k.views) /\ \A w \in Elements(k.views) : format'[w] # Null
  <2> SUFFICES ASSUME NEW k \in FrameKeys, frames[k] # Null
               PROVE  FormatsNext(k.views) = FormatsOf(k.views) /\ \A w \in Elements(k.views) : format'[w] # Null
    OBVIOUS
  <2>1. k.views \in Attachments BY DEF FrameKeys
  <2>2. \A w \in Elements(k.views) : w \in Views /\ format[w] # Null
    BY <2>1, ListFacts DEF CacheInv, FramesOfPasses
  <2>3. \A w \in Elements(k.views) : format'[w] = format[w] BY <1>2, <2>2
  <2>4. \A i \in DOMAIN k.views : k.views[i] \in Elements(k.views) BY <2>1, ListFacts
  <2> QED BY <2>2, <2>3, <2>4 DEF FormatsNext, FormatsOf
<1>5. CacheSound'
  <2>1. \A k \in PassKeys : passes'[k] # Null => livePass'[passes'[k]] = k
    BY <1>1 DEF CacheInv, CacheSound
  <2>2. \A k \in FrameKeys : frames'[k] # Null =>
           /\ liveFrame'[frames'[k]] = k /\ livePass'[k.pass] # Null
           /\ livePass'[k.pass].formats = FormatsNext(k.views)
    BY <1>1, <1>4, CachedFacts DEF CacheInv
  <2> QED BY <2>1, <2>2, CachedNext
<1>6. Indexed' BY <1>1 DEF CacheInv, Indexed
<1>7. Accounted' BY <1>1 DEF CacheInv, Accounted, Holding
<1>8. Separate' BY <1>1 DEF CacheInv, Separate
<1>9. FramesOfPasses' BY <1>1, <1>4 DEF CacheInv, FramesOfPasses
<1>10. ASSUME NEW u \in Threads PROVE CallSound(call[u])'
  <2>1. CallSound(call[u]) /\ call[u] \in Calls BY DEF CacheInv, TypeOK
  <2>2. \A w \in Elements(call[u].views) : format'[w] = format[w]
    <3>1. CASE Renders(call[u])
      BY <2>1, <3>1, <1>2, ListFacts DEF CallSound, Viewing
    <3>2. CASE ~Renders(call[u]) BY <2>1, <3>2 DEF CallSound, Viewing, Elements
    <3> QED BY <3>1, <3>2
  <2>3. call[u].at = "insert" =>
           /\ \A k \in PassKeys : passes'[k] # call[u].made
           /\ \A p \in AppPasses : legacy'[p] # call[u].made
    BY <1>1, <2>1 DEF CallSound, MadePass, OwnPass
  <2>4. call[u].at = "insertFrame" => \A k \in FrameKeys : frames'[k] # call[u].made
    BY <1>1, <2>1 DEF CallSound, MadeFrame, OwnFrame
  <2> QED BY <1>1, <2>2, <2>3, <2>4, CallStays
<1> QED BY <1>3, <1>5, <1>6, <1>7, <1>8, <1>9, <1>10 DEF CacheInv

LEMMA DestroyViewStep ==
    ASSUME CacheInv, NEW v \in Views, DestroyView(v) PROVE CacheInv'
<1> DEFINE keys == index[v]
           dead == Handles(keys)
<1>1. /\ \A u \in Threads : v \notin Elements(call[u].views)
      /\ format' = [format EXCEPT ![v] = Null]
      /\ liveFrame' = [h \in FrameHandles |-> IF h \in dead THEN Null ELSE liveFrame[h]]
      /\ owned' = [owned EXCEPT !.frames = @ \ dead]
      /\ frames' = [k \in FrameKeys |-> IF k \in keys THEN Null ELSE frames[k]]
      /\ index' = [w \in Views |-> IF w = v THEN {} ELSE index[w] \ keys]
      /\ UNCHANGED <<device, passes, legacy, livePass, call>>
  BY DEF DestroyView, Unindexed
<1>2. \A k \in FrameKeys : k \in keys <=> frames[k] # Null /\ v \in Elements(k.views)
  BY DEF CacheInv, Indexed
<1>3. /\ keys \subseteq FrameKeys
      /\ \A h \in FrameHandles : h \in dead <=> \E k \in keys : frames[k] = h
  BY RenderingAssumption DEF Handles, CacheInv, TypeOK
<1>4. \A k \in FrameKeys \ keys : frames[k] # Null => frames[k] \in FrameHandles \ dead
  <2> SUFFICES ASSUME NEW k \in FrameKeys \ keys, frames[k] # Null, frames[k] \in dead PROVE FALSE
    BY DEF CacheInv, TypeOK
  <2>1. PICK l \in keys : frames[l] = frames[k] BY <1>3 DEF CacheInv, TypeOK
  <2>2. liveFrame[frames[l]] = l /\ liveFrame[frames[k]] = k
    BY <1>2, <1>3, <2>1, CachedFacts DEF CacheInv
  <2> QED BY <2>1, <2>2
<1> HIDE DEF keys, dead
<1>5. /\ format' \in [Views -> Formats \cup {Null}]
      /\ \A w \in Views \ {v} : format'[w] = format[w]
  BY <1>1 DEF CacheInv, TypeOK
<1>6. /\ frames' \in [FrameKeys -> FrameHandles \cup {Null}]
      /\ \A k \in FrameKeys \ keys : frames'[k] = frames[k]
      /\ \A k \in keys : frames'[k] = Null
      /\ \A k \in FrameKeys : frames'[k] # Null => k \notin keys /\ frames[k] # Null
  BY <1>1, <1>3 DEF CacheInv, TypeOK
<1>7. /\ liveFrame' \in [FrameHandles -> FrameKeys \cup {Null}]
      /\ \A h \in FrameHandles \ dead : liveFrame'[h] = liveFrame[h]
      /\ \A h \in FrameHandles : h \in dead => liveFrame'[h] = Null
  BY <1>1 DEF CacheInv, TypeOK
<1>8. /\ owned' \in [passes : SUBSET PassHandles, frames : SUBSET FrameHandles]
      /\ owned'.frames = owned.frames \ dead /\ owned'.passes = owned.passes
  BY <1>1 DEF CacheInv, TypeOK
<1>9. index' \in [Views -> SUBSET FrameKeys] BY <1>1, <1>3 DEF CacheInv, TypeOK
<1>10. TypeOK' BY <1>1, <1>5, <1>6, <1>7, <1>8, <1>9 DEF CacheInv, TypeOK, device
<1>11. \A k \in FrameKeys : frames'[k] # Null =>
          FormatsNext(k.views) = FormatsOf(k.views) /\ \A w \in Elements(k.views) : format'[w] # Null
  <2> SUFFICES ASSUME NEW k \in FrameKeys, frames'[k] # Null
               PROVE  FormatsNext(k.views) = FormatsOf(k.views) /\ \A w \in Elements(k.views) : format'[w] # Null
    OBVIOUS
  <2>1. k.views \in Attachments /\ frames[k] # Null /\ v \notin Elements(k.views)
    BY <1>2, <1>6 DEF FrameKeys
  <2>2. \A w \in Elements(k.views) : w \in Views \ {v} /\ format[w] # Null
    BY <2>1, ListFacts DEF CacheInv, FramesOfPasses
  <2>3. \A w \in Elements(k.views) : format'[w] = format[w] BY <1>5, <2>2
  <2>4. \A i \in DOMAIN k.views : k.views[i] \in Elements(k.views) BY <2>1, ListFacts
  <2> QED BY <2>2, <2>3, <2>4 DEF FormatsNext, FormatsOf
<1>12. CacheSound'
  <2>1. \A k \in PassKeys : passes'[k] # Null => livePass'[passes'[k]] = k
    BY <1>1 DEF CacheInv, CacheSound
  <2>2. ASSUME NEW k \in FrameKeys, frames'[k] # Null
        PROVE  /\ liveFrame'[frames'[k]] = k /\ livePass'[k.pass] # Null
               /\ livePass'[k.pass].formats = FormatsNext(k.views)
    <3>1. frames'[k] = frames[k] /\ frames[k] # Null /\ frames[k] \in FrameHandles \ dead
      BY <1>4, <1>6, <2>2
    <3> QED BY <1>1, <1>7, <1>11, <2>2, <3>1, CachedFacts DEF CacheInv
  <2> QED BY <2>1, <2>2, CachedNext
<1>13. Indexed'
  <2> SUFFICES ASSUME NEW w \in Views, NEW k \in FrameKeys
               PROVE  k \in index'[w] <=> frames'[k] # Null /\ w \in Elements(k.views)
    BY DEF Indexed
  <2>1. k \in index[w] <=> frames[k] # Null /\ w \in Elements(k.views) BY DEF CacheInv, Indexed
  <2> QED BY <1>1, <1>2, <1>6, <2>1
<1>14. Accounted'
  <2>1. \A g \in PassHandles : livePass'[g] # Null =>
           \/ \E k \in PassKeys : passes'[k] = g
           \/ \E p \in AppPasses : legacy'[p] = g
           \/ \E u \in Threads : Holding(u, "insert", g)'
    BY <1>1 DEF CacheInv, Accounted, Holding
  <2>2. ASSUME NEW g \in FrameHandles, liveFrame'[g] # Null
        PROVE  \/ \E k \in FrameKeys : frames'[k] = g
               \/ \E u \in Threads : Holding(u, "insertFrame", g)'
    <3>1. g \notin dead /\ liveFrame[g] # Null BY <1>7, <2>2
    <3>2. \A u \in Threads : Holding(u, "insertFrame", g) => Holding(u, "insertFrame", g)'
      BY <1>1 DEF Holding
    <3>3. \A k \in FrameKeys : frames[k] = g => frames'[k] = g BY <1>3, <1>6, <3>1
    <3> QED BY <3>1, <3>2, <3>3 DEF CacheInv, Accounted
  <2>3. \A g \in PassHandles : g \in owned'.passes <=> \E k \in PassKeys : passes'[k] = g
    BY <1>1, <1>8 DEF CacheInv, Accounted
  <2>4. ASSUME NEW g \in FrameHandles PROVE g \in owned'.frames <=> \E k \in FrameKeys : frames'[k] = g
    <3>1. g \in owned.frames <=> \E k \in FrameKeys : frames[k] = g BY DEF CacheInv, Accounted
    <3>2. g # Null BY RenderingAssumption
    <3>3. (\E k \in FrameKeys : frames'[k] = g) => g \notin dead /\ \E k \in FrameKeys : frames[k] = g
      BY <1>4, <1>6, <3>2
    <3>4. g \notin dead => \A k \in FrameKeys : frames[k] = g => frames'[k] = g BY <1>3, <1>6
    <3> QED BY <1>8, <3>1, <3>3, <3>4
  <2> QED BY <2>1, <2>2, <2>3, <2>4 DEF Accounted
<1>15. Separate' BY <1>1 DEF CacheInv, Separate
<1>16. FramesOfPasses' BY <1>1, <1>6, <1>11 DEF CacheInv, FramesOfPasses
<1>17. ASSUME NEW u \in Threads PROVE CallSound(call[u])'
  <2>1. CallSound(call[u]) /\ call[u] \in Calls BY DEF CacheInv, TypeOK
  <2>2. \A w \in Elements(call[u].views) : w \in Views \ {v}
    <3>1. CASE Renders(call[u])
      BY <2>1, <3>1, <1>1, ListFacts DEF CallSound, Viewing
    <3>2. CASE ~Renders(call[u]) BY <2>1, <3>2 DEF CallSound, Viewing, Elements
    <3> QED BY <3>1, <3>2
  <2>3. \A w \in Elements(call[u].views) : format'[w] = format[w] BY <1>5, <2>2
  <2>4. \A k \in FrameKeys : k.views = call[u].views /\ frames[k] # Null => frames'[k] = frames[k]
    BY <1>1, <1>2, <1>6
  <2>5. call[u].at = "insert" =>
           /\ \A k \in PassKeys : passes'[k] # call[u].made
           /\ \A p \in AppPasses : legacy'[p] # call[u].made
    BY <1>1, <2>1 DEF CallSound, MadePass, OwnPass
  <2>6. call[u].at = "insertFrame" =>
           /\ liveFrame'[call[u].made] = liveFrame[call[u].made]
           /\ \A k \in FrameKeys : frames'[k] # call[u].made
    <3>1. call[u].at = "insertFrame" =>
             call[u].made \in FrameHandles /\ \A k \in FrameKeys : frames[k] # call[u].made
      BY <2>1 DEF CallSound, MadeFrame, OwnFrame
    <3>2. call[u].at = "insertFrame" => call[u].made \notin dead /\ call[u].made # Null
      BY <1>3, <3>1, RenderingAssumption
    <3> QED BY <1>6, <1>7, <3>1, <3>2
  <2> QED BY <1>1, <2>3, <2>4, <2>5, <2>6, CallStays
<1> QED BY <1>10, <1>12, <1>13, <1>14, <1>15, <1>16, <1>17 DEF CacheInv

\* A pass of the application gets a continuation that nobody else holds.
LEMMA TrackStep ==
    ASSUME CacheInv, NEW p \in AppPasses, TrackRenderPass(p) PROVE CacheInv'
<1>1. legacy[p] = Null /\ UNCHANGED <<device, format, caches, liveFrame, call>>
  BY DEF TrackRenderPass
<1>2. PICK h \in PassHandles :
         /\ livePass[h] = Null /\ livePass' = [livePass EXCEPT ![h] = NoKey]
         /\ legacy' = [legacy EXCEPT ![p] = h]
  BY DEF TrackRenderPass
<1> USE DEF device, caches
<1>3. /\ livePass' \in [PassHandles -> PassKeys \cup {NoKey, Null}]
      /\ livePass'[h] = NoKey /\ NoKey # Null
      /\ \A g \in PassHandles \ {h} : livePass'[g] = livePass[g]
      /\ CacheSound'
  BY <1>1, <1>2, NewPass
<1>4. /\ legacy' \in [AppPasses -> PassHandles \cup {Null}] /\ legacy'[p] = h
      /\ \A q \in AppPasses \ {p} : legacy'[q] = legacy[q]
  BY <1>2 DEF CacheInv, TypeOK
<1>5. /\ \A k \in PassKeys : passes[k] # h
      /\ \A q \in AppPasses : legacy[q] # h
      /\ \A u \in Threads : call[u].at = "insert" => call[u].made # h
  BY <1>2, DeadPass
<1>6. TypeOK' BY <1>1, <1>3, <1>4 DEF CacheInv, TypeOK
<1>7. Indexed' BY <1>1 DEF CacheInv, Indexed
<1>8. Accounted'
  <2>1. ASSUME NEW g \in PassHandles, livePass'[g] # Null
        PROVE  \/ \E k \in PassKeys : passes'[k] = g
               \/ \E q \in AppPasses : legacy'[q] = g
               \/ \E u \in Threads : Holding(u, "insert", g)'
    <3>1. CASE g = h BY <3>1, <1>4
    <3>2. CASE g # h
      <4>1. livePass[g] # Null BY <1>3, <2>1, <3>2
      <4>2. \A q \in AppPasses : legacy[q] = g => q # p
        BY <1>1, RenderingAssumption
      <4> QED BY <1>1, <1>4, <4>1, <4>2 DEF CacheInv, Accounted, Holding
    <3> QED BY <3>1, <3>2
  <2>2. /\ \A g \in FrameHandles : liveFrame'[g] # Null =>
              \/ \E k \in FrameKeys : frames'[k] = g
              \/ \E u \in Threads : Holding(u, "insertFrame", g)'
        /\ \A g \in PassHandles : g \in owned'.passes <=> \E k \in PassKeys : passes'[k] = g
        /\ \A g \in FrameHandles : g \in owned'.frames <=> \E k \in FrameKeys : frames'[k] = g
    BY <1>1 DEF CacheInv, Accounted, Holding
  <2> QED BY <2>1, <2>2 DEF Accounted
<1>9. Separate'
  <2>1. ASSUME NEW q \in AppPasses, legacy'[q] # Null
        PROVE  /\ livePass'[legacy'[q]] # Null
               /\ \A k \in PassKeys : passes'[k] # legacy'[q]
               /\ \A r \in AppPasses \ {q} : legacy'[r] # legacy'[q]
    <3>1. CASE q = p BY <3>1, <1>1, <1>3, <1>4, <1>5
    <3>2. CASE q # p
      <4>1. /\ legacy[q] # Null /\ legacy[q] \in PassHandles \ {h} /\ livePass[legacy[q]] # Null
            /\ \A k \in PassKeys : passes[k] # legacy[q]
            /\ \A r \in AppPasses \ {q} : legacy[r] # legacy[q]
        BY <1>4, <1>5, <2>1, <3>2 DEF CacheInv, Separate, TypeOK
      <4> QED BY <1>1, <1>3, <1>4, <3>2, <4>1
    <3> QED BY <3>1, <3>2
  <2>2. \A t, u \in Threads :
           t # u /\ call'[t].at = call'[u].at /\ call'[t].at \in {"insert", "insertFrame"}
              => call'[t].made # call'[u].made
    BY <1>1 DEF CacheInv, Separate
  <2> QED BY <2>1, <2>2 DEF Separate
<1>10. FramesOfPasses' BY <1>1 DEF CacheInv, FramesOfPasses
<1>11. ASSUME NEW u \in Threads PROVE CallSound(call[u])'
  <2>1. CallSound(call[u]) BY DEF CacheInv
  <2>2. call[u].at = "insert" =>
           /\ livePass'[call[u].made] = livePass[call[u].made]
           /\ \A k \in PassKeys : passes'[k] # call[u].made
           /\ \A q \in AppPasses : legacy'[q] # call[u].made
    BY <1>1, <1>3, <1>4, <1>5, <2>1 DEF CallSound, MadePass, OwnPass
  <2>3. call[u].at = "insertFrame" =>
           /\ liveFrame'[call[u].made] = liveFrame[call[u].made]
           /\ \A k \in FrameKeys : frames'[k] # call[u].made
    BY <1>1, <2>1 DEF CallSound, MadeFrame, OwnFrame
  <2> QED BY <1>1, <2>2, <2>3, CallStays
<1> QED BY <1>3, <1>6, <1>7, <1>8, <1>9, <1>10, <1>11 DEF CacheInv

LEMMA ForgetStep ==
    ASSUME CacheInv, NEW p \in AppPasses, ForgetRenderPass(p) PROVE CacheInv'
<1> DEFINE h == legacy[p]
<1>1. /\ h # Null /\ livePass' = [livePass EXCEPT ![h] = Null] /\ legacy' = [legacy EXCEPT ![p] = Null]
      /\ UNCHANGED <<device, format, caches, liveFrame, call>>
  BY DEF ForgetRenderPass
<1> USE DEF device, caches
<1>2. /\ h \in PassHandles
      /\ \A k \in PassKeys : passes[k] # h
      /\ \A q \in AppPasses \ {p} : legacy[q] # h
  BY <1>1 DEF CacheInv, TypeOK, Separate
<1>3. \A u \in Threads : call[u].at = "insert" => call[u].made # h
  BY DEF CacheInv, CallSound, MadePass, OwnPass
<1> HIDE DEF h
<1>4. /\ livePass' \in [PassHandles -> PassKeys \cup {NoKey, Null}] /\ livePass'[h] = Null
      /\ \A g \in PassHandles \ {h} : livePass'[g] = livePass[g]
  BY <1>1, <1>2 DEF CacheInv, TypeOK
<1>5. /\ legacy' \in [AppPasses -> PassHandles \cup {Null}] /\ legacy'[p] = Null
      /\ \A q \in AppPasses \ {p} : legacy'[q] = legacy[q]
  BY <1>1 DEF CacheInv, TypeOK
<1>6. TypeOK' BY <1>1, <1>4, <1>5 DEF CacheInv, TypeOK
<1>7. CacheSound'
  <2>1. \A k \in PassKeys : passes[k] # Null => passes[k] \in PassHandles \ {h}
    BY <1>2 DEF CacheInv, TypeOK
  <2>2. \A k \in PassKeys : passes'[k] # Null => livePass'[passes'[k]] = k
    BY <1>1, <1>4, <2>1, CachedFacts DEF CacheInv
  <2>3. ASSUME NEW k \in FrameKeys, frames'[k] # Null
        PROVE  /\ liveFrame'[frames'[k]] = k /\ livePass'[k.pass] # Null
               /\ livePass'[k.pass].formats = FormatsNext(k.views)
    <3>1. k.pass \in PassHandles \ {h}
      BY <1>1, <1>2, <2>3 DEF CacheInv, FramesOfPasses, FrameKeys
    <3>2. livePass'[k.pass] = livePass[k.pass] BY <1>4, <3>1
    <3>3. /\ liveFrame[frames[k]] = k /\ livePass[k.pass] # Null
          /\ livePass[k.pass].formats = FormatsOf(k.views)
      BY <1>1, <2>3, CachedFacts DEF CacheInv
    <3> QED BY <1>1, <3>2, <3>3 DEF FormatsOf, FormatsNext
  <2> QED BY <2>2, <2>3, CachedNext
<1>8. Indexed' BY <1>1 DEF CacheInv, Indexed
<1>9. Accounted'
  <2>1. ASSUME NEW g \in PassHandles, livePass'[g] # Null
        PROVE  \/ \E k \in PassKeys : passes'[k] = g
               \/ \E q \in AppPasses : legacy'[q] = g
               \/ \E u \in Threads : Holding(u, "insert", g)'
    <3>1. g # h /\ livePass[g] # Null BY <1>4, <2>1
    <3>2. \A q \in AppPasses : legacy[q] = g => q # p BY <3>1 DEF h
    <3> QED BY <1>1, <1>5, <3>1, <3>2 DEF CacheInv, Accounted, Holding
  <2>2. /\ \A g \in FrameHandles : liveFrame'[g] # Null =>
              \/ \E k \in FrameKeys : frames'[k] = g
              \/ \E u \in Threads : Holding(u, "insertFrame", g)'
        /\ \A g \in PassHandles : g \in owned'.passes <=> \E k \in PassKeys : passes'[k] = g
        /\ \A g \in FrameHandles : g \in owned'.frames <=> \E k \in FrameKeys : frames'[k] = g
    BY <1>1 DEF CacheInv, Accounted, Holding
  <2> QED BY <2>1, <2>2 DEF Accounted
<1>10. Separate'
  <2>1. ASSUME NEW q \in AppPasses, legacy'[q] # Null
        PROVE  /\ livePass'[legacy'[q]] # Null
               /\ \A k \in PassKeys : passes'[k] # legacy'[q]
               /\ \A r \in AppPasses \ {q} : legacy'[r] # legacy'[q]
    <3>1. q # p /\ legacy[q] # Null /\ legacy[q] \in PassHandles \ {h} BY <1>2, <1>5, <2>1 DEF CacheInv, TypeOK
    <3>2. /\ livePass[legacy[q]] # Null /\ \A k \in PassKeys : passes[k] # legacy[q]
          /\ \A r \in AppPasses \ {q} : legacy[r] # legacy[q]
      BY <3>1 DEF CacheInv, Separate
    <3> QED BY <1>1, <1>4, <1>5, <3>1, <3>2
  <2>2. \A t, u \in Threads :
           t # u /\ call'[t].at = call'[u].at /\ call'[t].at \in {"insert", "insertFrame"}
              => call'[t].made # call'[u].made
    BY <1>1 DEF CacheInv, Separate
  <2> QED BY <2>1, <2>2 DEF Separate
<1>11. FramesOfPasses' BY <1>1 DEF CacheInv, FramesOfPasses
<1>12. ASSUME NEW u \in Threads PROVE CallSound(call[u])'
  <2>1. CallSound(call[u]) BY DEF CacheInv
  <2>2. call[u].at = "insert" =>
           /\ livePass'[call[u].made] = livePass[call[u].made]
           /\ \A k \in PassKeys : passes'[k] # call[u].made
           /\ \A q \in AppPasses : legacy'[q] # call[u].made
    <3>1. call[u].at = "insert" =>
             /\ call[u].made \in PassHandles /\ \A k \in PassKeys : passes[k] # call[u].made
             /\ \A q \in AppPasses : legacy[q] # call[u].made
      BY <2>1 DEF CallSound, MadePass, OwnPass
    <3>2. \A g \in PassHandles : g # Null BY RenderingAssumption
    <3> QED BY <1>1, <1>3, <1>4, <1>5, <3>1, <3>2
  <2>3. call[u].at = "insertFrame" =>
           /\ liveFrame'[call[u].made] = liveFrame[call[u].made]
           /\ \A k \in FrameKeys : frames'[k] # call[u].made
    BY <1>1, <2>1 DEF CallSound, MadeFrame, OwnFrame
  <2> QED BY <1>1, <2>2, <2>3, CallStays
<1> QED BY <1>6, <1>7, <1>8, <1>9, <1>10, <1>11, <1>12 DEF CacheInv

\* No cache, no continuation, no call under way: nothing is held.
Cleared ==
    /\ TypeOK
    /\ \A k \in PassKeys : passes[k] = Null
    /\ \A k \in FrameKeys : frames[k] = Null
    /\ \A v \in Views : index[v] = {}
    /\ owned.passes = {} /\ owned.frames = {}
    /\ \A p \in AppPasses : legacy[p] = Null
    /\ \A h \in PassHandles : livePass[h] = Null
    /\ \A h \in FrameHandles : liveFrame[h] = Null
    /\ \A t \in Threads :
          call[t].at = "idle" /\ Placed(call[t]) /\ ~Renders(call[t]) /\ Viewing(call[t])

LEMMA NothingHeld == Cleared => CacheInv
<1> SUFFICES ASSUME Cleared PROVE CacheInv OBVIOUS
<1> USE DEF Cleared
<1>1. CacheSound BY CachedFacts
<1>2. Indexed BY DEF Indexed
<1>3. Accounted BY RenderingAssumption DEF Accounted
<1>4. Separate BY DEF Separate
<1>5. FramesOfPasses BY DEF FramesOfPasses
<1>6. \A t \in Threads : CallSound(call[t])
  BY DEF CallSound, FoundIn, FoundBy, Viewing, MadePass, OwnPass, MadeFrame, OwnFrame
<1> QED BY <1>1, <1>2, <1>3, <1>4, <1>5, <1>6 DEF CacheInv

LEMMA CacheInit == Init => CacheInv
<1> SUFFICES ASSUME Init PROVE CacheInv OBVIOUS
<1>1. TypeOK BY IdleFacts DEF Init, TypeOK
<1>2. \A t \in Threads : call[t] = Idle BY DEF Init
<1>3. Placed(Idle) /\ ~Renders(Idle) /\ Viewing(Idle) BY IdleFacts DEF Placed, Renders, Viewing
<1> QED BY <1>1, <1>2, <1>3, IdleFacts, NothingHeld DEF Init, Cleared

\* The device takes everything with it.
LEMMA DestroyDeviceStep ==
    ASSUME CacheInv, DestroyDevice PROVE CacheInv'
<1>1. /\ \A t \in Threads : call[t].at = "idle"
      /\ exists' = FALSE /\ tiler' = FALSE /\ call' = call
      /\ livePass' = [h \in PassHandles |-> IF h \in DestroyedPasses THEN Null ELSE livePass[h]]
      /\ liveFrame' = [h \in FrameHandles |-> IF h \in owned.frames THEN Null ELSE liveFrame[h]]
      /\ legacy' = [p \in AppPasses |-> Null]
      /\ passes' = [k \in PassKeys |-> Null]
      /\ frames' = [k \in FrameKeys |-> Null]
      /\ index' = [v \in Views |-> {}]
      /\ owned' = [passes |-> {}, frames |-> {}]
      /\ format' = [v \in Views |-> Null]
  BY DEF DestroyDevice, At
<1>2. ASSUME NEW h \in PassHandles PROVE livePass'[h] = Null
  <2>1. livePass[h] # Null =>
           (\E k \in PassKeys : passes[k] = h) \/ (\E p \in AppPasses : legacy[p] = h)
    BY <1>1 DEF CacheInv, Accounted, Holding
  <2>2. (\E k \in PassKeys : passes[k] = h) => h \in owned.passes BY DEF CacheInv, Accounted
  <2>3. livePass[h] # Null => h \in DestroyedPasses BY <2>1, <2>2 DEF DestroyedPasses
  <2> QED BY <1>1, <2>3
<1>3. ASSUME NEW h \in FrameHandles PROVE liveFrame'[h] = Null
  <2>1. liveFrame[h] # Null => h \in owned.frames
    BY <1>1 DEF CacheInv, Accounted, Holding
  <2> QED BY <1>1, <2>1
<1>4. TypeOK'
  <2>1. livePass' \in [PassHandles -> PassKeys \cup {NoKey, Null}] BY <1>1, <1>2
  <2>2. liveFrame' \in [FrameHandles -> FrameKeys \cup {Null}] BY <1>1, <1>3
  <2>3. /\ format' \in [Views -> Formats \cup {Null}]
        /\ passes' \in [PassKeys -> PassHandles \cup {Null}]
        /\ frames' \in [FrameKeys -> FrameHandles \cup {Null}]
        /\ index' \in [Views -> SUBSET FrameKeys]
        /\ owned' \in [passes : SUBSET PassHandles, frames : SUBSET FrameHandles]
        /\ legacy' \in [AppPasses -> PassHandles \cup {Null}]
    BY <1>1
  <2> QED BY <1>1, <2>1, <2>2, <2>3 DEF CacheInv, TypeOK
<1>5. \A t \in Threads : /\ (call[t].at = "idle")' /\ Placed(call[t])' /\ ~Renders(call[t])'
                         /\ Viewing(call[t])'
  BY <1>1 DEF CacheInv, TypeOK, CallSound, Placed, Renders, Viewing, Calls
<1>6. /\ \A k \in PassKeys : passes'[k] = Null
      /\ \A k \in FrameKeys : frames'[k] = Null
      /\ \A v \in Views : index'[v] = {}
      /\ owned'.passes = {} /\ owned'.frames = {}
      /\ \A p \in AppPasses : legacy'[p] = Null
  BY <1>1
<1>7. Cleared' BY <1>2, <1>3, <1>4, <1>5, <1>6 DEF Cleared
<1> QED BY <1>7, NothingHeld, PTL

\* What only the device's own flags may change.
LEMMA FlagsStep ==
    ASSUME CacheInv, tiler' \in BOOLEAN, exists' \in BOOLEAN,
           UNCHANGED <<format, caches, legacy, driver, call>>
    PROVE  CacheInv'
<1> USE DEF caches, driver
<1>1. TypeOK' BY DEF CacheInv, TypeOK
<1>2. CacheSound' /\ Indexed' /\ Separate' /\ FramesOfPasses'
  BY DEF CacheInv, CacheSound, Indexed, Separate, FramesOfPasses
<1>3. Accounted' BY DEF CacheInv, Accounted, Holding
<1>4. ASSUME NEW t \in Threads PROVE CallSound(call[t])'
  <2>1. CallSound(call[t]) BY DEF CacheInv
  <2>2. call[t].at = "insert" =>
           /\ \A k \in PassKeys : passes'[k] # call[t].made
           /\ \A p \in AppPasses : legacy'[p] # call[t].made
    BY <2>1 DEF CallSound, MadePass, OwnPass
  <2>3. call[t].at = "insertFrame" => \A k \in FrameKeys : frames'[k] # call[t].made
    BY <2>1 DEF CallSound, MadeFrame, OwnFrame
  <2> QED BY <2>2, <2>3, CallStays
<1> QED BY <1>1, <1>2, <1>3, <1>4 DEF CacheInv

-----------------------------------------------------------------------------
(* RenderingCache: the theorems.                                            *)

LEMMA ThreadStep ==
    ASSUME CacheInv, NEW t \in Threads, Step(t) PROVE CacheInv'
<1>1. ASSUME NEW key \in PassKeys, CompatiblePass(t, key) PROVE CacheInv' BY <1>1, CompatibleStep
<1>2. ASSUME NEW l \in Attachments, NEW load \in {"clear", "load"}, BeginRendering(t, l, load)
      PROVE  CacheInv'
  BY <1>2, BeginRenderingStep
<1>3. CASE Continuation(t) BY <1>3, ContinuationStep
<1>4. CASE CreatePass(t) BY <1>4, CreatePassStep
<1>5. CASE CreatePassFails(t) BY <1>5, PassFailsStep
<1>6. CASE InsertPass(t) BY <1>6, KeepPassStep, DropPassStep
<1>7. CASE CheckFrame(t) BY <1>7, CheckFrameStep
<1>8. CASE CreateFrame(t) BY <1>8, CreateFrameStep
<1>9. CASE InsertFrame(t) BY <1>9, KeepFrameStep, DropFrameStep
<1>10. CASE Record(t) \/ EndRendering(t) BY <1>10, RecordStep
<1> QED BY <1>1, <1>2, <1>3, <1>4, <1>5, <1>6, <1>7, <1>8, <1>9, <1>10 DEF Step

LEMMA CacheNextStep == CacheInv /\ [Next]_vars => CacheInv'
<1> SUFFICES ASSUME CacheInv, [Next]_vars PROVE CacheInv' OBVIOUS
<1>1. ASSUME NEW t \in Threads, Step(t) PROVE CacheInv' BY <1>1, ThreadStep
<1>2. ASSUME NEW v \in Views, DestroyView(v) PROVE CacheInv' BY <1>2, DestroyViewStep
<1>3. ASSUME NEW v \in Views, NEW f \in Formats, CreateView(v, f) PROVE CacheInv' BY <1>3, CreateViewStep
<1>4. ASSUME NEW p \in AppPasses, TrackRenderPass(p) PROVE CacheInv' BY <1>4, TrackStep
<1>5. ASSUME NEW p \in AppPasses, ForgetRenderPass(p) PROVE CacheInv' BY <1>5, ForgetStep
<1>6. CASE DestroyDevice BY <1>6, DestroyDeviceStep
<1>7. CASE CreateDevice BY <1>7, FlagsStep DEF CreateDevice
<1>8. CASE UNCHANGED vars
  <2>1. tiler' \in BOOLEAN /\ exists' \in BOOLEAN BY <1>8 DEF vars, device, CacheInv, TypeOK
  <2> QED BY <1>8, <2>1, FlagsStep DEF vars
<1> QED BY <1>1, <1>2, <1>3, <1>4, <1>5, <1>6, <1>7, <1>8 DEF Next

LEMMA CacheAlways == Spec => []CacheInv
BY CacheInit, CacheNextStep, PTL DEF Spec

LEMMA Exact == CacheInv => IndexExact
BY DEF CacheInv, Indexed, IndexExact, TypeOK

LEMMA Leaks == CacheInv => NothingLeaks
<1> SUFFICES ASSUME CacheInv PROVE NothingLeaks OBVIOUS
<1> DEFINE cachedPasses == {passes[k] : k \in PassKeys}
           cachedFrames == {frames[k] : k \in FrameKeys}
           kept == {legacy[p] : p \in AppPasses}
           madePasses == {Held(t) : t \in {u \in Threads : At(u, "insert")}}
           madeFrames == {Held(t) : t \in {u \in Threads : At(u, "insertFrame")}}
<1>1. /\ \A h : h \in madePasses <=> \E t \in Threads : Holding(t, "insert", h)
      /\ \A h : h \in madeFrames <=> \E t \in Threads : Holding(t, "insertFrame", h)
  BY DEF Held, At, Holding
<1>2. /\ cachedPasses \subseteq PassHandles \cup {Null}
      /\ kept \subseteq PassHandles \cup {Null}
      /\ cachedFrames \subseteq FrameHandles \cup {Null}
  BY DEF CacheInv, TypeOK
<1>3. /\ \A h : h \in cachedPasses <=> \E k \in PassKeys : passes[k] = h
      /\ \A h : h \in cachedFrames <=> \E k \in FrameKeys : frames[k] = h
      /\ \A h : h \in kept <=> \E p \in AppPasses : legacy[p] = h
  OBVIOUS
<1>4. \A h \in PassHandles : h # Null BY RenderingAssumption
<1>5. \A h \in FrameHandles : h # Null BY RenderingAssumption
<1>6. ASSUME NEW t \in Threads, NEW h, Holding(t, "insert", h) PROVE h \in PassHandles /\ livePass[h] # Null
  <2>1. /\ h \in PassHandles /\ livePass[h] = Wanted(call[t]) /\ call[t].key \in PassKeys
    BY <1>6 DEF CacheInv, CallSound, MadePass, OwnPass, Placed, Holding
  <2>2. Wanted(call[t]) \in PassKeys BY <2>1, KeyFacts
  <2> QED BY <2>1, <2>2, RenderingAssumption
<1>7. ASSUME NEW t \in Threads, NEW h, Holding(t, "insertFrame", h)
      PROVE  h \in FrameHandles /\ liveFrame[h] # Null
  <2>1. /\ h \in FrameHandles /\ liveFrame[h] = FrameKey(call[t]) /\ call[t].pass # Null
        /\ call[t].views \in Attachments /\ call[t] \in Calls
    BY <1>7 DEF CacheInv, TypeOK, CallSound, MadeFrame, OwnFrame, Placed, Viewing, Renders, Holding
  <2> QED BY <2>1, FrameKeyType, RenderingAssumption
<1> HIDE DEF cachedPasses, cachedFrames, kept, madePasses, madeFrames
<1>8. {h \in PassHandles : livePass[h] # Null} = (cachedPasses \cup kept \cup madePasses) \ {Null}
  <2>1. ASSUME NEW h \in PassHandles, livePass[h] # Null
        PROVE  h \in (cachedPasses \cup kept \cup madePasses) \ {Null}
    BY <1>1, <1>3, <1>4, <2>1 DEF CacheInv, Accounted
  <2>2. ASSUME NEW h \in cachedPasses, h # Null PROVE h \in PassHandles /\ livePass[h] # Null
    BY <1>2, <1>3, <2>2, RenderingAssumption DEF CacheInv, CacheSound
  <2>3. ASSUME NEW h \in kept, h # Null PROVE h \in PassHandles /\ livePass[h] # Null
    BY <1>2, <1>3, <2>3 DEF CacheInv, Separate
  <2>4. ASSUME NEW h \in madePasses PROVE h \in PassHandles /\ livePass[h] # Null
    BY <1>1, <1>6, <2>4
  <2> QED BY <2>1, <2>2, <2>3, <2>4
<1>9. {h \in FrameHandles : liveFrame[h] # Null} = (cachedFrames \cup madeFrames) \ {Null}
  <2>1. ASSUME NEW h \in FrameHandles, liveFrame[h] # Null
        PROVE  h \in (cachedFrames \cup madeFrames) \ {Null}
    BY <1>1, <1>3, <1>5, <2>1 DEF CacheInv, Accounted
  <2>2. ASSUME NEW h \in cachedFrames, h # Null PROVE h \in FrameHandles /\ liveFrame[h] # Null
    BY <1>2, <1>3, <2>2, CachedFacts, RenderingAssumption DEF CacheInv
  <2>3. ASSUME NEW h \in madeFrames PROVE h \in FrameHandles /\ liveFrame[h] # Null
    BY <1>1, <1>7, <2>3
  <2> QED BY <2>1, <2>2, <2>3
<1>10. owned.passes = cachedPasses \ {Null} /\ owned.frames = cachedFrames \ {Null}
  <2>1. owned.passes \subseteq PassHandles /\ owned.frames \subseteq FrameHandles
    BY DEF CacheInv, TypeOK
  <2> QED BY <1>2, <1>3, <1>4, <1>5, <2>1 DEF CacheInv, Accounted
<1> QED BY <1>8, <1>9, <1>10 DEF NothingLeaks, cachedPasses, cachedFrames, kept, madePasses, madeFrames

LEMMA Stays == CacheInv => RenderingStays
<1> SUFFICES ASSUME CacheInv, NEW t \in Threads, call[t].at \in {"record", "rendering"}
             PROVE  /\ livePass[call[t].pass] = call[t].key
                    /\ liveFrame[call[t].frame] = FrameKey(call[t])
                    /\ call[t].continuation # Null => livePass[call[t].continuation] = LoadKey(call[t].key)
  BY DEF RenderingStays, FrameKey
<1> DEFINE c == call[t]
<1>1. /\ c \in Calls /\ c.key \in PassKeys /\ c.pass # Null /\ c.frame # Null /\ c.views \in Attachments
      /\ FoundBy(c, passes, frames)
  BY DEF CacheInv, TypeOK, CallSound, Placed, Viewing, Renders, FoundIn, Calls
<1>2. FrameKey(c) \in FrameKeys BY <1>1, FrameKeyType
<1>3. LoadKey(c.key) \in PassKeys BY <1>1, KeyFacts
<1> HIDE DEF c
<1>4. livePass[c.pass] = c.key /\ liveFrame[c.frame] = FrameKey(c)
  BY <1>1, <1>2, CachedFacts DEF CacheInv, FoundBy
<1>5. c.continuation # Null => livePass[c.continuation] = LoadKey(c.key)
  BY <1>1, <1>3, CachedFacts DEF CacheInv, FoundBy
<1> QED BY <1>4, <1>5 DEF c

\* The caches of dynamic_rendering.cpp, the index from views to framebuffers
\* and the driver agree after every step, whatever threads race to create the
\* same pass or framebuffer: a cached handle is alive and is what its key says,
\* the index names exactly the framebuffers of a view, and every native object
\* has one holder that will destroy it.
THEOREM ObjectsStaySound == Spec => []ObjectsSound
<1>1. CacheInv => ObjectsSound BY Exact, Leaks DEF CacheInv, ObjectsSound
<1> QED BY <1>1, CacheAlways, PTL

\* While a rendering is open, its pass, its framebuffer and the pass that would
\* continue it when it is split (on_cmd_begin_rendering and the tiler guard of
\* dynamic_rendering.cpp) are alive and of its attachments, whatever other threads create and destroy.
THEOREM RenderingsStay == Spec => []RenderingStays
BY Stays, CacheAlways, PTL

-----------------------------------------------------------------------------
(* ImagelessFramebuffers.                                                   *)

Entry == [frame : Natives, owner : Synthetic]

FrameType ==
    /\ record \in [Synthetic -> Passes \cup {"new", "gone"}]
    /\ real \in [Imageless!Keys -> Entry \cup {Null}]
    /\ content \in [Natives -> Imageless!Keys \cup {Null}]
    /\ alive \subseteq Views
    /\ IsFiniteSet(Imageless!Recorded) /\ IsFiniteSet(Imageless!Entries)

\* Every entry is in order, and the driver has nothing else.
InOrder ==
    /\ \A k \in Imageless!Entries : /\ content[real[k].frame] = k
                                    /\ k.views \subseteq alive
                                    /\ real[k].owner \in Imageless!Recorded
    /\ \A n \in Natives : content[n] # Null => \E k \in Imageless!Entries : real[k].frame = n
Counted == recordCount = Cardinality(Imageless!Recorded) /\ realCount = Cardinality(Imageless!Entries)

FrameInv == FrameType /\ InOrder /\ Counted

LEMMA SameCardinality == \A S : Imageless!Cardinality(S) = Cardinality(S)
BY Zenon DEF Imageless!Cardinality, Cardinality, Imageless!IsFiniteSet, IsFiniteSet

LEMMA SoundParts == FrameInv => FramebuffersSound
BY SameCardinality DEF FrameInv, InOrder, Counted, FramebuffersSound, Imageless!FramebuffersSound

\* Entries that go take their framebuffers with them, and no other.
LEMMA Dropped ==
    ASSUME FrameInv, NEW dead \in SUBSET Imageless!Entries, Imageless!Drop(dead)
    PROVE  /\ real' \in [Imageless!Keys -> Entry \cup {Null}]
           /\ content' \in [Natives -> Imageless!Keys \cup {Null}]
           /\ Imageless!Entries' = Imageless!Entries \ dead
           /\ \A k \in Imageless!Entries \ dead : real'[k] = real[k] /\ content'[real[k].frame] = k
           /\ \A n \in Natives : content'[n] # Null =>
                 \E k \in Imageless!Entries \ dead : real[k].frame = n
           /\ IsFiniteSet(Imageless!Entries') /\ realCount' = Cardinality(Imageless!Entries')
<1> DEFINE E == Imageless!Entries
<1>1. /\ real' = [k \in Imageless!Keys |-> IF k \in dead THEN Null ELSE real[k]]
      /\ content' = [n \in Natives |-> IF \E k \in dead : real[k].frame = n THEN Null ELSE content[n]]
      /\ realCount' = realCount - Cardinality(dead)
  BY SameCardinality DEF Imageless!Drop
<1>2. /\ E \subseteq Imageless!Keys
      /\ \A k \in Imageless!Keys : k \in E <=> real[k] # Null
      /\ \A k \in E : real[k] \in Entry /\ real[k].frame \in Natives
  BY DEF Imageless!Entries, FrameInv, FrameType, Entry
<1>3. /\ real' \in [Imageless!Keys -> Entry \cup {Null}]
      /\ content' \in [Natives -> Imageless!Keys \cup {Null}]
  BY <1>1 DEF FrameInv, FrameType
<1>4. Imageless!Entries' = E \ dead
  BY <1>1, <1>2 DEF Imageless!Entries
<1>5. \A k, l \in E : real[k].frame = real[l].frame => k = l
  BY DEF FrameInv, InOrder
<1>6. ASSUME NEW k \in E \ dead PROVE real'[k] = real[k] /\ content'[real[k].frame] = k
  <2>1. ~ \E l \in dead : real[l].frame = real[k].frame BY <1>5
  <2>2. content[real[k].frame] = k BY DEF FrameInv, InOrder
  <2> QED BY <1>1, <1>2, <2>1, <2>2
<1>7. ASSUME NEW n \in Natives, content'[n] # Null PROVE \E k \in E \ dead : real[k].frame = n
  <2>1. content[n] # Null /\ ~ \E k \in dead : real[k].frame = n BY <1>1, <1>7
  <2>2. PICK k \in E : real[k].frame = n BY <2>1 DEF FrameInv, InOrder
  <2> QED BY <2>1, <2>2
<1>8. IsFiniteSet(E \ dead) /\ Cardinality(E \ dead) = Cardinality(E) - Cardinality(dead)
  <2>1. IsFiniteSet(E) BY DEF FrameInv, FrameType
  <2>2. E \cap dead = dead OBVIOUS
  <2> QED BY <2>1, <2>2, FS_Difference
<1>9. realCount' = Cardinality(E \ dead) BY <1>1, <1>8 DEF FrameInv, Counted
<1> QED BY <1>3, <1>4, <1>6, <1>7, <1>8, <1>9

LEMMA FrameInit == Imageless!Init => FrameInv
<1> SUFFICES ASSUME Imageless!Init PROVE FrameInv OBVIOUS
<1> USE DEF Imageless!Init
<1>1. Imageless!Recorded = {} BY ImagelessAssumption DEF Imageless!Recorded
<1>2. Imageless!Entries = {} BY DEF Imageless!Entries
<1>3. FrameType BY <1>1, <1>2, FS_EmptySet DEF FrameType
<1>4. InOrder BY <1>2 DEF InOrder
<1>5. Counted BY <1>1, <1>2, FS_EmptySet DEF Counted
<1> QED BY <1>3, <1>4, <1>5 DEF FrameInv

LEMMA CreateRecordStep ==
    ASSUME FrameInv, NEW s \in Synthetic, NEW p \in Passes, Imageless!Create(s, p) PROVE FrameInv'
<1>1. /\ record[s] = "new" /\ record' = [record EXCEPT ![s] = p] /\ recordCount' = recordCount + 1
      /\ UNCHANGED <<emulated, real, realCount, alive, content>>
  BY DEF Imageless!Create
<1>2. record' \in [Synthetic -> Passes \cup {"new", "gone"}] BY <1>1 DEF FrameInv, FrameType
<1>3. s \notin Imageless!Recorded /\ Imageless!Recorded' = Imageless!Recorded \cup {s}
  BY <1>1, ImagelessAssumption DEF FrameInv, FrameType, Imageless!Recorded
<1>4. Imageless!Entries' = Imageless!Entries BY <1>1 DEF Imageless!Entries
<1>5. /\ IsFiniteSet(Imageless!Recorded')
      /\ Cardinality(Imageless!Recorded') = Cardinality(Imageless!Recorded) + 1
  BY <1>3, FS_AddElement DEF FrameInv, FrameType
<1>6. FrameType' BY <1>1, <1>2, <1>4, <1>5 DEF FrameInv, FrameType
<1>7. InOrder' BY <1>1, <1>3, <1>4 DEF FrameInv, InOrder
<1>8. Counted' BY <1>1, <1>4, <1>5 DEF FrameInv, Counted
<1> QED BY <1>6, <1>7, <1>8 DEF FrameInv

LEMMA DestroyRecordStep ==
    ASSUME FrameInv, NEW s \in Synthetic, Imageless!Destroy(s) PROVE FrameInv'
<1> DEFINE dead == Imageless!OwnedBy(s)
<1>1. /\ s \in Imageless!Recorded /\ Imageless!Drop(dead)
      /\ record' = [record EXCEPT ![s] = "gone"] /\ recordCount' = recordCount - 1
      /\ UNCHANGED <<emulated, alive>>
  BY DEF Imageless!Destroy
<1>2. dead \in SUBSET Imageless!Entries /\ \A k \in Imageless!Entries \ dead : real[k].owner # s
  BY DEF Imageless!OwnedBy
<1> HIDE DEF dead
<1>3. /\ real' \in [Imageless!Keys -> Entry \cup {Null}]
      /\ content' \in [Natives -> Imageless!Keys \cup {Null}]
      /\ Imageless!Entries' = Imageless!Entries \ dead
      /\ \A k \in Imageless!Entries \ dead : real'[k] = real[k] /\ content'[real[k].frame] = k
      /\ \A n \in Natives : content'[n] # Null =>
            \E k \in Imageless!Entries \ dead : real[k].frame = n
      /\ IsFiniteSet(Imageless!Entries') /\ realCount' = Cardinality(Imageless!Entries')
  BY <1>1, <1>2, Dropped
<1>4. record' \in [Synthetic -> Passes \cup {"new", "gone"}] BY <1>1 DEF FrameInv, FrameType
<1>5. Imageless!Recorded' = Imageless!Recorded \ {s}
  BY <1>1, ImagelessAssumption DEF FrameInv, FrameType, Imageless!Recorded
<1>6. /\ IsFiniteSet(Imageless!Recorded')
      /\ Cardinality(Imageless!Recorded') = Cardinality(Imageless!Recorded) - 1
  BY <1>1, <1>5, FS_RemoveElement DEF FrameInv, FrameType
<1>7. FrameType' BY <1>1, <1>3, <1>4, <1>6 DEF FrameInv, FrameType
<1>8. InOrder' BY <1>1, <1>2, <1>3, <1>5 DEF FrameInv, InOrder
<1>9. Counted' BY <1>1, <1>3, <1>6 DEF FrameInv, Counted
<1> QED BY <1>7, <1>8, <1>9 DEF FrameInv

LEMMA BeginStep ==
    ASSUME FrameInv, NEW s \in Synthetic, NEW views \in SUBSET Views, Imageless!BeginRenderPass(s, views)
    PROVE  FrameInv'
<1> DEFINE key == [pass |-> record[s], views |-> views]
<1>1. /\ s \in Imageless!Recorded /\ views \subseteq alive /\ views # {}
      /\ UNCHANGED <<emulated, record, recordCount, alive>>
      /\ \/ /\ real[key] = Null
            /\ \E n \in Natives :
                  /\ content[n] = Null
                  /\ content' = [content EXCEPT ![n] = key]
                  /\ real' = [real EXCEPT ![key] = [frame |-> n, owner |-> s]]
            /\ realCount' = realCount + 1
         \/ UNCHANGED <<real, realCount, content>>
  BY DEF Imageless!BeginRenderPass, Imageless!Resolve
<1>2. key \in Imageless!Keys BY <1>1 DEF Imageless!Keys, Imageless!Recorded
<1>3. key.views = views OBVIOUS
<1> HIDE DEF key
<1>4. Imageless!Recorded' = Imageless!Recorded BY <1>1 DEF Imageless!Recorded
<1>5. CASE UNCHANGED <<real, realCount, content>>
  <2>1. Imageless!Entries' = Imageless!Entries BY <1>5 DEF Imageless!Entries
  <2> QED BY <1>1, <1>4, <1>5, <2>1 DEF FrameInv, FrameType, InOrder, Counted
<1>6. CASE /\ real[key] = Null /\ realCount' = realCount + 1
           /\ \E n \in Natives :
                 /\ content[n] = Null
                 /\ content' = [content EXCEPT ![n] = key]
                 /\ real' = [real EXCEPT ![key] = [frame |-> n, owner |-> s]]
  <2>1. PICK n \in Natives : /\ content[n] = Null
                             /\ content' = [content EXCEPT ![n] = key]
                             /\ real' = [real EXCEPT ![key] = [frame |-> n, owner |-> s]]
    BY <1>6
  <2> DEFINE e == [frame |-> n, owner |-> s]
  <2>2. e \in Entry /\ e # Null /\ e.frame = n /\ e.owner = s BY ImagelessAssumption DEF Entry
  <2> HIDE DEF e
  <2>3. real' = [real EXCEPT ![key] = e] BY <2>1 DEF e
  <2>4. /\ real' \in [Imageless!Keys -> Entry \cup {Null}] /\ real'[key] = e
        /\ \A k \in Imageless!Keys \ {key} : real'[k] = real[k]
    BY <1>2, <2>2, <2>3 DEF FrameInv, FrameType
  <2>5. /\ content' \in [Natives -> Imageless!Keys \cup {Null}] /\ content'[n] = key
        /\ \A m \in Natives \ {n} : content'[m] = content[m]
    BY <1>2, <2>1 DEF FrameInv, FrameType
  <2>6. key \notin Imageless!Entries /\ Imageless!Entries' = Imageless!Entries \cup {key}
    BY <1>2, <1>6, <2>2, <2>4 DEF Imageless!Entries
  <2>7. /\ IsFiniteSet(Imageless!Entries')
        /\ Cardinality(Imageless!Entries') = Cardinality(Imageless!Entries) + 1
    BY <2>6, FS_AddElement DEF FrameInv, FrameType
  <2>8. FrameType' BY <1>1, <1>4, <2>4, <2>5, <2>7 DEF FrameInv, FrameType
  <2>9. \A k \in Imageless!Entries :
           /\ k \in Imageless!Keys \ {key} /\ real[k].frame \in Natives \ {n}
           /\ content[real[k].frame] = k
    BY <2>1, <2>6, ImagelessAssumption
       DEF FrameInv, FrameType, InOrder, Imageless!Entries, Entry
  <2>10. InOrder'
    <3>1. ASSUME NEW k \in Imageless!Entries'
          PROVE  /\ content'[real'[k].frame] = k /\ k.views \subseteq alive'
                 /\ real'[k].owner \in Imageless!Recorded'
      <4>1. CASE k = key BY <4>1, <1>1, <1>3, <1>4, <2>2, <2>4, <2>5
      <4>2. CASE k # key
        <5>1. k \in Imageless!Entries BY <2>6, <4>2
        <5> QED BY <5>1, <1>1, <1>4, <2>4, <2>5, <2>9 DEF FrameInv, InOrder
      <4> QED BY <4>1, <4>2
    <3>2. ASSUME NEW m \in Natives, content'[m] # Null
          PROVE  \E k \in Imageless!Entries' : real'[k].frame = m
      <4>1. CASE m = n BY <4>1, <2>2, <2>4, <2>6
      <4>2. CASE m # n
        <5>1. PICK k \in Imageless!Entries : real[k].frame = m
          BY <2>5, <3>2, <4>2 DEF FrameInv, InOrder
        <5> QED BY <5>1, <2>4, <2>6, <2>9
      <4> QED BY <4>1, <4>2
    <3> QED BY <3>1, <3>2 DEF InOrder
  <2>11. Counted' BY <1>1, <1>4, <1>6, <2>7 DEF FrameInv, Counted
  <2> QED BY <2>8, <2>10, <2>11 DEF FrameInv
<1> QED BY <1>1, <1>5, <1>6

LEMMA ViewComesStep ==
    ASSUME FrameInv, NEW v \in Views, Imageless!CreateView(v) PROVE FrameInv'
<1>1. alive' = alive \cup {v} /\ UNCHANGED <<emulated, record, real, recordCount, realCount, content>>
  BY DEF Imageless!CreateView, Imageless!counts
<1>2. Imageless!Entries' = Imageless!Entries /\ Imageless!Recorded' = Imageless!Recorded
  BY <1>1 DEF Imageless!Entries, Imageless!Recorded
<1> QED BY <1>1, <1>2 DEF FrameInv, FrameType, InOrder, Counted

\* With the counter at zero there is no entry to look for.
LEMMA ViewGoesStep ==
    ASSUME FrameInv, NEW v \in Views, Imageless!DestroyView(v) PROVE FrameInv'
<1> DEFINE dead == Imageless!References(v)
<1>1. /\ Imageless!OnDestroyImageView(v) /\ alive' = alive \ {v}
      /\ UNCHANGED <<emulated, record, recordCount>>
  BY DEF Imageless!DestroyView
<1>2. dead \in SUBSET Imageless!Entries /\ \A k \in Imageless!Entries \ dead : v \notin k.views
  BY DEF Imageless!References
<1>3. Imageless!Recorded' = Imageless!Recorded BY <1>1 DEF Imageless!Recorded
<1>4. CASE realCount = 0
  <2>1. UNCHANGED <<real, realCount, content>> BY <1>1, <1>4 DEF Imageless!OnDestroyImageView
  <2>2. Imageless!Entries' = Imageless!Entries BY <2>1 DEF Imageless!Entries
  <2>3. Imageless!Entries = {} BY <1>4, FS_EmptySet DEF FrameInv, FrameType, Counted
  <2>4. FrameType' BY <1>1, <1>3, <2>1, <2>2 DEF FrameInv, FrameType
  <2>5. InOrder' BY <2>1, <2>2, <2>3 DEF FrameInv, InOrder
  <2>6. Counted' BY <1>1, <1>3, <2>1, <2>2 DEF FrameInv, Counted
  <2> QED BY <2>4, <2>5, <2>6 DEF FrameInv
<1>5. CASE realCount # 0
  <2>1. Imageless!Drop(dead) BY <1>1, <1>5 DEF Imageless!OnDestroyImageView
  <2> HIDE DEF dead
  <2>2. /\ real' \in [Imageless!Keys -> Entry \cup {Null}]
        /\ content' \in [Natives -> Imageless!Keys \cup {Null}]
        /\ Imageless!Entries' = Imageless!Entries \ dead
        /\ \A k \in Imageless!Entries \ dead : real'[k] = real[k] /\ content'[real[k].frame] = k
        /\ \A n \in Natives : content'[n] # Null =>
              \E k \in Imageless!Entries \ dead : real[k].frame = n
        /\ IsFiniteSet(Imageless!Entries') /\ realCount' = Cardinality(Imageless!Entries')
    BY <1>2, <2>1, Dropped
  <2>3. FrameType' BY <1>1, <1>3, <2>2 DEF FrameInv, FrameType
  <2>4. InOrder' BY <1>1, <1>2, <1>3, <2>2 DEF FrameInv, InOrder
  <2>5. Counted' BY <1>1, <1>3, <2>2 DEF FrameInv, Counted
  <2> QED BY <2>3, <2>4, <2>5 DEF FrameInv
<1> QED BY <1>4, <1>5

LEMMA DeviceGoesStep ==
    ASSUME FrameInv, Imageless!RemoveDevice PROVE FrameInv'
<1>1. /\ Imageless!Drop(Imageless!Entries)
      /\ record' = [s \in Synthetic |-> IF s \in Imageless!Recorded THEN "gone" ELSE record[s]]
      /\ recordCount' = recordCount - Cardinality(Imageless!Recorded) /\ alive' = {}
  BY SameCardinality DEF Imageless!RemoveDevice
<1>2. /\ real' \in [Imageless!Keys -> Entry \cup {Null}]
      /\ content' \in [Natives -> Imageless!Keys \cup {Null}]
      /\ Imageless!Entries' = {}
      /\ \A n \in Natives : content'[n] = Null
      /\ IsFiniteSet(Imageless!Entries') /\ realCount' = Cardinality(Imageless!Entries')
  BY <1>1, Dropped
<1>3. record' \in [Synthetic -> Passes \cup {"new", "gone"}] BY <1>1 DEF FrameInv, FrameType
<1>4. Imageless!Recorded' = {}
  BY <1>1, ImagelessAssumption DEF FrameInv, FrameType, Imageless!Recorded
<1>5. Cardinality(Imageless!Recorded) \in Nat BY FS_CardinalityType DEF FrameInv, FrameType
<1>6. FrameType' BY <1>1, <1>2, <1>3, <1>4, FS_EmptySet DEF FrameType
<1>7. InOrder' BY <1>2 DEF InOrder
<1>8. Counted' BY <1>1, <1>2, <1>4, <1>5, FS_EmptySet DEF FrameInv, Counted
<1> QED BY <1>6, <1>7, <1>8 DEF FrameInv

\* Every framebuffer that imageless_framebuffer_manager.cpp makes at the begin
\* of a render pass is in one entry, is what the entry's key says, names only
\* views that exist and has an owner that will destroy it; and the counters
\* that let the common calls skip the mutex are exact.
THEOREM FramebuffersStaySound == Imageless!Spec => []FramebuffersSound
<1>1. FrameInv /\ [Imageless!Next]_(Imageless!vars) => FrameInv'
  <2> SUFFICES ASSUME FrameInv, [Imageless!Next]_(Imageless!vars) PROVE FrameInv' OBVIOUS
  <2>1. ASSUME NEW s \in Synthetic, NEW p \in Passes, Imageless!Create(s, p) PROVE FrameInv'
    BY <2>1, CreateRecordStep
  <2>2. ASSUME NEW s \in Synthetic, Imageless!Destroy(s) PROVE FrameInv' BY <2>2, DestroyRecordStep
  <2>3. ASSUME NEW s \in Synthetic, NEW views \in SUBSET Views, Imageless!BeginRenderPass(s, views)
        PROVE  FrameInv'
    BY <2>3, BeginStep
  <2>4. ASSUME NEW v \in Views, Imageless!CreateView(v) PROVE FrameInv' BY <2>4, ViewComesStep
  <2>5. ASSUME NEW v \in Views, Imageless!DestroyView(v) PROVE FrameInv' BY <2>5, ViewGoesStep
  <2>6. CASE Imageless!RemoveDevice BY <2>6, DeviceGoesStep
  <2>7. CASE UNCHANGED Imageless!vars
    <3>1. Imageless!Entries' = Imageless!Entries /\ Imageless!Recorded' = Imageless!Recorded
      BY <2>7 DEF Imageless!vars, Imageless!Entries, Imageless!Recorded
    <3> QED BY <2>7, <3>1 DEF Imageless!vars, FrameInv, FrameType, InOrder, Counted
  <2> QED BY <2>1, <2>2, <2>3, <2>4, <2>5, <2>6, <2>7 DEF Imageless!Next
<1> QED BY FrameInit, <1>1, SoundParts, PTL DEF Imageless!Spec

=============================================================================
