---------------------------- MODULE LupaClientProofs ----------------------------
(***************************************************************************)
(* Proofs about LupaClient, for any images, tiles and budgets, any number  *)
(* of connections, epochs and deliveries, and any bounds of the worker and *)
(* of the histories: each message of the server, each answer of the worker *)
(* and each move of the user keeps the invariant, and the safety           *)
(* properties follow from it.                                              *)
(***************************************************************************)
EXTENDS LupaClientPartsProofs

--------------------------------------------------------------------------------
\* Messages of the server

LEMMA ClientSays ==
    ASSUME NEW s, IsState(s), NEW G, NEW c, IsClient(c),
           \A f \in ClientFields \ G : c[f] = s.client[f], NEW z, z = [s EXCEPT !.client = c]
    PROVE  Differs(s, z, {"client"}, G) /\ z.client = c
<1>1. /\ IsState(z) /\ z.client = c /\ \A f \in StateFields \ {"client"} : z[f] = s[f]
  BY DEF IsState, StateFields
<1> QED BY <1>1 DEF Differs

LEMMA SoundFields ==
    ASSUME NEW s, Sound(s)
    PROVE  /\ IsState(s) /\ IsClient(s.client) /\ ClientOK(s.client) /\ Typed(s) /\ Base(s, {})
           /\ Asked(s) /\ ServerOK(s.server) /\ Spoken(s) /\ Known(s)
BY CoreIsBase DEF Sound, Base, Typed, ClientOK

LEMMA WordsSound ==
    ASSUME NEW s, Sound(s), NEW z, Differs(s, z, {"client"}, Words),
           z.client.phase \in Phases, z.client.error \in Errors, z.client.plan \in {NoPlan, 0, 1},
           s.client.viewport => z.client.viewport, Settled(z)
    PROVE  /\ Sound(z)
           /\ z.client.error = s.client.error \/ z.client.error # "violation" => Follows(s, z)
<1>1. Base(z, {}) /\ Asked(z) BY SoundFields, WordsOK
<1>2. /\ z.canvas = s.canvas /\ z.client.epoch = s.client.epoch /\ z.server = s.server
      /\ z.client.manifest = s.client.manifest
  BY DEF Differs, StateFields, ClientFields, Words
<1>3. Fresh(z) BY <1>2 DEF Sound, Fresh
<1>4. z.client.error = s.client.error \/ z.client.error # "violation" => Follows(s, z)
  BY <1>2, SilentFollows
<1> QED BY <1>1, <1>3, <1>4, CoreIsBase DEF Sound

LEMMA ViolationSound ==
    ASSUME NEW s, Sound(s)
    PROVE  Sound(ProtocolViolation(s))
<1> DEFINE z == ProtocolViolation(s)
<1>1. /\ Base(z, {}) /\ Asked(z) /\ Settled(z)
      /\ z.canvas = s.canvas /\ z.client.manifest = s.client.manifest
      /\ z.client.epoch = s.client.epoch /\ z.client.viewport = s.client.viewport
  BY SoundFields, ProtocolViolationOK
<1> HIDE DEF z
<1>2. Fresh(z) BY <1>1 DEF Sound, Fresh
<1>3. Sound(z) BY <1>1, <1>2, CoreIsBase DEF Sound
<1> QED BY <1>3 DEF z

LEMMA WelcomedOK ==
    ASSUME NEW s, Sound(s), IsOpen(s), NEW w, Differs(s, w, {"client"}, {"welcome", "phase"}),
           w.client.welcome = TRUE, w.client.phase = "ready"
    PROVE  Base(w, {}) /\ Asked(w) /\ Fresh(w) /\ Settled(w) /\ Follows(s, w)
<1>1. /\ IsState(w) /\ IsClient(w.client)
      /\ w.ledger = s.ledger /\ w.budget = s.budget /\ w.canvas = s.canvas /\ w.worker = s.worker
      /\ w.sockets = s.sockets /\ w.server = s.server
  BY DEF Differs, StateFields
<1>2. /\ w.client.connectionId = s.client.connectionId /\ w.client.epoch = s.client.epoch
      /\ w.client.selected = s.client.selected /\ w.client.manifest = s.client.manifest
      /\ w.client.manifestHistory = s.client.manifestHistory /\ w.client.plan = s.client.plan
      /\ w.client.viewport = s.client.viewport
      /\ w.client.pending = s.client.pending /\ w.client.error = s.client.error
      /\ w.client.received = s.client.received /\ w.client.terminal = s.client.terminal
      /\ w.client.releases = s.client.releases
      /\ w.client.pendingPresentations = s.client.pendingPresentations
  BY DEF Differs, ClientFields
<1>3. /\ Pending(w) = Pending(s) /\ UndrawnTiles(w) = UndrawnTiles(s)
      /\ UndrawnJobs(w) = UndrawnJobs(s) /\ Held(w, {}) = Held(s, {})
      /\ IsOpen(w) = IsOpen(s) /\ EpochsExhausted(w) = EpochsExhausted(s)
  BY <1>1, <1>2 DEF Pending, UndrawnTiles, UndrawnJobs, Held, IsOpen, EpochsExhausted
<1>4. Placed(w, {}) BY <1>1, <1>2, <1>3 DEF Placed, Core, Sound
<1>5. AtWork(w, {}) BY <1>1, <1>2, <1>3 DEF AtWork, Core, Sound
<1>6. Owned(w, {}) BY <1>1, <1>2, <1>3 DEF Owned, Core, Sound
<1>7. Agreed(w) BY <1>1, <1>3, AgreedSame DEF Core, Sound
<1>8. Budgets(w, {}) BY <1>1, <1>2, <1>3 DEF Budgets, Core, Sound
<1>9. Typed(w)
  <2>1. ClientOK(s.client) BY SoundFields
  <2>2. ClientOK(w.client) BY <1>1, <1>2, <2>1 DEF ClientOK, Phases
  <2> QED BY <1>1, <2>2 DEF Typed, Core, Sound
<1>10. Spoken(w) /\ Known(w) /\ Asked(w) BY <1>1, <1>2, <1>3 DEF Spoken, Known, Asked, Core, Sound
<1>11. Quiet(w) BY DEF Quiet
<1>12. Sockets(w) BY <1>1, <1>2 DEF Sockets, Core, Sound, IsOpen
<1>13. Accounts(w, {})
  <2>1. Accounts(s, {}) BY DEF Core, Sound
  <2>2. CASE s.client.welcome BY <1>1, <1>2, <1>3, <2>1, <2>2 DEF Accounts
  <2>3. CASE ~s.client.welcome
    <3>1. /\ Pending(s) = {} /\ s.client.pendingPresentations = 0 /\ IsLive(s)
          /\ s.client.received = 0 /\ s.client.terminal = 0 /\ s.client.releases = 0
          /\ s.server.deliveries = <<>>
      BY <2>3 DEF Quiet, Core, Sound, IsOpen, IsLive
    <3>2. Cardinality({}) = 0 BY FS_EmptySet
    <3>3. SumOfAsks(<<>>) = 0
      <4>1. DOMAIN <<>> = {} OBVIOUS
      <4> QED BY <4>1, SumEmpty DEF SumOfAsks
    <3>4. w.client.received = w.client.terminal + Cardinality(Pending(w))
                              + w.client.pendingPresentations + Cardinality({})
      BY <1>2, <1>3, <3>1, <3>2
    <3>5. w.client.terminal = w.client.releases + SumOfAsks(w.server.deliveries)
      BY <1>1, <1>2, <3>1, <3>3
    <3>6. /\ w.client.pendingPresentations = Cardinality(UndrawnTiles(w))
          /\ UndrawnTiles(w) # {} => w.canvas.frame
      BY <1>1, <1>2, <1>3, <2>1 DEF Accounts
    <3> QED BY <3>4, <3>5, <3>6 DEF Accounts
  <2> QED BY <2>2, <2>3
<1>14. Fresh(w) BY <1>1, <1>2 DEF Fresh, Sound
<1>15. Settled(w) BY DEF Settled
<1>16. Follows(s, w) BY <1>1, <1>2, SilentFollows
<1> QED
  BY <1>4, <1>5, <1>6, <1>7, <1>8, <1>9, <1>10, <1>11, <1>12, <1>13, <1>14, <1>15, <1>16
     DEF Base, Tiled

LEMMA OnWelcomeOK ==
    ASSUME NEW s, Sound(s), IsOpen(s)
    PROVE  LET z == OnWelcome(s) IN Sound(z) /\ Follows(s, z)
<1> DEFINE w == [s EXCEPT !.client.welcome = TRUE, !.client.phase = "ready"]
           c == [s.client EXCEPT !.welcome = TRUE, !.phase = "ready"]
           z == OnWelcome(s)
<1>1. z = OpenSelected(w) BY DEF OnWelcome
<1>2. IsState(s) /\ IsClient(s.client) BY SoundFields
<1>3. w = [s EXCEPT !.client = c] BY <1>2 DEF IsState, StateFields
<1> HIDE DEF w, z, c
<1>4. /\ IsClient(c) /\ c.welcome = TRUE /\ c.phase = "ready"
      /\ \A f \in ClientFields \ {"welcome", "phase"} : c[f] = s.client[f]
  BY <1>2 DEF IsClient, ClientFields, c
<1>5. Differs(s, w, {"client"}, {"welcome", "phase"}) /\ w.client = c
  BY <1>2, <1>3, <1>4, ClientSays
<1>6. Base(w, {}) /\ Asked(w) /\ Fresh(w) /\ Settled(w) /\ Follows(s, w) BY <1>4, <1>5, WelcomedOK
<1>7. Core(z, {}) /\ Fresh(z) /\ Settled(z) /\ Follows(w, z)
  BY <1>1, <1>4, <1>5, <1>6, AskedIsViewed, OpenSelectedOK
<1>8. Sound(z) /\ Follows(s, z) BY <1>6, <1>7, FollowsTwice DEF Sound
<1> QED BY <1>8 DEF z

LEMMA OnPlanOK ==
    ASSUME NEW s, Sound(s), IsOpen(s), NEW e \in DOMAIN s.server.controls,
           s.server.controls[e].type = "VIEW", NEW contextLevel \in {0, 1}
    PROVE  LET z == OnPlan(s, e, contextLevel) IN Sound(z) /\ Follows(s, z)
<1> DEFINE z == OnPlan(s, e, contextLevel)
           c == [s.client EXCEPT !.plan = contextLevel, !.phase = "receiving"]
<1>1. /\ IsState(s) /\ IsClient(s.client) /\ ClientOK(s.client)
      /\ Spoken(s) /\ Asked(s) /\ ServerOK(s.server)
  BY SoundFields
<1>2. /\ e \in 1..Len(s.server.controls) /\ Len(s.server.controls) = s.client.epoch
      /\ s.client.epoch \in Nat /\ e <= s.client.epoch
  BY <1>1 DEF ServerOK, Spoken, ClientOK
<1>3. CASE e < s.client.epoch
  <2>1. z = s BY <1>3 DEF OnPlan
  <2> QED BY <2>1, SilentFollows
<1>4. CASE ~(e < s.client.epoch)
  <2>1. e = s.client.epoch /\ s.server.controls # <<>> BY <1>2, <1>4
  <2>2. s.client.manifest # NoImage BY <1>1, <1>2, <2>1 DEF Asked, LastOf
  <2>3. z = [s EXCEPT !.client = c]
    <3>1. z = [s EXCEPT !.client.plan = contextLevel, !.client.phase = "receiving"]
      BY <1>2, <1>4, <2>1, <2>2 DEF OnPlan
    <3> HIDE DEF z
    <3> QED BY <1>1, <3>1 DEF IsState, StateFields
  <2> HIDE DEF z, c
  <2>4. /\ IsClient(c) /\ c.plan = contextLevel /\ c.phase = "receiving"
        /\ c.error = s.client.error /\ c.viewport = s.client.viewport
        /\ \A f \in ClientFields \ {"plan", "phase"} : c[f] = s.client[f]
    BY <1>1 DEF IsClient, ClientFields, c
  <2>5. Differs(s, z, {"client"}, Words) /\ z.client = c
    <3>1. \A f \in ClientFields \ Words : c[f] = s.client[f] BY <2>4 DEF Words
    <3> QED BY <1>1, <2>3, <2>4, <3>1, ClientSays
  <2>6. z.client.phase \in Phases /\ z.client.error \in Errors /\ z.client.plan \in {NoPlan, 0, 1}
    BY <1>1, <2>4, <2>5 DEF ClientOK, Phases
  <2>7. Settled(z) BY <2>4, <2>5 DEF Settled
  <2>8. Sound(z) /\ Follows(s, z) BY <2>4, <2>5, <2>6, <2>7, WordsSound
  <2> QED BY <2>8 DEF z
<1> QED BY <1>3, <1>4

LEMMA OnDoneOK ==
    ASSUME NEW s, Sound(s)
    PROVE  LET z == OnDone(s, s.server.epoch) IN Sound(z) /\ Follows(s, z)
<1> DEFINE e == s.server.epoch
           z == OnDone(s, e)
           done == [s EXCEPT !.client.serverDone = TRUE]
           b == [s.client EXCEPT !.serverDone = TRUE]
           phase == TransferPhase(done.client, done.client.phase)
           c == [b EXCEPT !.phase = phase]
<1>1. /\ IsState(s) /\ IsClient(s.client) /\ ClientOK(s.client)
      /\ Spoken(s) /\ ServerOK(s.server)
  BY SoundFields
<1>2. e \in Nat /\ s.client.epoch \in Nat /\ e <= s.client.epoch
  BY <1>1 DEF ServerOK, Spoken, ClientOK
<1> HIDE DEF e
<1>3. CASE e < s.client.epoch
  <2>1. z = s BY <1>3 DEF OnDone
  <2> QED BY <2>1, SilentFollows DEF e
<1>4. CASE ~(e < s.client.epoch)
  <2>1. z = [done EXCEPT !.client.phase = TransferPhase(done.client, @)] BY <1>2, <1>4 DEF OnDone
  <2>2. done = [s EXCEPT !.client = b] BY <1>1 DEF IsState, StateFields
  <2> HIDE DEF done, z, b, phase
  <2>3. IsState(done) /\ done.client = b /\ \A f \in StateFields \ {"client"} : done[f] = s[f]
    BY <1>1, <2>2 DEF IsState, StateFields
  <2>4. /\ IsClient(b) /\ b.serverDone = TRUE
        /\ \A f \in ClientFields \ {"serverDone"} : b[f] = s.client[f]
    BY <1>1 DEF IsClient, ClientFields, b
  <2>5. z = [done EXCEPT !.client = c]
    <3>1. z = [done EXCEPT !.client.phase = phase] BY <2>1 DEF phase
    <3> QED BY <2>3, <3>1 DEF IsState, StateFields
  <2> HIDE DEF c
  <2>6. /\ IsClient(c) /\ c.phase = phase
        /\ \A f \in ClientFields \ {"phase"} : c[f] = b[f]
    BY <2>4 DEF IsClient, ClientFields, c
  <2>7. IsState(z) /\ z.client = c /\ \A f \in StateFields \ {"client"} : z[f] = s[f]
    BY <2>3, <2>5 DEF IsState, StateFields
  <2>8. Differs(s, z, {"client"}, Words) BY <2>4, <2>6, <2>7 DEF Differs, Words
  <2>9. /\ c.error = s.client.error /\ c.plan = s.client.plan /\ c.viewport = s.client.viewport
        /\ c.pending = s.client.pending /\ c.pendingPresentations = s.client.pendingPresentations
    BY <2>4, <2>6 DEF ClientFields
  <2>10. phase = IF DOMAIN c.pending # {} \/ c.pendingPresentations > 0 THEN "processing"
                 ELSE "observing"
    <3>1. /\ b.pending = c.pending /\ b.pendingPresentations = c.pendingPresentations
          /\ b.serverDone = TRUE
      BY <2>4, <2>6 DEF ClientFields
    <3> QED BY <2>3, <3>1 DEF phase, TransferPhase
  <2>11. z.client.phase \in Phases /\ z.client.error \in Errors /\ z.client.plan \in {NoPlan, 0, 1}
    BY <1>1, <2>6, <2>7, <2>9, <2>10 DEF ClientOK, Phases
  <2>12. Settled(z)
    <3>1. c.pendingPresentations \in Nat BY <1>1, <2>9 DEF ClientOK
    <3> QED BY <2>6, <2>7, <2>10, <3>1 DEF Settled, Pending
  <2>13. Sound(z) /\ Follows(s, z) BY <2>7, <2>8, <2>9, <2>11, <2>12, WordsSound
  <2> QED BY <2>13 DEF z, e
<1> QED BY <1>3, <1>4

LEMMA OnErrorOK ==
    ASSUME NEW s, Sound(s), NEW epoch \in Nat, epoch <= s.client.epoch
    PROVE  LET z == OnError(s, epoch) IN Sound(z) /\ Follows(s, z)
<1> DEFINE z == OnError(s, epoch)
           idle == DOMAIN s.client.pending = {} /\ s.client.pendingPresentations = 0
           ends == s.client.welcome /\ s.client.manifest # NoImage
           plan == IF ends THEN NoPlan ELSE s.client.plan
           phase == IF ~s.client.welcome THEN "error"
                    ELSE IF s.client.manifest = NoImage THEN "ready"
                    ELSE IF idle THEN "observing" ELSE "processing"
           c == [s.client EXCEPT !.error = "remote", !.plan = plan, !.phase = phase]
<1>1. /\ IsState(s) /\ IsClient(s.client) /\ ClientOK(s.client) BY SoundFields
<1>2. s.client.epoch \in Nat BY <1>1 DEF ClientOK
<1>3. CASE epoch # 0 /\ epoch < s.client.epoch
  <2>1. z = s BY <1>3 DEF OnError
  <2> QED BY <2>1, SilentFollows
<1>4. CASE ~(epoch # 0 /\ epoch < s.client.epoch)
  <2>1. z = [s EXCEPT !.client = c]
    <3>1. s.client = [s.client EXCEPT !.plan = s.client.plan] BY <1>1 DEF IsClient, ClientFields
    <3>2. CASE ~s.client.welcome
      <4>1. z = [[s EXCEPT !.client.error = "remote"] EXCEPT !.client.phase = "error"]
        BY <1>2, <1>4, <3>2 DEF OnError
      <4>2. c = [s.client EXCEPT !.error = "remote", !.plan = s.client.plan, !.phase = "error"]
        BY <3>2
      <4> HIDE DEF z, c
      <4> QED BY <1>1, <4>1, <4>2 DEF IsState, StateFields, IsClient, ClientFields
    <3>3. CASE s.client.welcome /\ s.client.manifest = NoImage
      <4>1. z = [[s EXCEPT !.client.error = "remote"] EXCEPT !.client.phase = "ready"]
        BY <1>2, <1>4, <3>3 DEF OnError
      <4>2. c = [s.client EXCEPT !.error = "remote", !.plan = s.client.plan, !.phase = "ready"]
        BY <3>3
      <4> HIDE DEF z, c
      <4> QED BY <1>1, <4>1, <4>2 DEF IsState, StateFields, IsClient, ClientFields
    <3>4. CASE ends
      <4>1. z = [[[s EXCEPT !.client.error = "remote"] EXCEPT !.client.plan = NoPlan]
                    EXCEPT !.client.phase = phase]
        BY <1>2, <1>4, <3>4 DEF OnError
      <4>2. c = [s.client EXCEPT !.error = "remote", !.plan = NoPlan, !.phase = phase] BY <3>4
      <4> HIDE DEF z, c, phase
      <4> QED BY <1>1, <4>1, <4>2 DEF IsState, StateFields, IsClient, ClientFields
    <3> QED BY <3>2, <3>3, <3>4
  <2>2. phase \in Phases /\ (phase = "observing" => idle) BY DEF Phases
  <2>3. plan \in {NoPlan, 0, 1} BY <1>1 DEF ClientOK
  <2> HIDE DEF z, c, plan, phase
  <2>4. /\ IsClient(c) /\ c.error = "remote" /\ c.plan = plan /\ c.phase = phase
        /\ c.viewport = s.client.viewport /\ c.pending = s.client.pending
        /\ c.pendingPresentations = s.client.pendingPresentations
        /\ \A f \in ClientFields \ {"error", "plan", "phase"} : c[f] = s.client[f]
    BY <1>1 DEF IsClient, ClientFields, c
  <2>5. Differs(s, z, {"client"}, Words) /\ z.client = c
    <3>1. \A f \in ClientFields \ Words : c[f] = s.client[f] BY <2>4 DEF Words
    <3> QED BY <1>1, <2>1, <2>4, <3>1, ClientSays
  <2>6. Settled(z) BY <2>2, <2>4, <2>5 DEF Settled, Pending
  <2>7. Sound(z) /\ Follows(s, z) BY <2>2, <2>3, <2>4, <2>5, <2>6, WordsSound DEF Errors
  <2> QED BY <2>7 DEF z
<1> QED BY <1>3, <1>4
--------------------------------------------------------------------------------
\* MANIFEST

LEMMA RememberOK ==
    ASSUME NEW history \in Seq(Images), NEW image \in Images
    PROVE  LET r == Remember(history, image)
           IN  r \in Seq(Images) /\ r # <<>> /\ LastOf(r) = image
<1> DEFINE w == Without(history, {image})
           kept == Append(w, image)
           r == Remember(history, image)
<1>1. w \in Seq(Images) BY WithoutRemains
<1>2. r = IF Len(kept) > MaxManifestHistory THEN Tail(kept) ELSE kept BY DEF Remember
<1> HIDE DEF w, r
<1>3. /\ kept \in Seq(Images) /\ Len(kept) = Len(w) + 1 /\ kept[Len(w) + 1] = image
      /\ Len(w) \in Nat
  BY <1>1, AppendProperties
<1> HIDE DEF kept
<1>4. CASE Len(kept) > MaxManifestHistory
  <2>1. r = Tail(kept) /\ Len(kept) > 1 BY <1>2, <1>3, <1>4, ClientAssumption
  <2>2. /\ r \in Seq(Images) /\ Len(r) = Len(kept) - 1
        /\ \A i \in 1..Len(r) : r[i] = kept[i + 1]
    BY <1>3, <2>1
  <2>3. Len(r) \in 1..Len(r) /\ r[Len(r)] = image BY <1>3, <2>1, <2>2
  <2>4. r # <<>> /\ LastOf(r) = image BY <2>3 DEF LastOf
  <2> QED BY <2>2, <2>4 DEF r
<1>5. CASE ~(Len(kept) > MaxManifestHistory)
  <2>1. r = kept BY <1>2, <1>5
  <2>2. r # <<>> /\ LastOf(r) = image BY <1>3, <2>1 DEF LastOf
  <2> QED BY <1>3, <2>1, <2>2 DEF r
<1> QED BY <1>4, <1>5

LEMMA ShowManifestOK ==
    ASSUME NEW s, Sound(s), s.client.welcome, NEW image \in Images, image = s.client.selected,
           s.server.stage # "sending",
           s.server.controls # <<>>, s.server.epoch = Len(s.server.controls),
           LastOf(s.server.controls) = [type |-> "OPEN", image |-> image]
    PROVE  LET z == ShowManifest(s, image)
           IN  /\ Core(z, {}) /\ Settled(z) /\ Follows(s, z) /\ z.canvas = s.canvas
               /\ z.client.manifest = image /\ z.client.viewport = s.client.viewport
               /\ z.client.welcome
<1> DEFINE z == ShowManifest(s, image)
           history == Remember(s.client.manifestHistory, image)
           c == [s.client EXCEPT !.manifest = image, !.manifestHistory = history,
                                 !.plan = NoPlan, !.serverDone = FALSE, !.phase = "opening"]
<1>1. /\ IsState(s) /\ IsClient(s.client) /\ ClientOK(s.client) /\ Base(s, {}) /\ Asked(s)
      /\ ServerOK(s.server)
  BY SoundFields
<1>2. history \in Seq(Images) /\ history # <<>> /\ LastOf(history) = image
  BY <1>1, RememberOK DEF ClientOK
<1>3. z = [s EXCEPT !.client = c]
  <2>1. z = [s EXCEPT !.client.manifest = image, !.client.manifestHistory = history,
                      !.client.plan = NoPlan, !.client.serverDone = FALSE, !.client.phase = "opening"]
    <3> HIDE DEF c
    <3> QED BY DEF ShowManifest
  <2> HIDE DEF history, z
  <2> QED BY <1>1, <2>1 DEF IsState, StateFields, IsClient, ClientFields
<1> HIDE DEF z, c, history
<1>4. /\ IsClient(c) /\ c.manifest = image /\ c.manifestHistory = history /\ c.plan = NoPlan
      /\ c.phase = "opening" /\ c.viewport = s.client.viewport /\ c.error = s.client.error
      /\ c.selected = s.client.selected /\ c.welcome = s.client.welcome
      /\ \A f \in ClientFields \ {"manifest", "manifestHistory", "plan", "serverDone", "phase"} :
            c[f] = s.client[f]
  BY <1>1 DEF IsClient, ClientFields, c
<1>5. Differs(s, z, {"client"}, ImageWords) /\ z.client = c
  <2>1. \A f \in ClientFields \ ImageWords : c[f] = s.client[f] BY <1>4 DEF ImageWords, Words
  <2> QED BY <1>1, <1>3, <1>4, <2>1, ClientSays
<1>6. z.server = s.server /\ z.canvas = s.canvas /\ z.sockets = s.sockets
  BY <1>5 DEF Differs, StateFields
<1>7. Known(z)
  <2>1. ASSUME NEW e \in DOMAIN z.server.controls, z.server.controls[e].type = "VIEW",
               e > z.server.epoch \/ (e = z.server.epoch /\ z.server.stage = "sending")
        PROVE  FALSE
    BY <1>1, <1>6, <2>1 DEF ServerOK
  <2> QED BY <1>2, <1>4, <1>5, <2>1 DEF Known
<1>8. Base(z, {})
  <2>1. /\ z.client.phase \in Phases /\ z.client.error \in Errors /\ z.client.plan \in {NoPlan, 0, 1}
        /\ z.client.selected \in Images \cup {NoImage}
        /\ z.client.manifest \in Images \cup {NoImage} /\ z.client.manifestHistory \in Seq(Images)
    BY <1>1, <1>2, <1>4, <1>5 DEF ClientOK, Phases
  <2> QED BY <1>1, <1>5, <1>7, <2>1, ImageOK
<1>9. Asked(z) BY <1>4, <1>5, <1>6 DEF Asked
<1>10. Settled(z) /\ Follows(s, z)
  <2>1. Settled(z) BY <1>4, <1>5 DEF Settled
  <2> QED BY <1>4, <1>5, <1>6, <2>1, SilentFollows
<1> QED BY <1>4, <1>5, <1>6, <1>8, <1>9, <1>10, CoreIsBase DEF z

\* The canvas starts over with an image.
LEMMA StartedOK ==
    ASSUME NEW s, Core(s, {}), Settled(s), s.client.welcome, s.client.viewport,
           s.client.manifest \in Images
    PROVE  LET z == [CompositorReset(s) EXCEPT !.canvas = StartImage(s.client.manifest)]
           IN  Core(z, {}) /\ Fresh(z) /\ Settled(z) /\ Follows(s, z)
<1> DEFINE image == s.client.manifest
           r == CompositorReset(s)
           v == StartImage(image)
           z == [r EXCEPT !.canvas = v]
<1>1. Core(r, {}) /\ Kept(s, r) /\ r.canvas = EmptyCanvas(FALSE) /\ Settled(r) BY CompositorResetOK
<1> HIDE DEF r
<1>2. v = [manifest |-> image, currentEpoch |-> 0, entries |-> <<>>, frame |-> TRUE]
  <2> DEFINE none == <<>>
             o == 0
             no == FALSE
             yes == TRUE
             empty == [manifest |-> NoImage, currentEpoch |-> o, entries |-> none, frame |-> no]
             titled == [empty EXCEPT !.manifest = image]
  <2>1. v = [titled EXCEPT !.frame = yes] BY DEF StartImage, SchedulePaint, EmptyCanvas
  <2> HIDE DEF v, none, o, no, yes, image
  <2>2. titled = [manifest |-> image, currentEpoch |-> o, entries |-> none, frame |-> no] OBVIOUS
  <2> HIDE DEF titled
  <2>3. v = [manifest |-> image, currentEpoch |-> o, entries |-> none, frame |-> yes] BY <2>1, <2>2
  <2> QED BY <2>3 DEF o, none, yes
<1> HIDE DEF v, z
<1>3. /\ CanvasOK(v) /\ v.frame = TRUE /\ v.entries = r.canvas.entries /\ DOMAIN v.entries = {}
      /\ v.manifest = image
  <2>1. DOMAIN <<>> = {} /\ IsFiniteSet({}) BY FS_EmptySet
  <2> QED BY <1>1, <1>2, <2>1 DEF CanvasOK, EmptyCanvas
<1>4. IsState(r) /\ IsClient(r.client) BY <1>1 DEF Core, Typed, ClientOK
<1>5. /\ IsState(z) /\ z.canvas = v /\ \A f \in StateFields \ {"canvas"} : z[f] = r[f]
  BY <1>4 DEF IsState, StateFields, z
<1>6. z.client = r.client /\ z.server = r.server /\ z.worker = r.worker /\ z.sockets = r.sockets
  BY <1>5 DEF StateFields
<1>7. Differs(r, z, {"canvas"}, {}) BY <1>4, <1>5, <1>6 DEF Differs
<1>8. /\ r.client.welcome = s.client.welcome /\ r.client.manifest = image
      /\ r.client.viewport = s.client.viewport
  BY <1>1 DEF Kept, ClientFields
<1>9. Core(z, {}) BY <1>1, <1>3, <1>5, <1>7, <1>8, FrameOK
<1>10. Fresh(z) BY <1>3, <1>5, <1>6, <1>8, ClientAssumption DEF Fresh
<1>11. Kept(s, z) BY <1>1, <1>6 DEF Kept, Heard
<1>12. Follows(s, z) BY <1>11, KeptFollows
<1>13. Settled(z) BY <1>1, <1>6 DEF Settled, Pending
<1> QED BY <1>9, <1>10, <1>12, <1>13 DEF z, v, r

\* The epochs are exhausted, and the last image that was opened is not the one selected.
Unopened(s, image) ==
    /\ EpochsExhausted(s) /\ image # s.client.selected
    /\ s.server.controls # <<>>
    /\ LastOf(s.server.controls) = [type |-> "OPEN", image |-> image]

LEMMA OnManifestOK ==
    ASSUME NEW s, Sound(s), IsOpen(s), NEW e \in DOMAIN s.server.controls, NEW image,
           s.server.controls[e] = [type |-> "OPEN", image |-> image],
           s.server.epoch = e, s.server.stage = "idle"
    PROVE  LET z == OnManifest(s, e, image)
           IN  Sound(z) /\ Heard(s, z) /\ (Follows(s, z) \/ Unopened(s, image))
<1> DEFINE z == OnManifest(s, e, image)
           q == ShowManifest(s, image)
           r == [CompositorReset(q) EXCEPT !.canvas = StartImage(image)]
<1>1. /\ IsState(s) /\ IsClient(s.client) /\ ClientOK(s.client) /\ Base(s, {}) /\ Asked(s)
      /\ ServerOK(s.server) /\ Spoken(s)
  BY SoundFields
<1>2. /\ e \in 1..Len(s.server.controls) /\ Len(s.server.controls) = s.client.epoch
      /\ s.client.epoch \in Nat /\ e <= s.client.epoch /\ s.server.controls[e] \in Control
  BY <1>1 DEF ServerOK, Spoken, ClientOK
<1>3. image \in Images BY <1>2 DEF Control
<1>4. s.client.welcome BY <1>1, <1>2 DEF Base, Quiet, IsOpen, IsLive
<1>5. CASE e < s.client.epoch
  <2>1. z = s BY <1>5 DEF OnManifest
  <2> QED BY <2>1, SilentFollows DEF Follows
<1>6. CASE ~(e < s.client.epoch) /\ image # s.client.selected
  <2>1. e = s.client.epoch /\ s.server.controls # <<>>
        /\ LastOf(s.server.controls) = [type |-> "OPEN", image |-> image]
    BY <1>2, <1>6 DEF LastOf
  <2>2. Unopened(s, image) BY <1>1, <1>6, <2>1 DEF Asked, Unopened
  <2>3. z = ProtocolViolation(s) BY <1>2, <1>6 DEF OnManifest
  <2>4. z.server.deliveries = s.server.deliveries
    <3>1. z = Fail(CloseTransport(s), "violation") BY <2>3 DEF ProtocolViolation
    <3> DEFINE k == CloseTransport(s)
    <3>4. Differs(s, k, {"sockets"}, {}) /\ Base(k, {}) BY <1>1, CloseTransportOK
    <3> HIDE DEF k, z
    <3>2. k.server = s.server /\ Base(k, {}) BY <3>4 DEF Differs, StateFields
    <3>3. Differs(k, z, {"client"}, Words) BY <3>1, <3>2, FailOK DEF k, Errors
    <3> QED BY <3>2, <3>3 DEF Differs, StateFields
  <2> QED BY <2>2, <2>3, <2>4, NothingHeard, ViolationSound
<1>7. CASE ~(e < s.client.epoch) /\ image = s.client.selected
  <2>1. e = s.client.epoch /\ s.server.controls # <<>>
        /\ LastOf(s.server.controls) = [type |-> "OPEN", image |-> image]
    BY <1>2, <1>7 DEF LastOf
  <2>2. /\ Core(q, {}) /\ Settled(q) /\ Follows(s, q) /\ q.canvas = s.canvas
        /\ q.client.manifest = image /\ q.client.viewport = s.client.viewport
        /\ q.client.welcome
    BY <1>2, <1>3, <1>4, <1>7, <2>1, ShowManifestOK
  <2> HIDE DEF q
  <2>3. CASE ~s.client.viewport
    <3>1. z = q BY <1>2, <1>7, <2>3 DEF OnManifest, q
    <3>2. Fresh(q) BY <2>2, <2>3 DEF Fresh, Sound
    <3> QED BY <2>2, <3>1, <3>2 DEF Sound, Follows
  <2>4. CASE s.client.viewport
    <3>1. z = RequestView(r) BY <1>2, <1>7, <2>4 DEF OnManifest, q
    <3>2. r = [CompositorReset(q) EXCEPT !.canvas = StartImage(q.client.manifest)] BY <2>2
    <3> HIDE DEF r, z
    <3>3. Core(r, {}) /\ Fresh(r) /\ Settled(r) /\ Follows(q, r)
      BY <1>3, <2>2, <2>4, <3>2, StartedOK
    <3>4. Core(z, {}) /\ Fresh(z) /\ Settled(z) /\ Follows(r, z) BY <3>1, <3>3, RequestViewOK
    <3>5. Sound(z) /\ Follows(s, z) BY <2>2, <3>3, <3>4, FollowsTwice DEF Sound
    <3> QED BY <3>5 DEF z, Follows
  <2> QED BY <2>3, <2>4
<1> QED BY <1>5, <1>6, <1>7
--------------------------------------------------------------------------------
\* The user

LEMMA SelectImageOK ==
    ASSUME NEW s, Sound(s), NEW image \in Images, NEW phase \in Phases, phase # "observing"
    PROVE  LET selected == [s EXCEPT !.client.selected = image]
               z == IF s.client.welcome /\ IsOpen(s) THEN OpenSelected(selected)
                    ELSE [selected EXCEPT !.client.phase = phase]
           IN  Sound(z) /\ Follows(s, z)
<1> DEFINE q == [s EXCEPT !.client.selected = image]
           c == [s.client EXCEPT !.selected = image]
           z == IF s.client.welcome /\ IsOpen(s) THEN OpenSelected(q)
                ELSE [q EXCEPT !.client.phase = phase]
<1>1. /\ IsState(s) /\ IsClient(s.client) /\ ClientOK(s.client) /\ Base(s, {}) /\ Asked(s)
      /\ ServerOK(s.server)
  BY SoundFields
<1>2. q = [s EXCEPT !.client = c] BY <1>1 DEF IsState, StateFields
<1> HIDE DEF q, c
<1>3. /\ IsClient(c) /\ c.selected = image /\ c.manifest = s.client.manifest
      /\ c.manifestHistory = s.client.manifestHistory /\ c.plan = s.client.plan
      /\ c.phase = s.client.phase /\ c.viewport = s.client.viewport /\ c.error = s.client.error
      /\ c.welcome = s.client.welcome /\ c.pending = s.client.pending
      /\ c.pendingPresentations = s.client.pendingPresentations
      /\ c.epoch = s.client.epoch /\ c.connectionId = s.client.connectionId
      /\ \A f \in ClientFields \ {"selected"} : c[f] = s.client[f]
  BY <1>1 DEF IsClient, ClientFields, c
<1>4. Differs(s, q, {"client"}, ImageWords) /\ q.client = c
  <2>1. \A f \in ClientFields \ ImageWords : c[f] = s.client[f] BY <1>3 DEF ImageWords
  <2> QED BY <1>1, <1>2, <1>3, <2>1, ClientSays
<1>5. q.server = s.server /\ q.canvas = s.canvas /\ q.sockets = s.sockets
  BY <1>4 DEF Differs, StateFields
<1>6. Known(q) BY <1>1, <1>3, <1>4, <1>5 DEF Known, Base
<1>7. Base(q, {})
  <2>1. /\ q.client.phase \in Phases /\ q.client.error \in Errors /\ q.client.plan \in {NoPlan, 0, 1}
        /\ q.client.selected \in Images \cup {NoImage}
        /\ q.client.manifest \in Images \cup {NoImage} /\ q.client.manifestHistory \in Seq(Images)
    BY <1>1, <1>3, <1>4 DEF ClientOK
  <2>2. s.client.welcome \/ q.client.manifest = NoImage BY <1>1, <1>3, <1>4 DEF Base, Quiet
  <2> QED BY <1>1, <1>4, <1>6, <2>1, <2>2, ImageOK
<1>8. Fresh(q) /\ Settled(q) /\ Follows(s, q)
  <2>1. Fresh(q) BY <1>3, <1>4, <1>5 DEF Fresh, Sound
  <2>2. Settled(q) BY <1>3, <1>4 DEF Settled, Pending, Sound
  <2> QED BY <1>3, <1>4, <1>5, <2>1, <2>2, SilentFollows
<1>9. CASE s.client.welcome /\ IsOpen(s)
  <2>1. z = OpenSelected(q) BY <1>9
  <2> HIDE DEF z
  <2>2. Viewed(q) BY <1>1, <1>3, <1>4, <1>5 DEF Viewed, Asked, IsOpen
  <2>3. q.client.welcome /\ q.client.selected # NoImage BY <1>3, <1>4, <1>9, ClientAssumption
  <2>4. Core(z, {}) /\ Fresh(z) /\ Settled(z) /\ Follows(q, z)
    BY <1>7, <1>8, <2>1, <2>2, <2>3, OpenSelectedOK
  <2>5. Sound(z) /\ Follows(s, z) BY <1>8, <2>4, FollowsTwice DEF Sound
  <2> QED BY <2>5 DEF z, q
<1>10. CASE ~(s.client.welcome /\ IsOpen(s))
  <2>1. z = [q EXCEPT !.client.phase = phase] BY <1>10
  <2> HIDE DEF z
  <2>2. IsOpen(q) => q.server.controls = <<>>
    BY <1>1, <1>3, <1>4, <1>5, <1>10 DEF IsOpen, IsLive, Base, Quiet
  <2>3. Asked(q) BY <2>2 DEF Asked
  <2>4. Core(q, {}) BY <1>7, <2>3, CoreIsBase
  <2>5. /\ Core(z, {}) /\ Differs(q, z, {"client"}, {"phase"}) /\ z.client.phase = phase
        /\ z.canvas = q.canvas
    BY <2>1, <2>4, PhaseSays
  <2>6. /\ z.server = q.server /\ z.client.error = q.client.error
        /\ z.client.manifest = q.client.manifest /\ z.client.viewport = q.client.viewport
        /\ z.client.epoch = q.client.epoch
    BY <2>5 DEF Differs, StateFields, ClientFields
  <2>7. Fresh(z) /\ Settled(z) BY <1>8, <2>5, <2>6 DEF Fresh, Settled
  <2>8. Follows(q, z) BY <2>6, SilentFollows
  <2>9. Sound(z) /\ Follows(s, z) BY <1>8, <2>5, <2>7, <2>8, FollowsTwice DEF Sound
  <2> QED BY <2>9 DEF z, q
<1> QED BY <1>9, <1>10

LEMMA OpenAgainOK ==
    ASSUME NEW s, Sound(s), s.client.welcome
    PROVE  LET z == OpenSelected(s) IN Sound(z) /\ Follows(s, z)
<1> DEFINE z == OpenSelected(s)
<1>1. Base(s, {}) /\ Asked(s) /\ Fresh(s) /\ Settled(s) BY SoundFields DEF Sound
<1>2. Core(z, {}) /\ Fresh(z) /\ Settled(z) /\ Follows(s, z) BY <1>1, AskedIsViewed, OpenSelectedOK
<1> QED BY <1>2 DEF Sound

LEMMA NavigateOK ==
    ASSUME NEW s, Sound(s)
    PROVE  LET z == RequestView(s) IN Sound(z) /\ Follows(s, z)
<1> DEFINE z == RequestView(s)
<1>1. Core(z, {}) /\ Fresh(z) /\ Settled(z) /\ Follows(s, z) BY RequestViewOK DEF Sound
<1> QED BY <1>1 DEF Sound

LEMMA SetViewportOK ==
    ASSUME NEW s, Sound(s)
    PROVE  LET sized == [s EXCEPT !.client.viewport = TRUE]
               z == IF s.client.manifest = NoImage THEN sized
                    ELSE RequestView([sized EXCEPT !.canvas = SchedulePaint(@)])
           IN  Sound(z) /\ Follows(s, z)
<1> DEFINE q == [s EXCEPT !.client.viewport = TRUE]
           c == [s.client EXCEPT !.viewport = TRUE]
           p == [q EXCEPT !.canvas = SchedulePaint(@)]
           z == IF s.client.manifest = NoImage THEN q ELSE RequestView(p)
<1>1. /\ IsState(s) /\ IsClient(s.client) /\ ClientOK(s.client) BY SoundFields
<1>2. q = [s EXCEPT !.client = c] BY <1>1 DEF IsState, StateFields
<1> HIDE DEF q, c
<1>3. /\ IsClient(c) /\ c.viewport = TRUE /\ c.phase = s.client.phase /\ c.error = s.client.error
      /\ c.plan = s.client.plan /\ c.pending = s.client.pending
      /\ c.pendingPresentations = s.client.pendingPresentations
      /\ \A f \in ClientFields \ {"viewport"} : c[f] = s.client[f]
  BY <1>1 DEF IsClient, ClientFields, c
<1>4. Differs(s, q, {"client"}, Words) /\ q.client = c
  <2>1. \A f \in ClientFields \ Words : c[f] = s.client[f] BY <1>3 DEF Words
  <2> QED BY <1>1, <1>2, <1>3, <2>1, ClientSays
<1>5. Sound(q) /\ Follows(s, q)
  <2>1. q.client.phase \in Phases /\ q.client.error \in Errors /\ q.client.plan \in {NoPlan, 0, 1}
    BY <1>1, <1>3, <1>4 DEF ClientOK
  <2>2. Settled(q) BY <1>3, <1>4 DEF Settled, Pending, Sound
  <2> QED BY <1>3, <1>4, <2>1, <2>2, WordsSound
<1>6. CASE s.client.manifest = NoImage BY <1>5, <1>6 DEF q
<1>7. CASE s.client.manifest # NoImage
  <2> DEFINE v == SchedulePaint(q.canvas)
  <2>1. p = [q EXCEPT !.canvas = v] OBVIOUS
  <2>2. /\ IsState(q) /\ IsClient(q.client) /\ CanvasOK(q.canvas) BY <1>5, SoundFields DEF Typed
  <2>3. v = [manifest |-> q.canvas.manifest, currentEpoch |-> q.canvas.currentEpoch,
             entries |-> q.canvas.entries, frame |-> TRUE]
    <3>1. q.canvas = [manifest |-> q.canvas.manifest, currentEpoch |-> q.canvas.currentEpoch,
                      entries |-> q.canvas.entries, frame |-> q.canvas.frame]
      BY <2>2 DEF CanvasOK
    <3> DEFINE yes == TRUE
    <3>2. v = [q.canvas EXCEPT !.frame = yes] BY DEF SchedulePaint
    <3> HIDE DEF v, yes
    <3>3. v = [manifest |-> q.canvas.manifest, currentEpoch |-> q.canvas.currentEpoch,
               entries |-> q.canvas.entries, frame |-> yes]
      BY <3>1, <3>2
    <3> QED BY <3>3 DEF yes
  <2> HIDE DEF p, v
  <2>4. /\ CanvasOK(v) /\ v.frame = TRUE /\ v.entries = q.canvas.entries
        /\ v.manifest = q.canvas.manifest
    BY <2>2, <2>3 DEF CanvasOK
  <2>5. /\ IsState(p) /\ p.canvas = v /\ \A f \in StateFields \ {"canvas"} : p[f] = q[f]
    BY <2>1, <2>2 DEF IsState, StateFields
  <2>6. p.client = q.client /\ p.server = q.server BY <2>5 DEF StateFields
  <2>7. Differs(q, p, {"canvas"}, {}) BY <2>2, <2>5, <2>6 DEF Differs
  <2>8. Core(p, {})
    <3>1. q.client.welcome \/ q.canvas.manifest = NoImage BY <1>5 DEF Sound, Core, Quiet
    <3>2. Core(q, {}) BY <1>5 DEF Sound
    <3> QED BY <2>4, <2>5, <2>7, <3>1, <3>2, FrameOK
  <2>9. Fresh(p) /\ Settled(p) /\ Follows(q, p)
    <3>1. Fresh(p) BY <1>5, <2>4, <2>5, <2>6 DEF Fresh, Sound
    <3>2. Settled(p) BY <1>5, <2>6 DEF Settled, Pending, Sound
    <3> QED BY <2>6, <3>1, <3>2, SilentFollows
  <2>10. Sound(p) BY <2>8, <2>9 DEF Sound
  <2>11. Sound(RequestView(p)) /\ Follows(p, RequestView(p)) BY <2>10, NavigateOK
  <2>12. Follows(s, RequestView(p)) BY <1>5, <2>9, <2>11, FollowsTwice
  <2> QED BY <1>7, <2>11, <2>12 DEF p, q
<1> QED BY <1>6, <1>7

--------------------------------------------------------------------------------
\* The server takes a control, or ends what it does

Stages == {"hello", "idle", "sending", "over"}

Answering(s, stage, epoch) ==
    [s EXCEPT !.server = [s.server EXCEPT !.stage = stage, !.epoch = epoch]]

LEMMA AnswersOK ==
    ASSUME NEW s, Sound(s), NEW stage \in Stages, NEW epoch, epoch \in Nat,
           epoch <= s.client.epoch,
           epoch > s.server.epoch \/ (epoch = s.server.epoch /\ stage # "sending"),
           stage = "sending" => epoch # 0 /\ s.server.controls[epoch].type = "VIEW",
           NEW z, z = Answering(s, stage, epoch)
    PROVE  /\ Sound(z) /\ Follows(s, z) /\ z.client = s.client /\ z.sockets = s.sockets
           /\ z.server.epoch = epoch /\ z.server.stage = stage
           /\ z.server.controls = s.server.controls
           /\ z.server.deliveries = s.server.deliveries
<1> DEFINE e == [s.server EXCEPT !.stage = stage, !.epoch = epoch]
<1>1. /\ IsState(s) /\ IsClient(s.client) /\ ClientOK(s.client)
      /\ ServerOK(s.server) /\ Spoken(s) /\ Known(s)
  BY SoundFields
<1>2. e = [stage |-> stage, epoch |-> epoch, controls |-> s.server.controls,
           deliveries |-> s.server.deliveries]
  <2>1. s.server = [stage |-> s.server.stage, epoch |-> s.server.epoch,
                    controls |-> s.server.controls, deliveries |-> s.server.deliveries]
    BY <1>1 DEF ServerOK
  <2> DEFINE w == s.server
             x == [w EXCEPT !.stage = stage]
  <2>2. w = [stage |-> w.stage, epoch |-> w.epoch, controls |-> w.controls, deliveries |-> w.deliveries]
    BY <2>1
  <2>3. e = [w EXCEPT !.stage = stage, !.epoch = epoch] OBVIOUS
  <2> HIDE DEF w, e
  <2>4. x = [stage |-> stage, epoch |-> w.epoch, controls |-> w.controls, deliveries |-> w.deliveries]
    BY <2>2
  <2>5. e = [x EXCEPT !.epoch = epoch] BY <2>2, <2>3
  <2> HIDE DEF x
  <2>6. e = [stage |-> stage, epoch |-> epoch, controls |-> w.controls, deliveries |-> w.deliveries]
    BY <2>4, <2>5
  <2> QED BY <2>6 DEF w
<1>3. z = [s EXCEPT !.server = e] BY DEF Answering
<1> HIDE DEF e
<1>4. /\ IsState(z) /\ z.server = e /\ \A f \in StateFields \ {"server"} : z[f] = s[f]
  BY <1>1, <1>3 DEF IsState, StateFields
<1>5. z.client = s.client /\ z.canvas = s.canvas /\ z.sockets = s.sockets BY <1>4 DEF StateFields
<1>6. /\ e.stage = stage /\ e.epoch = epoch /\ e.controls = s.server.controls
      /\ e.deliveries = s.server.deliveries
  BY <1>2
<1>7. s.client.epoch \in 0..MaxEpoch /\ s.server.epoch \in 0..MaxEpoch /\ MaxEpoch \in Nat
  BY <1>1, ClientAssumption DEF ClientOK, ServerOK
<1>8. ServerOK(e) BY <1>1, <1>2, <1>6, <1>7 DEF ServerOK, Stages
<1>9. Spoken(z)
  <2>1. \A d \in DOMAIN s.server.deliveries : s.server.deliveries[d].epoch <= epoch
    <3>1. \A d \in DOMAIN s.server.deliveries :
            s.server.deliveries[d] \in Sent /\ s.server.deliveries[d].epoch \in Nat
      <4>1. \A d \in DOMAIN s.server.deliveries : s.server.deliveries[d] \in Sent
        BY <1>1 DEF ServerOK
      <4> QED BY <4>1, <1>7 DEF Sent
    <3> QED BY <1>1, <1>7, <3>1 DEF Spoken
  <2> QED BY <1>1, <1>4, <1>5, <1>6, <2>1 DEF Spoken
<1>10. Known(z)
  <2>1. ASSUME NEW k \in DOMAIN z.server.controls, z.server.controls[k].type = "VIEW",
               k > z.server.epoch \/ (k = z.server.epoch /\ z.server.stage = "sending")
        PROVE  /\ z.client.manifestHistory # <<>>
               /\ z.server.controls[k].image = LastOf(z.client.manifestHistory)
    <3>1. k \in DOMAIN s.server.controls /\ k \in Nat BY <1>1, <1>4, <1>6, <2>1 DEF ServerOK
    <3>2. k > s.server.epoch BY <1>4, <1>6, <1>7, <2>1, <3>1
    <3> QED BY <1>1, <1>4, <1>5, <1>6, <2>1, <3>1, <3>2 DEF Known
  <2> QED BY <1>1, <1>5, <2>1 DEF Known
<1>11. Core(z, {})
  <2>1. Differs(s, z, {"server"}, {}) BY <1>1, <1>4, <1>5 DEF Differs
  <2> QED BY <1>4, <1>6, <1>8, <1>9, <1>10, <2>1, StageOK DEF Sound
<1>12. Fresh(z) /\ Settled(z) BY <1>5 DEF Sound, Fresh, Settled, Pending
<1>13. Follows(s, z) BY <1>4, <1>5, <1>6, SilentFollows
<1> QED BY <1>4, <1>5, <1>6, <1>11, <1>12, <1>13 DEF Sound
--------------------------------------------------------------------------------
\* A tile is received

\* The steps in which only the accounts of the tiles change.
LEMMA RestOK ==
    ASSUME NEW s, NEW J, Core(s, J), s.client.welcome, NEW z, NEW K,
           Differs(s, z, {"client", "ledger", "budget", "worker", "server"},
                   {"pending", "phase", "received", "terminal", "releases"}),
           z.server.controls = s.server.controls, z.server.epoch = s.server.epoch,
           z.server.stage = s.server.stage,
           \A d \in DOMAIN z.server.deliveries : z.server.deliveries[d].epoch <= z.server.epoch,
           Typed(z), Tiled(z, K)
    PROVE  Core(z, K)
<1>1. /\ z.client.connectionId = s.client.connectionId /\ z.client.epoch = s.client.epoch
      /\ z.client.selected = s.client.selected /\ z.client.manifest = s.client.manifest
      /\ z.client.manifestHistory = s.client.manifestHistory
      /\ z.client.welcome = s.client.welcome
      /\ z.canvas = s.canvas /\ z.sockets = s.sockets
  BY DEF Differs, StateFields, ClientFields
<1>2. IsOpen(z) = IsOpen(s) /\ EpochsExhausted(z) = EpochsExhausted(s)
  BY <1>1 DEF IsOpen, EpochsExhausted
<1>3. Spoken(s) /\ Known(s) /\ Asked(s) /\ Sockets(s) BY DEF Core
<1>4. Spoken(z) BY <1>1, <1>3 DEF Spoken
<1>5. Known(z) BY <1>1, <1>3 DEF Known
<1>6. Asked(z) BY <1>1, <1>2, <1>3 DEF Asked
<1>7. Quiet(z) BY <1>1 DEF Quiet
<1>8. Sockets(z) BY <1>1, <1>3 DEF Sockets
<1> QED BY <1>4, <1>5, <1>6, <1>7, <1>8 DEF Core, Tiled

\* The delivery id was sent, once more or for the first time, and is in the ledger.
Taken(s, q, id) ==
    /\ Differs(s, q, {"client", "ledger", "server"}, {"received"})
    /\ q.client.received = s.client.received + 1
    /\ q.server.controls = s.server.controls /\ q.server.epoch = s.server.epoch
    /\ q.server.stage = s.server.stage
    /\ ServerOK(q.server) /\ LedgerOK(q.ledger)
    /\ DOMAIN q.server.deliveries = DOMAIN s.server.deliveries \cup {id}
    /\ \A d \in DOMAIN s.server.deliveries \ {id} :
            q.server.deliveries[d] = s.server.deliveries[d]
    /\ LET receipt == q.server.deliveries[id].receipt
       IN  /\ receipt.acks = 0 /\ receipt.copies = receipt.asks + 1
           /\ receipt.asks <= MaxSelectiveRetries
           /\ receipt.asks = q.ledger.active[id].retryRequests
    /\ q.server.deliveries[id].epoch <= q.server.epoch
    /\ SumOfAsks(q.server.deliveries) = SumOfAsks(s.server.deliveries)
    /\ q.ledger.released = s.ledger.released
    /\ DOMAIN q.ledger.active = DOMAIN s.ledger.active \cup {id}
    /\ \A d \in DOMAIN s.ledger.active \ {id} : q.ledger.active[d] = s.ledger.active[d]
    /\ q.ledger.active[id].connection = s.client.connectionId
    /\ ~q.ledger.active[id].retryExpected

LEMMA TakenTyped ==
    ASSUME NEW s, Core(s, {}), NEW q, NEW id, Taken(s, q, id)
    PROVE  /\ Typed(q)
           /\ q.client.connectionId = s.client.connectionId /\ q.client.epoch = s.client.epoch
           /\ q.client.pending = s.client.pending /\ q.client.terminal = s.client.terminal
           /\ q.client.releases = s.client.releases
           /\ q.client.pendingPresentations = s.client.pendingPresentations
           /\ q.client.welcome = s.client.welcome /\ q.client.error = s.client.error
           /\ q.client.phase = s.client.phase /\ q.client.manifest = s.client.manifest
           /\ q.client.viewport = s.client.viewport
           /\ q.canvas = s.canvas /\ q.sockets = s.sockets /\ q.worker = s.worker
           /\ q.budget = s.budget /\ IsOpen(q) = IsOpen(s)
<1>1. /\ q.client.connectionId = s.client.connectionId /\ q.client.epoch = s.client.epoch
      /\ q.client.pending = s.client.pending /\ q.client.terminal = s.client.terminal
      /\ q.client.releases = s.client.releases
      /\ q.client.pendingPresentations = s.client.pendingPresentations
      /\ q.client.welcome = s.client.welcome /\ q.client.error = s.client.error
      /\ q.client.phase = s.client.phase /\ q.client.manifest = s.client.manifest
      /\ q.client.viewport = s.client.viewport
      /\ q.client.selected = s.client.selected /\ q.client.plan = s.client.plan
      /\ q.client.manifestHistory = s.client.manifestHistory
      /\ q.client.received = s.client.received + 1
      /\ IsState(q) /\ IsClient(q.client)
  BY DEF Taken, Differs, ClientFields
<1>2. /\ q.canvas = s.canvas /\ q.sockets = s.sockets /\ q.worker = s.worker
      /\ q.budget = s.budget
  BY DEF Taken, Differs, StateFields
<1>3. IsOpen(q) = IsOpen(s) BY <1>1, <1>2 DEF IsOpen
<1>4. ClientOK(s.client) /\ Typed(s) BY DEF Core, Typed
<1>5. ClientOK(q.client)
  <2>1. s.client.received + 1 \in Nat BY <1>4 DEF ClientOK
  <2> QED BY <1>1, <1>4, <2>1 DEF ClientOK
<1>6. Typed(q) BY <1>1, <1>2, <1>4, <1>5 DEF Typed, Taken
<1> QED BY <1>1, <1>2, <1>3, <1>6

LEMMA TakenPlaced ==
    ASSUME NEW s, Core(s, {}), IsOpen(s), NEW q, NEW id, Taken(s, q, id),
           \A j \in Held(s, {}) : j.delivery # id,
           NEW job \in Jobs, job.connection = s.client.connectionId, job.delivery = id
    PROVE  Placed(q, {job}) /\ AtWork(q, {job}) /\ Held(q, {job}) = Held(s, {}) \cup {job}
<1>1. /\ q.client.connectionId = s.client.connectionId /\ q.client.pending = s.client.pending
      /\ q.canvas = s.canvas /\ q.worker = s.worker /\ IsOpen(q) = IsOpen(s)
  BY TakenTyped, SMTT(30), ZenonT(60)
<1>2. DOMAIN q.server.deliveries = DOMAIN s.server.deliveries \cup {id} BY DEF Taken
<1>3. Placed(s, {}) /\ AtWork(s, {}) BY DEF Core
<1>4. /\ Pending(q) = Pending(s) /\ UndrawnJobs(q) = UndrawnJobs(s)
      /\ Held(q, {job}) = Held(s, {}) \cup {job}
      /\ Held(s, {}) = Pending(s) \cup UndrawnJobs(s)
  BY <1>1 DEF Pending, UndrawnJobs, UndrawnTiles, Held
<1>5. job \notin Held(s, {}) OBVIOUS
<1>6. Placed(q, {job})
  <2>1. {job} \in SUBSET Jobs /\ IsFiniteSet({job}) BY FS_Singleton
  <2>2. \A j \in Pending(q) \cup {job} : j.connection = q.client.connectionId
    BY <1>1, <1>3, <1>4 DEF Placed
  <2>3. \A t \in DOMAIN q.canvas.entries :
            /\ q.canvas.entries[t].job.tile = t
            /\ q.canvas.entries[t].job.connection = q.client.connectionId
    BY <1>1, <1>3 DEF Placed
  <2>4. \A j \in Held(q, {job}) : j.delivery \in DOMAIN q.server.deliveries
    BY <1>2, <1>3, <1>4 DEF Placed
  <2>5. \A j, k \in Held(q, {job}) : j.delivery = k.delivery => j = k
    <3>1. \A j, k \in Held(s, {}) : j.delivery = k.delivery => j = k BY <1>3 DEF Placed
    <3> QED BY <1>4, <3>1
  <2>6. Pending(q) \cap UndrawnJobs(q) = {} /\ {job} \cap (Pending(q) \cup UndrawnJobs(q)) = {}
    BY <1>3, <1>4, <1>5 DEF Placed
  <2> QED BY <2>1, <2>2, <2>3, <2>4, <2>5, <2>6 DEF Placed
<1>7. AtWork(q, {job})
  <2>1. job \notin JobsOf(s.worker) BY <1>3, <1>4, <1>5 DEF AtWork
  <2> QED BY <1>1, <1>3, <1>4, <2>1 DEF AtWork
<1> QED BY <1>4, <1>6, <1>7

LEMMA TakenOwned ==
    ASSUME NEW s, Core(s, {}), IsOpen(s), NEW q, NEW id, Taken(s, q, id),
           \A j \in Held(s, {}) : j.delivery # id,
           NEW job, job.delivery = id, Held(q, {job}) = Held(s, {}) \cup {job}
    PROVE  Owned(q, {job}) /\ Agreed(q)
<1>1. q.client.connectionId = s.client.connectionId BY TakenTyped
<1>2. Owned(s, {}) /\ Agreed(s) BY DEF Core
<1>3. /\ DOMAIN q.ledger.active = DOMAIN s.ledger.active \cup {id}
      /\ \A d \in DOMAIN s.ledger.active \ {id} : q.ledger.active[d] = s.ledger.active[d]
      /\ q.ledger.active[id].connection = s.client.connectionId
      /\ ~q.ledger.active[id].retryExpected
      /\ q.ledger.released = s.ledger.released
      /\ DOMAIN q.server.deliveries = DOMAIN s.server.deliveries \cup {id}
      /\ \A d \in DOMAIN s.server.deliveries \ {id} :
            q.server.deliveries[d] = s.server.deliveries[d]
  BY DEF Taken
<1>4. Owned(q, {job})
  <2>1. ASSUME NEW d \in DOMAIN q.ledger.active
        PROVE  /\ q.ledger.active[d].connection = q.client.connectionId
               /\ q.ledger.active[d].retryExpected \/ \E j \in Held(q, {job}) : j.delivery = d
    <3>1. CASE d = id BY <1>1, <1>3, <3>1
    <3>2. CASE d # id BY <1>1, <1>2, <1>3, <3>2, SMTT(30), ZenonT(60) DEF Owned
    <3> QED BY <3>1, <3>2
  <2>2. ASSUME NEW j \in Held(q, {job})
        PROVE  /\ j.delivery \in DOMAIN q.ledger.active
               /\ ~q.ledger.active[j.delivery].retryExpected
    <3>1. CASE j = job BY <1>3, <3>1
    <3>2. CASE j \in Held(s, {}) BY <1>2, <1>3, <3>2 DEF Owned
    <3> QED BY <3>1, <3>2
  <2> QED BY <2>1, <2>2 DEF Owned
<1>5. Agreed(q)
  <2> DEFINE Fits(w, d) ==
        LET receipt == w.server.deliveries[d].receipt
        IN  IF d \in DOMAIN w.ledger.active
            THEN /\ receipt.acks = 0
                 /\ receipt.asks = w.ledger.active[d].retryRequests
                 /\ receipt.asks <= MaxSelectiveRetries
                 /\ receipt.copies =
                        IF w.ledger.active[d].retryExpected THEN receipt.asks
                        ELSE receipt.asks + 1
            ELSE receipt.acks = 1 /\ receipt.copies = receipt.asks + 1
  <2>1. DOMAIN q.ledger.active \cup Elements(q.ledger.released) \subseteq DOMAIN q.server.deliveries
    BY <1>2, <1>3 DEF Agreed
  <2>2. Fits(q, id) BY <1>3 DEF Taken
  <2>3. \A d \in DOMAIN s.server.deliveries : Fits(s, d) BY <1>2 DEF Agreed
  <2>4. ASSUME NEW d \in DOMAIN q.server.deliveries PROVE Fits(q, d)
    <3>1. CASE d = id BY <2>2, <3>1
    <3>2. CASE d # id
      <4>1. d \in DOMAIN s.server.deliveries /\ q.server.deliveries[d] = s.server.deliveries[d]
        BY <1>3, <3>2
      <4>2. /\ d \in DOMAIN q.ledger.active <=> d \in DOMAIN s.ledger.active
            /\ d \in DOMAIN s.ledger.active => q.ledger.active[d] = s.ledger.active[d]
        BY <1>3, <3>2
      <4>3. Fits(s, d) BY <2>3, <4>1
      <4> QED BY <4>1, <4>2, <4>3
    <3> QED BY <3>1, <3>2
  <2> QED BY <2>1, <2>4 DEF Agreed
<1> QED BY <1>4, <1>5

LEMMA TakenOK ==
    ASSUME NEW s, Core(s, {}), IsOpen(s), s.client.welcome, NEW q, NEW id, Taken(s, q, id),
           \A j \in Held(s, {}) : j.delivery # id,
           NEW job \in Jobs, job.connection = s.client.connectionId, job.delivery = id
    PROVE  Core(q, {job})
<1>1. /\ Typed(q)
      /\ q.client.pending = s.client.pending /\ q.client.terminal = s.client.terminal
      /\ q.client.releases = s.client.releases
      /\ q.client.pendingPresentations = s.client.pendingPresentations
      /\ q.client.welcome = s.client.welcome
      /\ q.canvas = s.canvas /\ q.budget = s.budget /\ IsOpen(q) = IsOpen(s)
  BY TakenTyped, SMTT(30), ZenonT(60)
<1>2. Placed(q, {job}) /\ AtWork(q, {job}) /\ Held(q, {job}) = Held(s, {}) \cup {job} BY TakenPlaced
<1>3. Owned(q, {job}) /\ Agreed(q) BY <1>2, TakenOwned
<1>4. Pending(q) = Pending(s) /\ UndrawnTiles(q) = UndrawnTiles(s) BY <1>1 DEF Pending, UndrawnTiles
<1>5. Accounts(q, {job})
  <2>1. /\ s.client.received = s.client.terminal + Cardinality(Pending(s))
                                + s.client.pendingPresentations + Cardinality({})
        /\ s.client.terminal = s.client.releases + SumOfAsks(s.server.deliveries)
        /\ s.client.pendingPresentations = Cardinality(UndrawnTiles(s))
        /\ UndrawnTiles(s) # {} => s.canvas.frame
    BY DEF Core, Accounts
  <2>2. Cardinality({}) = 0 /\ Cardinality({job}) = 1 BY FS_EmptySet, FS_Singleton
  <2>3. /\ s.client.terminal \in Nat /\ s.client.pendingPresentations \in Nat
        /\ Cardinality(Pending(s)) \in Nat
    BY FS_CardinalityType DEF Core, Typed, ClientOK, Pending
  <2>4. /\ q.client.received = s.client.received + 1
        /\ SumOfAsks(q.server.deliveries) = SumOfAsks(s.server.deliveries)
    BY DEF Taken
  <2>5. q.client.received = q.client.terminal + Cardinality(Pending(q))
                                + q.client.pendingPresentations + Cardinality({job})
    BY <1>1, <1>4, <2>1, <2>2, <2>3, <2>4
  <2> QED BY <1>1, <1>4, <2>1, <2>4, <2>5 DEF Accounts
<1>6. Budgets(q, {job}) BY <1>1, <1>4 DEF Core, Budgets
<1>7. \A d \in DOMAIN q.server.deliveries : q.server.deliveries[d].epoch <= q.server.epoch
  BY DEF Core, Spoken, Taken
<1>8. /\ Differs(s, q, {"client", "ledger", "budget", "worker", "server"},
                 {"pending", "phase", "received", "terminal", "releases"})
      /\ q.server.controls = s.server.controls /\ q.server.epoch = s.server.epoch
      /\ q.server.stage = s.server.stage
  <2>1. Differs(s, q, {"client", "ledger", "server"}, {"received"}) BY DEF Taken
  <2> QED BY <2>1 DEF Differs, Taken
<1>9. Tiled(q, {job}) BY <1>2, <1>3, <1>5, <1>6 DEF Tiled
<1> QED BY <1>1, <1>7, <1>8, <1>9, RestOK
--------------------------------------------------------------------------------
\* The tile in hands is confirmed

LEMMA AskedNumbers ==
    ASSUME NEW e, ServerOK(e)
    PROVE  /\ IsFiniteSet(DOMAIN e.deliveries) /\ SumOfAsks(e.deliveries) \in Nat
           /\ \A d \in DOMAIN e.deliveries : AsksOf(e.deliveries)[d] \in Nat
<1>1. /\ DOMAIN e.deliveries = 1..Len(e.deliveries) /\ Len(e.deliveries) \in Nat
      /\ \A d \in DOMAIN e.deliveries : e.deliveries[d] \in Sent
  BY DEF ServerOK
<1>2. IsFiniteSet(DOMAIN e.deliveries) BY <1>1, FS_Interval
<1>3. \A d \in DOMAIN e.deliveries : AsksOf(e.deliveries)[d] \in Nat
  BY <1>1 DEF AsksOf, Sent, Counts
<1> QED BY <1>2, <1>3, SumIsNat DEF SumOfAsks

LEMMA AckedAsks ==
    ASSUME NEW e, ServerOK(e), NEW D
    PROVE  /\ AsksOf(AckedBy(e.deliveries, D)) = AsksOf(e.deliveries)
           /\ SumOfAsks(AckedBy(e.deliveries, D)) = SumOfAsks(e.deliveries)
<1>1. ASSUME NEW d \in DOMAIN e.deliveries
      PROVE  AckedBy(e.deliveries, D)[d].receipt.asks = e.deliveries[d].receipt.asks
  <2>1. e.deliveries[d] \in Sent BY DEF ServerOK
  <2> QED BY <2>1 DEF AckedBy, Sent, Counts
<1>2. DOMAIN AckedBy(e.deliveries, D) = DOMAIN e.deliveries BY DEF AckedBy
<1>3. AsksOf(AckedBy(e.deliveries, D)) = AsksOf(e.deliveries) BY <1>1, <1>2 DEF AsksOf
<1> QED BY <1>2, <1>3 DEF SumOfAsks

LEMMA HeldWithout ==
    ASSUME NEW s, NEW job, Placed(s, {job}), NEW z,
           z.client.pending = s.client.pending, z.canvas = s.canvas
    PROVE  /\ Pending(z) = Pending(s) /\ UndrawnTiles(z) = UndrawnTiles(s)
           /\ UndrawnJobs(z) = UndrawnJobs(s)
           /\ Held(z, {}) = Held(s, {job}) \ {job} /\ Held(z, {}) \subseteq Held(s, {job})
           /\ job \in Held(s, {job}) /\ job \notin Held(z, {})
           /\ \A j \in Held(z, {}) : j.delivery # job.delivery
<1>1. /\ Pending(z) = Pending(s) /\ UndrawnTiles(z) = UndrawnTiles(s)
      /\ UndrawnJobs(z) = UndrawnJobs(s)
  BY DEF Pending, UndrawnTiles, UndrawnJobs
<1>2. job \notin Pending(s) \cup UndrawnJobs(s) BY DEF Placed
<1>3. /\ Held(z, {}) = Held(s, {job}) \ {job} /\ Held(z, {}) \subseteq Held(s, {job})
      /\ job \in Held(s, {job}) /\ job \notin Held(z, {})
  BY <1>1, <1>2 DEF Held
<1>4. \A j, k \in Held(s, {job}) : j.delivery = k.delivery => j = k BY DEF Placed
<1> QED BY <1>1, <1>3, <1>4

LEMMA HandsPlaced ==
    ASSUME NEW s, NEW job, Placed(s, {job}), AtWork(s, {job}), NEW z,
           z.client.pending = s.client.pending, z.canvas = s.canvas,
           z.client.connectionId = s.client.connectionId,
           IsOpen(z) = IsOpen(s), z.worker = s.worker,
           DOMAIN z.server.deliveries = DOMAIN s.server.deliveries
    PROVE  Placed(z, {}) /\ AtWork(z, {})
<1>1. /\ Pending(z) = Pending(s) /\ UndrawnTiles(z) = UndrawnTiles(s)
      /\ UndrawnJobs(z) = UndrawnJobs(s)
      /\ Held(z, {}) = Held(s, {job}) \ {job} /\ Held(z, {}) \subseteq Held(s, {job})
  BY HeldWithout
<1>2. Placed(z, {}) BY <1>1, FS_EmptySet DEF Placed
<1>3. AtWork(z, {}) BY <1>1 DEF AtWork
<1> QED BY <1>2, <1>3

LEMMA ConfirmedOwned ==
    ASSUME NEW s, NEW job, Typed(s), Placed(s, {job}), Owned(s, {job}), Agreed(s), NEW z,
           z.client.pending = s.client.pending, z.canvas = s.canvas,
           z.client.connectionId = s.client.connectionId, IsOpen(z) = IsOpen(s),
           Confirmed(s, z, {job.delivery}, 1)
    PROVE  Owned(z, {}) /\ Agreed(z)
<1> DEFINE active == s.ledger.active
           own == job.delivery
<1> SUFFICES ASSUME IsOpen(s) PROVE Owned(z, {}) /\ Agreed(z)
  BY DEF Owned, Agreed
<1>1. /\ Held(z, {}) = Held(s, {job}) \ {job} /\ Held(z, {}) \subseteq Held(s, {job})
      /\ job \in Held(s, {job}) /\ job \notin Held(z, {})
      /\ \A j \in Held(z, {}) : j.delivery # own
  BY HeldWithout
<1>2. /\ z.ledger.active = Restrict(active, DOMAIN active \ {own})
      /\ Elements(z.ledger.released) \subseteq Elements(s.ledger.released) \cup {own}
      /\ z.server = Acked(s.server, {own})
  BY DEF Confirmed
<1>3. /\ z.server.deliveries = AckedBy(s.server.deliveries, {own})
      /\ DOMAIN z.server.deliveries = DOMAIN s.server.deliveries
  <2>1. ServerOK(s.server) BY DEF Typed
  <2> QED BY <1>2, <2>1, AckedOK
<1>4. own \in DOMAIN active /\ ~active[own].retryExpected /\ own \in DOMAIN s.server.deliveries
  BY <1>1 DEF Owned, Placed
<1>5. Owned(z, {})
  <2>1. ASSUME NEW d \in DOMAIN z.ledger.active
        PROVE  /\ z.ledger.active[d].connection = z.client.connectionId
               /\ z.ledger.active[d].retryExpected \/ \E j \in Held(z, {}) : j.delivery = d
    <3>1. d \in DOMAIN active /\ d # own /\ z.ledger.active[d] = active[d] BY <1>2 DEF Restrict
    <3>2. /\ active[d].connection = s.client.connectionId
          /\ active[d].retryExpected \/ \E j \in Held(s, {job}) : j.delivery = d
      BY <3>1 DEF Owned
    <3> QED BY <1>1, <3>1, <3>2
  <2>2. ASSUME NEW j \in Held(z, {})
        PROVE  /\ j.delivery \in DOMAIN z.ledger.active
               /\ ~z.ledger.active[j.delivery].retryExpected
    <3>1. j \in Held(s, {job}) /\ j.delivery # own BY <1>1
    <3>2. j.delivery \in DOMAIN active /\ ~active[j.delivery].retryExpected BY <3>1 DEF Owned
    <3> QED BY <1>2, <3>1, <3>2 DEF Restrict
  <2> QED BY <2>1, <2>2 DEF Owned
<1>6. Agreed(z)
  <2> DEFINE Fits(w, d) ==
        LET receipt == w.server.deliveries[d].receipt
        IN  IF d \in DOMAIN w.ledger.active
            THEN /\ receipt.acks = 0
                 /\ receipt.asks = w.ledger.active[d].retryRequests
                 /\ receipt.asks <= MaxSelectiveRetries
                 /\ receipt.copies =
                        IF w.ledger.active[d].retryExpected THEN receipt.asks
                        ELSE receipt.asks + 1
            ELSE receipt.acks = 1 /\ receipt.copies = receipt.asks + 1
  <2>1. DOMAIN z.ledger.active \cup Elements(z.ledger.released) \subseteq DOMAIN z.server.deliveries
    <3>1. DOMAIN active \cup Elements(s.ledger.released) \subseteq DOMAIN s.server.deliveries
      BY DEF Agreed
    <3>2. DOMAIN z.ledger.active \subseteq DOMAIN active BY <1>2 DEF Restrict
    <3> QED BY <1>2, <1>3, <1>4, <3>1, <3>2
  <2>2. \A d \in DOMAIN s.server.deliveries : Fits(s, d) BY DEF Agreed
  <2>3. ASSUME NEW d \in DOMAIN s.server.deliveries PROVE Fits(z, d)
    <3>1. CASE d # own
      <4>1. z.server.deliveries[d] = s.server.deliveries[d] BY <1>3, <3>1 DEF AckedBy
      <4>2. (d \in DOMAIN z.ledger.active <=> d \in DOMAIN active)
            /\ (d \in DOMAIN active => z.ledger.active[d] = active[d])
        BY <1>2, <3>1 DEF Restrict
      <4>3. Fits(s, d) BY <2>2
      <4> QED BY <4>1, <4>2, <4>3
    <3>2. CASE d = own
      <4>1. z.server.deliveries[d] = [s.server.deliveries[d] EXCEPT !.receipt.acks = @ + 1]
        BY <1>3, <3>2 DEF AckedBy
      <4>2. s.server.deliveries[d] \in Sent BY DEF Typed, ServerOK
      <4>3. LET receipt == z.server.deliveries[d].receipt
                before == s.server.deliveries[d].receipt
            IN  receipt.acks = before.acks + 1 /\ receipt.asks = before.asks
                /\ receipt.copies = before.copies
        BY <4>1, <4>2 DEF Sent, Counts
      <4>4. d \notin DOMAIN z.ledger.active BY <1>2, <3>2 DEF Restrict
      <4>5. Fits(s, d) BY <2>2
      <4>6. /\ s.server.deliveries[d].receipt.acks = 0
            /\ s.server.deliveries[d].receipt.copies = s.server.deliveries[d].receipt.asks + 1
        BY <1>4, <3>2, <4>5
      <4>7. /\ z.server.deliveries[d].receipt.acks = 1
            /\ z.server.deliveries[d].receipt.copies = z.server.deliveries[d].receipt.asks + 1
        BY <4>3, <4>6
      <4> QED BY <4>4, <4>7
    <3> QED BY <3>1, <3>2
  <2>4. \A d \in DOMAIN z.server.deliveries : Fits(z, d) BY <1>3, <2>3
  <2> QED BY <2>1, <2>4 DEF Agreed
<1> QED BY <1>5, <1>6

\* What a tile in hands may change when it ends.
Counters == {"pending", "phase", "received", "terminal", "releases"}

LEMMA CountersFresh ==
    ASSUME NEW s, NEW z, NEW F, "canvas" \notin F, NEW G, G \subseteq Counters,
           Differs(s, z, F, G)
    PROVE  /\ z.canvas = s.canvas /\ z.client.error = s.client.error
           /\ z.client.welcome = s.client.welcome
           /\ z.client.connectionId = s.client.connectionId
           /\ z.client.epoch = s.client.epoch /\ z.client.manifest = s.client.manifest
           /\ z.client.pendingPresentations = s.client.pendingPresentations
           /\ Fresh(s) => Fresh(z)
<1>1. /\ z.canvas = s.canvas /\ z.client.error = s.client.error
      /\ z.client.welcome = s.client.welcome
      /\ z.client.connectionId = s.client.connectionId
      /\ z.client.epoch = s.client.epoch /\ z.client.manifest = s.client.manifest
      /\ z.client.viewport = s.client.viewport
      /\ z.client.pendingPresentations = s.client.pendingPresentations
  BY DEF Differs, StateFields, ClientFields, Counters
<1> QED BY <1>1 DEF Fresh

LEMMA DiscardOK ==
    ASSUME NEW s, NEW job, Core(s, {job}), s.client.welcome, job \notin DOMAIN s.budget.reservations
    PROVE  LET z == Discard(s, job)
           IN  /\ Core(z, {}) /\ Heard(s, z)
               /\ Differs(s, z, {"client", "ledger", "server"}, {"terminal", "releases"})
<1> DEFINE n == s.client.terminal + 1
           c == [s.client EXCEPT !.terminal = n]
           d == [s EXCEPT !.client = c]
           z == Discard(s, job)
<1>1. /\ IsState(s) /\ IsClient(s.client) /\ LedgerOK(s.ledger) /\ ServerOK(s.server)
      /\ Typed(s) /\ ClientOK(s.client)
      /\ Placed(s, {job}) /\ AtWork(s, {job}) /\ Owned(s, {job}) /\ Agreed(s)
      /\ Accounts(s, {job}) /\ Budgets(s, {job})
  BY DEF Core, Typed, ClientOK
<1>2. n \in Nat /\ n = s.client.terminal + 1 /\ s.client.terminal \in Nat BY <1>1 DEF ClientOK
<1>3. z = Release(d, job) BY <1>1 DEF Discard, IsState, StateFields
<1> HIDE DEF n
<1>4. /\ IsClient(c) /\ c.terminal = n
      /\ \A f \in ClientFields \ {"terminal"} : c[f] = s.client[f]
  BY <1>1 DEF IsClient, ClientFields
<1> HIDE DEF c
<1>5. /\ IsState(d) /\ d.client = c /\ \A f \in StateFields \ {"client"} : d[f] = s[f]
  BY <1>1 DEF IsState, StateFields
<1> HIDE DEF d, z
<1>6. /\ d.ledger = s.ledger /\ d.server = s.server /\ d.sockets = s.sockets
      /\ d.client.connectionId = s.client.connectionId /\ d.client.releases = s.client.releases
      /\ IsOpen(d) = IsOpen(s) /\ IsClient(d.client)
  BY <1>4, <1>5 DEF StateFields, ClientFields, IsOpen
<1>7. IsOpen(d) => job.connection = d.client.connectionId /\ MayConfirm(d, job.delivery)
  <2> SUFFICES ASSUME IsOpen(s)
               PROVE  job.connection = s.client.connectionId /\ MayConfirm(d, job.delivery)
    BY <1>6
  <2>1. job \in Held(s, {job}) BY DEF Held
  <2>2. /\ job.connection = s.client.connectionId /\ job.delivery \in DOMAIN s.server.deliveries
        /\ job.delivery \in DOMAIN s.ledger.active
        /\ s.ledger.active[job.delivery].connection = s.client.connectionId
    BY <1>1, <2>1 DEF Placed, Owned
  <2> QED BY <1>6, <2>2 DEF MayConfirm
<1>8. /\ SameElsewhere(d, z) /\ z.client.phase = d.client.phase
      /\ z.client.terminal = d.client.terminal
      /\ z.client.pendingPresentations = d.client.pendingPresentations
      /\ Confirmed(d, z, {job.delivery}, 1)
  BY <1>1, <1>3, <1>5, <1>6, <1>7, ReleaseSays
<1>9. Confirmed(s, z, {job.delivery}, 1) BY <1>6, <1>8 DEF Confirmed
<1>10. Differs(s, z, {"client", "ledger", "server"}, {"terminal", "releases"})
       /\ z.client.terminal = n
  <2>1. \A f \in StateFields \ {"client", "ledger", "server"} : z[f] = s[f]
    BY <1>5, <1>8 DEF SameElsewhere
  <2>2. \A f \in ClientFields \ {"terminal", "releases"} : z.client[f] = s.client[f]
    BY <1>4, <1>5, <1>8 DEF SameElsewhere, ClientFields
  <2> QED BY <1>4, <1>5, <1>8, <2>1, <2>2 DEF Differs, SameElsewhere
<1>11. /\ z.client.pending = s.client.pending /\ z.canvas = s.canvas
       /\ z.client.connectionId = s.client.connectionId /\ z.worker = s.worker
       /\ z.budget = s.budget /\ z.sockets = s.sockets
       /\ z.client.received = s.client.received /\ z.client.welcome = s.client.welcome
       /\ z.client.pendingPresentations = s.client.pendingPresentations
  BY <1>10 DEF Differs, StateFields, ClientFields
<1>12. IsOpen(z) = IsOpen(s) BY <1>11 DEF IsOpen
<1>13. /\ ServerOK(z.server) /\ LedgerOK(z.ledger) /\ z.client.releases \in Nat
       /\ DOMAIN z.server.deliveries = DOMAIN s.server.deliveries
       /\ z.server.controls = s.server.controls /\ z.server.epoch = s.server.epoch
       /\ z.server.stage = s.server.stage
       /\ SumOfAsks(z.server.deliveries) = SumOfAsks(s.server.deliveries)
       /\ IsOpen(s) => z.client.releases = s.client.releases + 1
       /\ \A k \in DOMAIN s.server.deliveries :
                z.server.deliveries[k].epoch = s.server.deliveries[k].epoch
  <2>1. s.client.releases \in Nat BY <1>1 DEF ClientOK
  <2>2. CASE ~IsOpen(s) BY <1>1, <1>9, <2>1, <2>2 DEF Confirmed
  <2>3. CASE IsOpen(s)
    <3> DEFINE D == {job.delivery}
    <3>1. /\ z.server = Acked(s.server, D) /\ LedgerOK(z.ledger)
          /\ z.client.releases = s.client.releases + 1
      BY <1>9, <2>3 DEF Confirmed
    <3> HIDE DEF D
    <3>2. /\ ServerOK(z.server) /\ DOMAIN z.server.deliveries = DOMAIN s.server.deliveries
          /\ z.server.controls = s.server.controls /\ z.server.epoch = s.server.epoch
          /\ z.server.stage = s.server.stage
          /\ z.server.deliveries = AckedBy(s.server.deliveries, D)
      BY <1>1, <3>1, AckedOK
    <3>3. SumOfAsks(z.server.deliveries) = SumOfAsks(s.server.deliveries) BY <1>1, <3>2, AckedAsks
    <3>4. ASSUME NEW k \in DOMAIN s.server.deliveries
          PROVE  z.server.deliveries[k].epoch = s.server.deliveries[k].epoch
      <4>1. s.server.deliveries[k] \in Sent BY <1>1 DEF ServerOK
      <4> QED BY <3>2, <4>1 DEF AckedBy, Sent
    <3> QED BY <2>1, <3>1, <3>2, <3>3, <3>4
  <2> QED BY <2>2, <2>3
<1>14. Typed(z)
  <2>1. ClientOK(z.client)
    <3>1. \A f \in ClientFields \ {"terminal", "releases"} : z.client[f] = s.client[f]
      BY <1>10 DEF Differs
    <3>2. IsClient(z.client) BY <1>10 DEF Differs
    <3> QED BY <1>1, <1>2, <1>10, <1>13, <3>1, <3>2 DEF ClientOK, ClientFields
  <2> QED BY <1>1, <1>10, <1>11, <1>13, <2>1 DEF Typed, Differs
<1>15. Placed(z, {}) /\ AtWork(z, {}) BY <1>1, <1>11, <1>12, <1>13, HandsPlaced
<1>16. Owned(z, {}) /\ Agreed(z) BY <1>1, <1>9, <1>11, <1>12, ConfirmedOwned
<1>17. Pending(z) = Pending(s) /\ UndrawnTiles(z) = UndrawnTiles(s)
  BY <1>11 DEF Pending, UndrawnTiles
<1>18. Accounts(z, {})
  <2>1. /\ s.client.received = s.client.terminal + Cardinality(Pending(s))
                                + s.client.pendingPresentations + Cardinality({job})
        /\ IsOpen(s) => s.client.terminal = s.client.releases + SumOfAsks(s.server.deliveries)
        /\ s.client.pendingPresentations = Cardinality(UndrawnTiles(s))
        /\ UndrawnTiles(s) # {} => s.canvas.frame
    BY <1>1 DEF Accounts
  <2>2. Cardinality({}) = 0 /\ Cardinality({job}) = 1 BY FS_EmptySet, FS_Singleton
  <2>3. /\ s.client.pendingPresentations \in Nat /\ Cardinality(Pending(s)) \in Nat
        /\ s.client.releases \in Nat /\ SumOfAsks(s.server.deliveries) \in Nat
    BY <1>1, FS_CardinalityType, AskedNumbers DEF ClientOK, Pending
  <2>4. z.client.received = z.client.terminal + Cardinality(Pending(z))
                                + z.client.pendingPresentations + Cardinality({})
    BY <1>2, <1>10, <1>11, <1>17, <2>1, <2>2, <2>3
  <2>5. IsOpen(z) => z.client.terminal = z.client.releases + SumOfAsks(z.server.deliveries)
    BY <1>2, <1>10, <1>12, <1>13, <2>1, <2>3
  <2> QED BY <1>11, <1>17, <2>1, <2>4, <2>5 DEF Accounts
<1>19. Budgets(z, {}) BY <1>1, <1>11, <1>17 DEF Budgets
<1>20. \A k \in DOMAIN z.server.deliveries : z.server.deliveries[k].epoch <= z.server.epoch
  BY <1>13 DEF Core, Spoken
<1>21. Core(z, {})
  <2>1. Differs(s, z, {"client", "ledger", "budget", "worker", "server"},
                {"pending", "phase", "received", "terminal", "releases"})
    BY <1>10 DEF Differs
  <2>2. Tiled(z, {}) BY <1>15, <1>16, <1>18, <1>19 DEF Tiled
  <2> QED BY <1>13, <1>14, <1>20, <2>1, <2>2, RestOK
<1>22. Heard(s, z)
  <2> DEFINE o == 1
             D == {job.delivery}
  <2>1. \A k \in D : \E j \in Held(s, {job}) : j.delivery = k BY DEF Held
  <2>2. Confirmed(s, z, D, o) BY <1>9
  <2> HIDE DEF o, D
  <2> QED BY <1>1, <2>1, <2>2, ConfirmedHeard
<1> QED BY <1>10, <1>21, <1>22 DEF z
--------------------------------------------------------------------------------
\* The tile in hands is asked for again, or waits for its bitmap

ReceiptAt(s, d) ==
    IF d \in DOMAIN s.server.deliveries THEN s.server.deliveries[d].receipt
    ELSE [copies |-> 0, asks |-> 0, acks |-> 0]

\* What the server hears of every delivery is one step of the receipts.
Goes(s, z) == \A d \in Deliveries : Receipts!Continues(ReceiptAt(s, d), ReceiptAt(z, d))

LEMMA HeardGoes ==
    ASSUME NEW s, NEW z, Heard(s, z)
    PROVE  Goes(s, z)
<1> SUFFICES ASSUME NEW d \in Deliveries
             PROVE  Receipts!Continues(ReceiptAt(s, d), ReceiptAt(z, d))
  BY DEF Goes
<1>1. CASE d \in DOMAIN s.server.deliveries
  <2>1. Hears(s.server.deliveries[d].receipt, z.server.deliveries[d].receipt)
        /\ d \in DOMAIN z.server.deliveries
    BY <1>1 DEF Heard
  <2> QED BY <1>1, <2>1 DEF ReceiptAt, Hears, Receipts!Continues, Receipts!Confirms, Receipts!Silent
<1>2. CASE d \notin DOMAIN s.server.deliveries
  <2>1. d \notin DOMAIN z.server.deliveries BY <1>2 DEF Heard
  <2> QED BY <1>2, <2>1 DEF ReceiptAt, Receipts!Continues, Receipts!Silent
<1> QED BY <1>1, <1>2

\* One more copy of delivery id is asked for.
AskedOnce(deliveries, id) == [deliveries EXCEPT ![id].receipt.asks = @ + 1]

LEMMA AskedOnceOK ==
    ASSUME NEW e, ServerOK(e), NEW id \in DOMAIN e.deliveries,
           NEW then, then = AskedOnce(e.deliveries, id)
    PROVE  /\ then \in Seq(Sent) /\ DOMAIN then = DOMAIN e.deliveries
           /\ \A d \in DOMAIN e.deliveries \ {id} : then[d] = e.deliveries[d]
           /\ then[id].epoch = e.deliveries[id].epoch
           /\ then[id].receipt.asks = e.deliveries[id].receipt.asks + 1
           /\ then[id].receipt.copies = e.deliveries[id].receipt.copies
           /\ then[id].receipt.acks = e.deliveries[id].receipt.acks
           /\ SumOfAsks(then) = SumOfAsks(e.deliveries) + 1
<1> DEFINE ds == e.deliveries
           new == [ds[id] EXCEPT !.receipt.asks = @ + 1]
<1>1. /\ ds \in Seq(Sent) /\ DOMAIN ds = 1..Len(ds) /\ Len(ds) \in Nat
      /\ \A d \in DOMAIN ds : ds[d] \in Sent
  BY DEF ServerOK
<1>2. /\ new \in Sent /\ new.epoch = ds[id].epoch
      /\ new.receipt.asks = ds[id].receipt.asks + 1
      /\ new.receipt.copies = ds[id].receipt.copies
      /\ new.receipt.acks = ds[id].receipt.acks
  <2>1. ds[id] \in Sent BY <1>1
  <2> QED BY <2>1 DEF Sent, Counts
<1> HIDE DEF new
<1>3. then = [ds EXCEPT ![id] = new] BY DEF AskedOnce, new
<1>4. /\ DOMAIN then = DOMAIN ds /\ then[id] = new
      /\ \A d \in DOMAIN ds \ {id} : then[d] = ds[d]
  BY <1>1, <1>3
<1>5. then \in Seq(Sent) BY <1>1, <1>2, <1>3
<1>6. SumOfAsks(then) = SumOfAsks(ds) + 1
  <2> DEFINE S == DOMAIN ds
             a == AsksOf(ds)
             b == AsksOf(then)
  <2>1. IsFiniteSet(S) /\ \A d \in S : a[d] \in Nat BY AskedNumbers
  <2>2. b[id] = a[id] + 1 /\ \A d \in S \ {id} : b[d] = a[d] BY <1>2, <1>4 DEF AsksOf
  <2>3. \A d \in S : b[d] \in Nat BY <2>1, <2>2
  <2>4. SumOfAsks(ds) = SumFunctionOnSet(a, S) /\ SumOfAsks(then) = SumFunctionOnSet(b, S)
    BY <1>4 DEF SumOfAsks
  <2>5. IsFiniteSet(S \ {id}) BY <2>1, FS_RemoveElement
  <2> HIDE DEF a, b, S
  <2>6. id \in S BY DEF S
  <2>7. SumFunctionOnSet(a, S) = a[id] + SumFunctionOnSet(a, S \ {id}) BY <2>1, <2>6, SumWithout
  <2>8. SumFunctionOnSet(b, S) = b[id] + SumFunctionOnSet(b, S \ {id})
    BY <2>1, <2>3, <2>6, SumWithout
  <2>9. SumFunctionOnSet(b, S \ {id}) = SumFunctionOnSet(a, S \ {id})
    <3> DEFINE T == S \ {id}
    <3>1. IsFiniteSet(T) /\ \A d \in T : b[d] = a[d] BY <2>2, <2>5
    <3> HIDE DEF T
    <3>2. SumFunctionOnSet(b, T) = SumFunctionOnSet(a, T) BY <3>1, SumSame
    <3> QED BY <3>2 DEF T
  <2>10. SumFunctionOnSet(a, S \ {id}) \in Nat
    <3> DEFINE T == S \ {id}
    <3>1. IsFiniteSet(T) /\ \A d \in T : a[d] \in Nat BY <2>1, <2>5
    <3> HIDE DEF T
    <3>2. SumFunctionOnSet(a, T) \in Nat BY <3>1, SumIsNat
    <3> QED BY <3>2 DEF T
  <2>11. a[id] \in Nat BY <2>1, <2>6
  <2> QED BY <2>2, <2>4, <2>7, <2>8, <2>9, <2>10, <2>11
<1> QED BY <1>2, <1>4, <1>5, <1>6

LEMMA RequestRetryOK ==
    ASSUME NEW l, LedgerOK(l), NEW id \in DOMAIN l.active
    PROVE  LET m == RequestRetry(l, id)
           IN  /\ LedgerOK(m) /\ DOMAIN m.active = DOMAIN l.active /\ m.released = l.released
               /\ \A d \in DOMAIN l.active \ {id} : m.active[d] = l.active[d]
               /\ m.active[id].connection = l.active[id].connection
               /\ m.active[id].retryExpected
               /\ m.active[id].retryRequests = l.active[id].retryRequests + 1
<1> DEFINE x == l.active[id]
           new == [connection |-> x.connection, retryExpected |-> TRUE,
                   retryRequests |-> x.retryRequests + 1]
           a == [l.active EXCEPT ![id] = new]
           m == RequestRetry(l, id)
<1>1. /\ l = [active |-> l.active, released |-> l.released]
      /\ l.active \in [DOMAIN l.active -> Expectation] /\ x \in Expectation
  BY DEF LedgerOK
<1>2. new \in Expectation /\ new.connection = x.connection /\ new.retryExpected
      /\ new.retryRequests = x.retryRequests + 1
  BY <1>1 DEF Expectation
<1>3. [[x EXCEPT !.retryExpected = TRUE] EXCEPT !.retryRequests = x.retryRequests + 1] = new
  <2> DEFINE y == TRUE
             n == x.retryRequests + 1
             u == [x EXCEPT !.retryExpected = y]
  <2>1. x = [connection |-> x.connection, retryExpected |-> x.retryExpected,
             retryRequests |-> x.retryRequests]
    BY <1>1 DEF Expectation
  <2> HIDE DEF x, y, n
  <2>2. u = [connection |-> x.connection, retryExpected |-> y, retryRequests |-> x.retryRequests]
    BY <2>1
  <2> HIDE DEF u
  <2>3. [u EXCEPT !.retryRequests = n]
            = [connection |-> x.connection, retryExpected |-> y, retryRequests |-> n]
    BY <2>2
  <2> QED BY <2>3 DEF u, y, n
<1>4. m = [active |-> a, released |-> l.released]
  <2>1. m = [[l EXCEPT !.active[id].retryExpected = TRUE] EXCEPT !.active[id].retryRequests = @ + 1]
    BY DEF RequestRetry
  <2> DEFINE u == [x EXCEPT !.retryExpected = TRUE]
             k == [l.active EXCEPT ![id] = u]
  <2>2. [l EXCEPT !.active[id].retryExpected = TRUE] = [active |-> k, released |-> l.released]
    <3>1. [l EXCEPT !.active[id].retryExpected = TRUE] = [l EXCEPT !.active = k] OBVIOUS
    <3> HIDE DEF k
    <3> QED BY <1>1, <3>1
  <2>3. k[id] = u /\ u.retryRequests = x.retryRequests BY <1>1 DEF Expectation
  <2>4. [k EXCEPT ![id].retryRequests = @ + 1] = [k EXCEPT ![id] = new] BY <1>3, <2>3
  <2>5. [k EXCEPT ![id] = new] = a BY <1>1
  <2> HIDE DEF k
  <2>6. m = [active |-> [k EXCEPT ![id].retryRequests = @ + 1], released |-> l.released]
    BY <2>1, <2>2
  <2> QED BY <2>4, <2>5, <2>6
<1> HIDE DEF new
<1>5. /\ DOMAIN a = DOMAIN l.active /\ a[id] = new
      /\ \A d \in DOMAIN l.active \ {id} : a[d] = l.active[d]
      /\ a \in [DOMAIN a -> Expectation]
  BY <1>1, <1>2
<1> HIDE DEF a, m
<1>6. LedgerOK(m) BY <1>4, <1>5 DEF LedgerOK
<1> QED BY <1>2, <1>4, <1>5, <1>6 DEF m

LEMMA AskAgainOK ==
    ASSUME NEW s, NEW job, Core(s, {job}), s.client.welcome, job \notin DOMAIN s.budget.reservations,
           IsOpen(s), MayRequestRetry(s.ledger, job.delivery, job.connection),
           NEW f, Differs(s, f, {"client"}, {"terminal"}),
           f.client.terminal = s.client.terminal + 1
    PROVE  LET z == RequestSelectiveRetry(f, job)
           IN  /\ Core(z, {}) /\ Goes(s, z)
               /\ Differs(s, z, {"client", "ledger", "server"}, {"terminal"})
<1> DEFINE own == job.delivery
           z == RequestSelectiveRetry(f, job)
           l == RequestRetry(s.ledger, own)
           then == AskedOnce(s.server.deliveries, own)
           e == [s.server EXCEPT !.deliveries = then]
           active == s.ledger.active
<1>1. /\ IsState(s) /\ IsClient(s.client) /\ LedgerOK(s.ledger) /\ ServerOK(s.server)
      /\ Typed(s) /\ ClientOK(s.client)
      /\ Placed(s, {job}) /\ AtWork(s, {job}) /\ Owned(s, {job}) /\ Agreed(s)
      /\ Accounts(s, {job}) /\ Budgets(s, {job})
  BY DEF Core, Typed, ClientOK
<1>2. /\ IsState(f) /\ IsClient(f.client) /\ f.ledger = s.ledger /\ f.server = s.server
      /\ f.worker = s.worker /\ f.canvas = s.canvas /\ f.sockets = s.sockets
      /\ f.budget = s.budget
      /\ \A g \in ClientFields \ {"terminal"} : f.client[g] = s.client[g]
  BY DEF Differs, StateFields
<1>3. /\ own \in DOMAIN active /\ own \in DOMAIN s.server.deliveries
      /\ active[own].connection = s.client.connectionId
      /\ ~active[own].retryExpected /\ active[own].retryRequests < MaxSelectiveRetries
  <2>1. job \in Held(s, {job}) BY DEF Held
  <2> QED BY <1>1, <2>1 DEF Placed, Owned, MayRequestRetry
<1>4. z = [f EXCEPT !.ledger = l, !.server = e]
  <2>1. z = [f EXCEPT !.ledger = l, !.server.deliveries[own].receipt.asks = @ + 1]
    BY <1>2 DEF RequestSelectiveRetry, IsState, StateFields
  <2>2. e = [s.server EXCEPT !.deliveries[own].receipt.asks = @ + 1] BY DEF AskedOnce
  <2> HIDE DEF l
  <2>3. [f EXCEPT !.ledger = l, !.server.deliveries[own].receipt.asks = @ + 1]
            = [f EXCEPT !.ledger = l, !.server = [f.server EXCEPT !.deliveries[own].receipt.asks = @ + 1]]
    BY <1>2 DEF IsState, StateFields
  <2> HIDE DEF e
  <2> QED BY <1>2, <2>1, <2>2, <2>3
<1>5. /\ LedgerOK(l) /\ DOMAIN l.active = DOMAIN active /\ l.released = s.ledger.released
      /\ \A d \in DOMAIN active \ {own} : l.active[d] = active[d]
      /\ l.active[own].connection = active[own].connection
      /\ l.active[own].retryExpected
      /\ l.active[own].retryRequests = active[own].retryRequests + 1
  BY <1>1, <1>3, RequestRetryOK
<1> HIDE DEF l
<1>6. /\ then \in Seq(Sent) /\ DOMAIN then = DOMAIN s.server.deliveries
      /\ \A d \in DOMAIN s.server.deliveries \ {own} : then[d] = s.server.deliveries[d]
      /\ then[own].epoch = s.server.deliveries[own].epoch
      /\ then[own].receipt.asks = s.server.deliveries[own].receipt.asks + 1
      /\ then[own].receipt.copies = s.server.deliveries[own].receipt.copies
      /\ then[own].receipt.acks = s.server.deliveries[own].receipt.acks
      /\ SumOfAsks(then) = SumOfAsks(s.server.deliveries) + 1
  <2> DEFINE w == s.server
  <2>1. ServerOK(w) /\ own \in DOMAIN w.deliveries /\ then = AskedOnce(w.deliveries, own)
    BY <1>1, <1>3
  <2> HIDE DEF w, then
  <2>2. /\ then \in Seq(Sent) /\ DOMAIN then = DOMAIN w.deliveries
        /\ \A d \in DOMAIN w.deliveries \ {own} : then[d] = w.deliveries[d]
        /\ then[own].epoch = w.deliveries[own].epoch
        /\ then[own].receipt.asks = w.deliveries[own].receipt.asks + 1
        /\ then[own].receipt.copies = w.deliveries[own].receipt.copies
        /\ then[own].receipt.acks = w.deliveries[own].receipt.acks
        /\ SumOfAsks(then) = SumOfAsks(w.deliveries) + 1
    BY <2>1, AskedOnceOK
  <2> QED BY <2>2 DEF w
<1> HIDE DEF then
<1>7. /\ ServerOK(e) /\ e.deliveries = then /\ e.controls = s.server.controls
      /\ e.epoch = s.server.epoch /\ e.stage = s.server.stage
  <2>1. e = [stage |-> s.server.stage, epoch |-> s.server.epoch,
             controls |-> s.server.controls, deliveries |-> then]
    BY <1>1 DEF ServerOK
  <2> HIDE DEF e
  <2> QED BY <1>1, <1>6, <2>1 DEF ServerOK
<1> HIDE DEF e, z
<1>8. /\ IsState(z) /\ z.ledger = l /\ z.server = e
      /\ \A g \in StateFields \ {"ledger", "server"} : z[g] = f[g]
  BY <1>2, <1>4 DEF IsState, StateFields
<1>9. /\ z.client = f.client /\ z.canvas = s.canvas /\ z.worker = s.worker
      /\ z.budget = s.budget /\ z.sockets = s.sockets
  BY <1>2, <1>8 DEF StateFields
<1>10. Differs(s, z, {"client", "ledger", "server"}, {"terminal"})
  BY <1>2, <1>8, <1>9 DEF Differs, StateFields
<1>11. /\ z.client.pending = s.client.pending /\ z.client.terminal = s.client.terminal + 1
       /\ z.client.connectionId = s.client.connectionId
       /\ z.client.received = s.client.received /\ z.client.welcome = s.client.welcome
       /\ z.client.releases = s.client.releases
       /\ z.client.pendingPresentations = s.client.pendingPresentations
  BY <1>2, <1>9 DEF ClientFields
<1>12. IsOpen(z) = IsOpen(s) BY <1>9, <1>11 DEF IsOpen
<1>13. Typed(z)
  <2>1. ClientOK(z.client)
    <3>1. s.client.terminal + 1 \in Nat BY <1>1 DEF ClientOK
    <3> QED BY <1>1, <1>2, <1>9, <1>11, <3>1 DEF ClientOK, ClientFields
  <2> QED BY <1>1, <1>5, <1>7, <1>8, <1>9, <2>1 DEF Typed
<1>14. Placed(z, {}) /\ AtWork(z, {}) BY <1>1, <1>6, <1>7, <1>8, <1>9, <1>11, <1>12, HandsPlaced
<1>15. /\ Pending(z) = Pending(s) /\ UndrawnTiles(z) = UndrawnTiles(s)
       /\ Held(z, {}) = Held(s, {job}) \ {job} /\ Held(z, {}) \subseteq Held(s, {job})
       /\ \A j \in Held(z, {}) : j.delivery # own
  BY <1>1, <1>9, <1>11, HeldWithout, SMTT(30), ZenonT(60)
<1>16. Owned(z, {})
  <2>1. ASSUME NEW d \in DOMAIN z.ledger.active
        PROVE  /\ z.ledger.active[d].connection = z.client.connectionId
               /\ z.ledger.active[d].retryExpected \/ \E j \in Held(z, {}) : j.delivery = d
    <3>1. CASE d = own BY <1>3, <1>5, <1>8, <1>11, <3>1
    <3>2. CASE d # own
      <4>1. d \in DOMAIN active /\ z.ledger.active[d] = active[d] BY <1>5, <1>8, <3>2
      <4>2. /\ active[d].connection = s.client.connectionId
            /\ active[d].retryExpected \/ \E j \in Held(s, {job}) : j.delivery = d
        BY <1>1, <4>1 DEF Owned
      <4> QED BY <1>11, <1>15, <3>2, <4>1, <4>2
    <3> QED BY <3>1, <3>2
  <2>2. ASSUME NEW j \in Held(z, {})
        PROVE  /\ j.delivery \in DOMAIN z.ledger.active
               /\ ~z.ledger.active[j.delivery].retryExpected
    <3>1. j \in Held(s, {job}) /\ j.delivery # own BY <1>15
    <3>2. j.delivery \in DOMAIN active /\ ~active[j.delivery].retryExpected BY <1>1, <3>1 DEF Owned
    <3> QED BY <1>5, <1>8, <3>1, <3>2
  <2> QED BY <2>1, <2>2 DEF Owned
<1>17. Agreed(z)
  <2> DEFINE Fits(w, d) ==
        LET receipt == w.server.deliveries[d].receipt
        IN  IF d \in DOMAIN w.ledger.active
            THEN /\ receipt.acks = 0
                 /\ receipt.asks = w.ledger.active[d].retryRequests
                 /\ receipt.asks <= MaxSelectiveRetries
                 /\ receipt.copies =
                        IF w.ledger.active[d].retryExpected THEN receipt.asks
                        ELSE receipt.asks + 1
            ELSE receipt.acks = 1 /\ receipt.copies = receipt.asks + 1
  <2>1. DOMAIN z.ledger.active \cup Elements(z.ledger.released) \subseteq DOMAIN z.server.deliveries
    BY <1>1, <1>5, <1>6, <1>7, <1>8 DEF Agreed
  <2>2. \A d \in DOMAIN s.server.deliveries : Fits(s, d) BY <1>1 DEF Agreed
  <2>3. ASSUME NEW d \in DOMAIN s.server.deliveries PROVE Fits(z, d)
    <3>1. CASE d # own
      <4>1. z.server.deliveries[d] = s.server.deliveries[d] BY <1>6, <1>7, <1>8, <3>1
      <4>2. (d \in DOMAIN z.ledger.active <=> d \in DOMAIN active)
            /\ (d \in DOMAIN active => z.ledger.active[d] = active[d])
        BY <1>5, <1>8, <3>1
      <4>3. Fits(s, d) BY <2>2
      <4> QED BY <4>1, <4>2, <4>3
    <3>2. CASE d = own
      <4>1. Fits(s, own) BY <1>3, <2>2
      <4>2. s.server.deliveries[own] \in Sent /\ active[own] \in Expectation
        BY <1>1, <1>3 DEF ServerOK, LedgerOK
      <4>3. /\ s.server.deliveries[own].receipt.asks \in Nat
            /\ active[own].retryRequests \in Nat /\ MaxSelectiveRetries \in Nat
        BY <4>2, LedgerAssumption DEF Sent, Counts, Expectation
      <4> DEFINE now == s.server.deliveries[own].receipt
                 next == z.server.deliveries[own].receipt
      <4>4. /\ next.copies = now.copies /\ next.asks = now.asks + 1 /\ next.acks = now.acks
        BY <1>6, <1>7, <1>8
      <4>5. /\ now.acks = 0 /\ now.asks = active[own].retryRequests
            /\ now.copies = now.asks + 1 /\ now.asks \in Nat
        BY <1>3, <4>1, <4>3
      <4>6. /\ own \in DOMAIN z.ledger.active /\ z.ledger.active[own].retryExpected
            /\ z.ledger.active[own].retryRequests = active[own].retryRequests + 1
        BY <1>3, <1>5, <1>8
      <4>7. active[own].retryRequests < MaxSelectiveRetries BY <1>3
      <4> HIDE DEF now, next
      <4>8. /\ next.acks = 0 /\ next.asks = z.ledger.active[own].retryRequests
            /\ next.asks <= MaxSelectiveRetries /\ next.copies = next.asks
        BY <4>3, <4>4, <4>5, <4>6, <4>7
      <4>9. Fits(z, own) BY <4>6, <4>8 DEF next
      <4> QED BY <3>2, <4>9
    <3> QED BY <3>1, <3>2
  <2>4. \A d \in DOMAIN z.server.deliveries : Fits(z, d) BY <1>6, <1>7, <1>8, <2>3
  <2> QED BY <2>1, <2>4 DEF Agreed
<1>18. Accounts(z, {})
  <2>1. /\ s.client.received = s.client.terminal + Cardinality(Pending(s))
                                + s.client.pendingPresentations + Cardinality({job})
        /\ s.client.terminal = s.client.releases + SumOfAsks(s.server.deliveries)
        /\ s.client.pendingPresentations = Cardinality(UndrawnTiles(s))
        /\ UndrawnTiles(s) # {} => s.canvas.frame
    BY <1>1 DEF Accounts
  <2>2. Cardinality({}) = 0 /\ Cardinality({job}) = 1 BY FS_EmptySet, FS_Singleton
  <2>3. /\ s.client.pendingPresentations \in Nat /\ Cardinality(Pending(s)) \in Nat
        /\ s.client.releases \in Nat /\ s.client.terminal \in Nat
        /\ SumOfAsks(s.server.deliveries) \in Nat
    BY <1>1, FS_CardinalityType, AskedNumbers DEF ClientOK, Pending
  <2>4. z.client.received = z.client.terminal + Cardinality(Pending(z))
                                + z.client.pendingPresentations + Cardinality({})
    BY <1>11, <1>15, <2>1, <2>2, <2>3
  <2>5. z.client.terminal = z.client.releases + SumOfAsks(z.server.deliveries)
    BY <1>6, <1>7, <1>8, <1>11, <2>1, <2>3, SMTT(30), ZenonT(60)
  <2> QED BY <1>9, <1>11, <1>15, <2>1, <2>4, <2>5 DEF Accounts
<1>19. Budgets(z, {}) BY <1>1, <1>9, <1>15 DEF Budgets
<1>20. \A k \in DOMAIN z.server.deliveries : z.server.deliveries[k].epoch <= z.server.epoch
  BY <1>6, <1>7, <1>8 DEF Core, Spoken
<1>21. Core(z, {})
  <2>1. Differs(s, z, {"client", "ledger", "budget", "worker", "server"},
                {"pending", "phase", "received", "terminal", "releases"})
    BY <1>10 DEF Differs
  <2>2. Tiled(z, {}) BY <1>14, <1>16, <1>17, <1>18, <1>19 DEF Tiled
  <2> QED BY <1>7, <1>8, <1>13, <1>20, <2>1, <2>2, RestOK
<1>22. Goes(s, z)
  <2> SUFFICES ASSUME NEW d \in Deliveries
               PROVE  Receipts!Continues(ReceiptAt(s, d), ReceiptAt(z, d))
    BY DEF Goes
  <2>1. CASE d # own
    <3>1. ReceiptAt(z, d) = ReceiptAt(s, d) BY <1>6, <1>7, <1>8, <2>1 DEF ReceiptAt
    <3> QED BY <3>1 DEF Receipts!Continues, Receipts!Silent
  <2>2. CASE d = own
    <3> DEFINE now == s.server.deliveries[own].receipt
               next == z.server.deliveries[own].receipt
    <3>1. /\ next.copies = now.copies /\ next.asks = now.asks + 1 /\ next.acks = now.acks
      BY <1>6, <1>7, <1>8
    <3>2. now.acks = 0 /\ now.asks = active[own].retryRequests /\ now.copies = now.asks + 1
      BY <1>1, <1>3 DEF Agreed
    <3>3. active[own].retryRequests \in Nat
      <4>1. active[own] \in Expectation BY <1>1, <1>3 DEF LedgerOK
      <4> QED BY <4>1 DEF Expectation
    <3>4. Receipts!Asks(now, next) BY <1>3, <3>1, <3>2, <3>3 DEF Receipts!Asks
    <3>5. ReceiptAt(s, d) = now /\ ReceiptAt(z, d) = next
      BY <1>3, <1>6, <1>7, <1>8, <2>2 DEF ReceiptAt
    <3> QED BY <3>1, <3>4, <3>5 DEF Receipts!Continues
  <2> QED BY <2>1, <2>2
<1> QED BY <1>10, <1>21, <1>22 DEF z

LEMMA OnFailedOK ==
    ASSUME NEW s, NEW job, Core(s, {job}), s.client.welcome, job \notin DOMAIN s.budget.reservations
    PROVE  LET z == OnFailed(s, job)
           IN  /\ Core(z, {}) /\ Goes(s, z)
               /\ Differs(s, z, {"client", "ledger", "server"}, {"terminal", "releases"})
<1> DEFINE f == [s EXCEPT !.client.terminal = @ + 1]
           n == s.client.terminal + 1
           c == [s.client EXCEPT !.terminal = n]
           z == OnFailed(s, job)
<1>1. IsState(s) /\ IsClient(s.client) BY DEF Core, Typed, ClientOK
<1>2. f = [s EXCEPT !.client = c] BY <1>1 DEF IsState, StateFields
<1>3. z = IF MayAskAgain(f, job) THEN RequestSelectiveRetry(f, job) ELSE Discard(s, job)
  BY DEF OnFailed, Discard
<1> HIDE DEF n, f, z
<1>4. /\ IsClient(c) /\ c.terminal = n
      /\ \A g \in ClientFields \ {"terminal"} : c[g] = s.client[g]
  BY <1>1 DEF IsClient, ClientFields
<1> HIDE DEF c
<1>5. Differs(s, f, {"client"}, {"terminal"}) /\ f.client = c
  <2> DEFINE G == {"terminal"}
  <2>1. \A g \in ClientFields \ G : c[g] = s.client[g] BY <1>4
  <2> HIDE DEF G
  <2>2. Differs(s, f, {"client"}, G) /\ f.client = c BY <1>1, <1>2, <1>4, <2>1, ClientSays
  <2> QED BY <2>2 DEF G
<1>6. CASE ~MayAskAgain(f, job)
  <2>1. z = Discard(s, job) BY <1>3, <1>6
  <2>2. /\ Core(z, {}) /\ Heard(s, z)
        /\ Differs(s, z, {"client", "ledger", "server"}, {"terminal", "releases"})
    BY <2>1, DiscardOK
  <2> QED BY <2>2, HeardGoes DEF z
<1>7. CASE MayAskAgain(f, job)
  <2>1. z = RequestSelectiveRetry(f, job) BY <1>3, <1>7
  <2>2. /\ f.ledger = s.ledger /\ f.sockets = s.sockets
        /\ f.client.connectionId = s.client.connectionId
    BY <1>5 DEF Differs, StateFields, ClientFields
  <2>3. IsOpen(s) /\ MayRequestRetry(s.ledger, job.delivery, job.connection)
    BY <1>7, <2>2 DEF MayAskAgain, IsOpen
  <2>4. f.client.terminal = s.client.terminal + 1 BY <1>4, <1>5 DEF n
  <2>5. /\ Core(z, {}) /\ Goes(s, z)
        /\ Differs(s, z, {"client", "ledger", "server"}, {"terminal"})
    BY <1>5, <2>1, <2>3, <2>4, AskAgainOK
  <2>6. Differs(s, z, {"client", "ledger", "server"}, {"terminal", "releases"}) BY <2>5 DEF Differs
  <2> QED BY <2>5, <2>6 DEF z
<1> QED BY <1>6, <1>7

LEMMA SendToWorkerOK ==
    ASSUME NEW s, NEW job, Core(s, {job}), s.client.welcome, MayReserve(s.budget, job, Bytes[job.tile])
    PROVE  LET z == SendToWorker(s, job)
           IN  /\ Core(z, {}) /\ Settled(z)
               /\ Differs(s, z, {"client", "budget", "worker"}, {"pending", "phase"})
<1> DEFINE kind == ClassifyTile(s, job.tile)
           b == Reserve(s.budget, job, Bytes[job.tile])
           p == [j \in DOMAIN s.client.pending \cup {job} |->
                    IF j = job THEN kind ELSE s.client.pending[j]]
           busy == "processing"
           c == [s.client EXCEPT !.pending = p, !.phase = busy]
           w == PostDecode(s.worker, job)
           z == SendToWorker(s, job)
<1>1. /\ IsState(s) /\ IsClient(s.client) /\ WorkerOK(s.worker)
      /\ Typed(s) /\ ClientOK(s.client)
      /\ Placed(s, {job}) /\ AtWork(s, {job}) /\ Owned(s, {job}) /\ Agreed(s)
      /\ Accounts(s, {job}) /\ Budgets(s, {job})
  BY DEF Core, Typed, ClientOK
<1>2. job \in Jobs /\ job \notin DOMAIN s.budget.reservations /\ job \notin JobsOf(s.worker)
      /\ job \notin Pending(s)
  BY <1>1 DEF Placed, AtWork, MayReserve
<1>3. z = [s EXCEPT !.budget = b, !.client = c, !.worker = w]
  BY <1>1 DEF SendToWorker, IsState, StateFields
<1>4. /\ IsClient(c) /\ c.pending = p /\ c.phase = "processing"
      /\ \A g \in ClientFields \ {"pending", "phase"} : c[g] = s.client[g]
  BY <1>1 DEF IsClient, ClientFields
<1>5. kind \in Kinds BY DEF ClassifyTile, Kinds
<1> HIDE DEF c, kind, busy
<1>6. DOMAIN p = Pending(s) \cup {job} /\ p \in [DOMAIN p -> Kinds]
  <2>1. s.client.pending \in [Pending(s) -> Kinds] BY <1>1 DEF ClientOK, Pending
  <2> QED BY <1>5, <2>1 DEF Pending
<1> HIDE DEF p, b, w, z
<1>7. Reserved(s.budget) BY <1>1, CoreReserved
<1>8. /\ Reserved(b) /\ DOMAIN b.reservations = DOMAIN s.budget.reservations \cup {job}
      /\ b.contextBytes = s.budget.contextBytes /\ b.detailBytes = s.budget.detailBytes
      /\ b.transientBytes = s.budget.transientBytes + Bytes[job.tile]
  BY <1>2, <1>7, ReserveOK DEF b
<1>9. WorkerOK(w) /\ JobsOf(w) = JobsOf(s.worker) \cup {job} BY <1>1, <1>2, PostDecodeOK DEF w
<1>10. /\ IsState(z) /\ z.budget = b /\ z.client = c /\ z.worker = w
       /\ \A g \in StateFields \ {"client", "budget", "worker"} : z[g] = s[g]
  BY <1>1, <1>3 DEF IsState, StateFields
<1>11. Differs(s, z, {"client", "budget", "worker"}, {"pending", "phase"})
  BY <1>4, <1>10 DEF Differs
<1>12. /\ z.canvas = s.canvas /\ z.ledger = s.ledger /\ z.server = s.server
       /\ z.sockets = s.sockets /\ z.client.connectionId = s.client.connectionId
       /\ z.client.received = s.client.received /\ z.client.terminal = s.client.terminal
       /\ z.client.releases = s.client.releases /\ z.client.welcome = s.client.welcome
       /\ z.client.pendingPresentations = s.client.pendingPresentations
       /\ z.client.phase = "processing" /\ z.client.pending = p
  BY <1>4, <1>10 DEF StateFields, ClientFields
<1>13. /\ Pending(z) = Pending(s) \cup {job} /\ UndrawnTiles(z) = UndrawnTiles(s)
       /\ UndrawnJobs(z) = UndrawnJobs(s) /\ Held(z, {}) = Held(s, {job})
       /\ IsOpen(z) = IsOpen(s)
  BY <1>6, <1>12 DEF Pending, UndrawnTiles, UndrawnJobs, Held, IsOpen
<1>14. IsFiniteSet(Pending(s)) /\ Pending(s) \in SUBSET Jobs BY <1>1 DEF ClientOK, Pending
<1>15. Typed(z)
  <2>1. ClientOK(z.client)
    <3>1. /\ DOMAIN z.client.pending \in SUBSET Jobs /\ IsFiniteSet(DOMAIN z.client.pending)
          /\ z.client.pending \in [DOMAIN z.client.pending -> Kinds]
      BY <1>2, <1>6, <1>12, <1>14, FS_AddElement
    <3>2. z.client.phase \in Phases BY <1>12 DEF Phases
    <3> QED BY <1>1, <1>4, <1>10, <3>1, <3>2 DEF ClientOK, ClientFields
  <2>2. IsBudget(z.budget) BY <1>8, <1>10 DEF Reserved
  <2> QED BY <1>1, <1>9, <1>10, <1>12, <2>1, <2>2 DEF Typed
<1>16. Placed(z, {})
  <2>1. /\ {} \in SUBSET Jobs /\ IsFiniteSet({}) BY FS_EmptySet
  <2>2. Pending(z) \cap UndrawnJobs(z) = {} BY <1>1, <1>13 DEF Placed
  <2> QED BY <1>1, <1>12, <1>13, <2>1, <2>2 DEF Placed
<1>17. AtWork(z, {})
  <2>1. /\ Pending(z) \subseteq JobsOf(z.worker)
        /\ \A j \in JobsOf(z.worker) : j.connection <= z.client.connectionId
    <3>1. job.connection <= s.client.connectionId
      <4>1. job.connection = s.client.connectionId /\ s.client.connectionId \in 0..MaxConnections
        BY <1>1 DEF Placed, ClientOK, Connections
      <4> QED BY <4>1
    <3>2. /\ Pending(s) \subseteq JobsOf(s.worker)
          /\ \A j \in JobsOf(s.worker) : j.connection <= s.client.connectionId
      BY <1>1 DEF AtWork
    <3>3. JobsOf(z.worker) = JobsOf(s.worker) \cup {job} BY <1>9, <1>10
    <3> QED BY <1>12, <1>13, <3>1, <3>2, <3>3
  <2>2. IsOpen(z) =>
            \A j \in JobsOf(z.worker) : j.connection = z.client.connectionId => j \in Pending(z)
    <3>1. IsOpen(s) =>
            \A j \in JobsOf(s.worker) : j.connection = s.client.connectionId => j \in Pending(s)
      BY <1>1 DEF AtWork
    <3>2. JobsOf(z.worker) = JobsOf(s.worker) \cup {job} BY <1>9, <1>10
    <3> QED BY <1>12, <1>13, <3>1, <3>2
  <2> QED BY <2>1, <2>2 DEF AtWork
<1>18. Owned(z, {}) BY <1>1, <1>12, <1>13, OwnedSame
<1>19. Agreed(z) BY <1>1, <1>12, <1>13, AgreedSame
<1>20. Accounts(z, {})
  <2>1. /\ s.client.received = s.client.terminal + Cardinality(Pending(s))
                                + s.client.pendingPresentations + Cardinality({job})
        /\ IsOpen(s) => s.client.terminal = s.client.releases + SumOfAsks(s.server.deliveries)
        /\ s.client.pendingPresentations = Cardinality(UndrawnTiles(s))
        /\ UndrawnTiles(s) # {} => s.canvas.frame
    BY <1>1 DEF Accounts
  <2>2. Cardinality({}) = 0 /\ Cardinality({job}) = 1 BY FS_EmptySet, FS_Singleton
  <2>3. /\ s.client.pendingPresentations \in Nat /\ Cardinality(Pending(s)) \in Nat
        /\ s.client.terminal \in Nat
    BY <1>1, FS_CardinalityType DEF ClientOK, Pending
  <2>4. Cardinality(Pending(z)) = Cardinality(Pending(s)) + 1 BY <1>2, <1>13, <1>14, FS_AddElement
  <2>5. z.client.received = z.client.terminal + Cardinality(Pending(z))
                                + z.client.pendingPresentations + Cardinality({})
    BY <1>12, <2>1, <2>2, <2>3, <2>4
  <2> QED BY <1>12, <1>13, <2>1, <2>5 DEF Accounts
<1>21. Budgets(z, {})
  <2>1. DOMAIN z.budget.reservations \subseteq Pending(z) \cup {}
    BY <1>1, <1>8, <1>10, <1>13 DEF Budgets
  <2>2. /\ \A j \in DOMAIN z.budget.reservations : z.budget.reservations[j] = Bytes[j.tile]
        /\ z.budget.transientBytes = ReservedBytes(z.budget)
    BY <1>8, <1>10 DEF Reserved
  <2>3. /\ z.budget.contextBytes = KeptBytes(z.canvas.entries, "context")
        /\ z.budget.detailBytes = KeptBytes(z.canvas.entries, "detail")
        /\ z.budget.detailBytes <= DetailBudgetBytes
    BY <1>1, <1>8, <1>10, <1>12 DEF Budgets
  <2>4. z.budget.contextBytes + z.budget.transientBytes <= TransientBudgetBytes
    <3>1. s.budget.contextBytes + s.budget.transientBytes + Bytes[job.tile] <= TransientBudgetBytes
      BY DEF MayReserve
    <3>2. s.budget.contextBytes \in Nat /\ s.budget.transientBytes \in Nat /\ Bytes[job.tile] \in Nat
      BY <1>2, <1>7, BytesAreNumbers DEF Reserved, IsBudget, Jobs
    <3> QED BY <1>8, <1>10, <3>1, <3>2
  <2> QED BY <2>1, <2>2, <2>3, <2>4 DEF Budgets
<1>22. \A k \in DOMAIN z.server.deliveries : z.server.deliveries[k].epoch <= z.server.epoch
  BY <1>12 DEF Core, Spoken
<1>23. Core(z, {})
  <2>1. Differs(s, z, {"client", "ledger", "budget", "worker", "server"},
                {"pending", "phase", "received", "terminal", "releases"})
    BY <1>11 DEF Differs
  <2>2. Tiled(z, {}) BY <1>16, <1>17, <1>18, <1>19, <1>20, <1>21 DEF Tiled
  <2> QED BY <1>12, <1>15, <1>22, <2>1, <2>2, RestOK
<1>24. Settled(z) BY <1>12 DEF Settled
<1> QED BY <1>11, <1>23, <1>24 DEF z

LEMMA OnRegisteredOK ==
    ASSUME NEW s, NEW job, Core(s, {job}), Fresh(s), Settled(s), s.client.welcome,
           job.epoch \in Nat, job.epoch <= s.client.epoch, job \notin DOMAIN s.budget.reservations
    PROVE  LET z == OnRegistered(s, job) IN Sound(z) /\ Follows(s, z)
<1> DEFINE z == OnRegistered(s, job)
<1>1. s.client.epoch \in Nat
  <2>1. s.client.epoch \in 0..MaxEpoch /\ MaxEpoch \in Nat
    BY ClientAssumption DEF Core, Typed, ClientOK
  <2> QED BY <2>1
<1>2. CASE job.epoch < s.client.epoch \/ ~MayReserve(s.budget, job, Bytes[job.tile])
  <2>1. z = Discard(s, job) BY <1>1, <1>2 DEF OnRegistered
  <2> HIDE DEF z
  <2>2. /\ Core(z, {}) /\ Heard(s, z)
        /\ Differs(s, z, {"client", "ledger", "server"}, {"terminal", "releases"})
    BY <2>1, DiscardOK
  <2>3. z.client.error = s.client.error /\ (Fresh(s) => Fresh(z))
    BY <2>2, CountersFresh DEF Counters
  <2>4. Settled(z)
    <3>1. /\ z.client.phase = s.client.phase /\ z.client.pending = s.client.pending
          /\ z.client.pendingPresentations = s.client.pendingPresentations
      BY <2>2 DEF Differs, ClientFields
    <3> QED BY <3>1 DEF Settled, Pending
  <2> QED BY <2>2, <2>3, <2>4 DEF Sound, Follows, z
<1>3. CASE ~(job.epoch < s.client.epoch) /\ MayReserve(s.budget, job, Bytes[job.tile])
  <2>1. z = SendToWorker(s, job) BY <1>1, <1>3 DEF OnRegistered
  <2> HIDE DEF z
  <2>2. /\ Core(z, {}) /\ Settled(z)
        /\ Differs(s, z, {"client", "budget", "worker"}, {"pending", "phase"})
    BY <1>3, <2>1, SendToWorkerOK
  <2>3. z.client.error = s.client.error /\ (Fresh(s) => Fresh(z))
    BY <2>2, CountersFresh DEF Counters
  <2>4. Heard(s, z)
    <3>1. z.server = s.server BY <2>2 DEF Differs, StateFields
    <3> QED BY <3>1, NothingHeard
  <2> QED BY <2>2, <2>3, <2>4 DEF Sound, Follows, z
<1> QED BY <1>2, <1>3
--------------------------------------------------------------------------------
\* A first copy of a tile, or one that was asked for

LEMMA GreatestNumber ==
    ASSUME NEW S \in SUBSET Int, IsFiniteSet(S), S # {}
    PROVE  Max(S) \in S /\ \A y \in S : Max(S) >= y
<1> DEFINE Good == {U \in SUBSET S : U = {} \/ \E m \in U : \A y \in U : m >= y}
<1>1. ASSUME NEW U \in SUBSET S, \A x \in U : U \ {x} \in Good
      PROVE  U \in Good
  <2> SUFFICES ASSUME U # {} PROVE \E m \in U : \A y \in U : m >= y
    OBVIOUS
  <2>1. PICK x \in U : TRUE OBVIOUS
  <2>2. U \ {x} \in Good BY <1>1
  <2>3. CASE U \ {x} = {} BY <2>1, <2>3
  <2>4. CASE U \ {x} # {}
    <3>1. PICK m \in U \ {x} : \A y \in U \ {x} : m >= y BY <2>2, <2>4
    <3>2. m \in Int /\ x \in Int BY <2>1
    <3>3. CASE m >= x BY <3>1, <3>3
    <3>4. CASE ~(m >= x)
      <4>1. \A y \in U : x >= y
        <5> SUFFICES ASSUME NEW y \in U PROVE x >= y
          OBVIOUS
        <5>1. y \in Int /\ (y = x \/ m >= y) BY <3>1
        <5> QED BY <3>2, <3>4, <5>1
      <4> QED BY <2>1, <4>1
    <3> QED BY <3>3, <3>4
  <2> QED BY <2>3, <2>4
<1> HIDE DEF Good
<1>2. \A U \in SUBSET S : U \in Good BY <1>1, SubsetInduction
<1>3. \E m \in S : \A y \in S : m >= y BY <1>2 DEF Good
<1> QED BY <1>3 DEF Max

LEMMA DeliveryIds ==
    ASSUME NEW c \in 1..MaxConnections, NEW id \in Nat, id >= 1, id <= MaxDeliveries[c]
    PROVE  id \in Deliveries
<1> DEFINE S == Range(MaxDeliveries)
<1>1. MaxDeliveries \in [1..MaxConnections -> Nat] /\ MaxConnections \in Nat BY ClientAssumption
<1>2. /\ S \in SUBSET Int /\ S # {} /\ MaxDeliveries[c] \in S /\ MaxDeliveries[c] \in Nat
  BY <1>1 DEF Range
<1>3. IsFiniteSet(S)
  <2>1. IsFiniteSet(1..MaxConnections) BY <1>1, FS_Interval
  <2>2. MaxDeliveries \in Surjection(1..MaxConnections, S) BY <1>1 DEF Surjection, Range
  <2> QED BY <2>1, <2>2, FS_Surjection
<1> HIDE DEF S
<1>4. Max(S) \in Int /\ Max(S) >= MaxDeliveries[c] BY <1>2, <1>3, GreatestNumber
<1>5. id \in 1..Max(S) BY <1>2, <1>4
<1> QED BY <1>5 DEF Deliveries, S

LEMMA ArrivesGoes ==
    ASSUME NEW s, NEW q, NEW z, NEW id, Heard(q, z),
           DOMAIN q.server.deliveries = DOMAIN s.server.deliveries \cup {id},
           \A d \in DOMAIN s.server.deliveries \ {id} :
                q.server.deliveries[d] = s.server.deliveries[d],
           ReceiptAt(s, id) \in Counts,
           ReceiptAt(s, id).acks = 0, ReceiptAt(s, id).copies = ReceiptAt(s, id).asks,
           NEW next, next = q.server.deliveries[id].receipt,
           next.acks = 0, next.asks = ReceiptAt(s, id).asks,
           next.copies = ReceiptAt(s, id).copies + 1
    PROVE  Goes(s, z)
<1> SUFFICES ASSUME NEW d \in Deliveries
             PROVE  Receipts!Continues(ReceiptAt(s, d), ReceiptAt(z, d))
  BY DEF Goes
<1>1. CASE d = id
  <2> DEFINE now == ReceiptAt(s, id)
             then == z.server.deliveries[id].receipt
  <2>1. Hears(next, then) /\ ReceiptAt(z, d) = then BY <1>1 DEF Heard, ReceiptAt
  <2>2. now.copies \in Nat BY DEF Counts
  <2>3. /\ now.acks = 0 /\ now.copies = now.asks /\ next.acks = 0 /\ next.asks = now.asks
        /\ next.copies = now.copies + 1
    OBVIOUS
  <2> HIDE DEF now, then
  <2>4. /\ then.copies = now.copies + 1 /\ then.asks = now.asks
        /\ then.acks = 0 \/ then.acks = 1
    BY <2>1, <2>3 DEF Hears
  <2>5. Receipts!Arrives(now, then) BY <2>3, <2>4 DEF Receipts!Arrives
  <2>6. Receipts!Confirms(now, then) \/ Receipts!Silent(now, then)
    BY <2>2, <2>3, <2>4 DEF Receipts!Confirms, Receipts!Silent
  <2> QED BY <1>1, <2>1, <2>5, <2>6 DEF Receipts!Continues, now
<1>2. CASE d # id /\ d \in DOMAIN s.server.deliveries
  <2>1. /\ d \in DOMAIN q.server.deliveries /\ d \in DOMAIN z.server.deliveries
        /\ Hears(s.server.deliveries[d].receipt, z.server.deliveries[d].receipt)
    BY <1>2 DEF Heard
  <2> QED
    BY <1>2, <2>1
    DEF ReceiptAt, Hears, Receipts!Continues, Receipts!Confirms, Receipts!Silent
<1>3. CASE d # id /\ d \notin DOMAIN s.server.deliveries
  <2>1. d \notin DOMAIN z.server.deliveries BY <1>3 DEF Heard
  <2> QED BY <1>3, <2>1 DEF ReceiptAt, Receipts!Continues, Receipts!Silent
<1> QED BY <1>1, <1>2, <1>3

\* The server sent something: its deliveries are those of then.
Sends(s, then) == [s EXCEPT !.server = [s.server EXCEPT !.deliveries = then]]

LEMMA SendsSays ==
    ASSUME NEW s, IsState(s), IsClient(s.client), ServerOK(s.server), NEW then,
           NEW p, p = Sends(s, then)
    PROVE  /\ Differs(s, p, {"server"}, {}) /\ p.server.deliveries = then
           /\ p.server.controls = s.server.controls /\ p.server.epoch = s.server.epoch
           /\ p.server.stage = s.server.stage
           /\ then \in Seq(Sent) => ServerOK(p.server)
<1> DEFINE e == [s.server EXCEPT !.deliveries = then]
<1>1. e = [stage |-> s.server.stage, epoch |-> s.server.epoch,
           controls |-> s.server.controls, deliveries |-> then]
  BY DEF ServerOK
<1>2. p = [s EXCEPT !.server = e] BY DEF Sends
<1> HIDE DEF e
<1>3. /\ IsState(p) /\ p.server = e /\ \A f \in StateFields \ {"server"} : p[f] = s[f]
  BY <1>2 DEF IsState, StateFields
<1>4. /\ e.stage = s.server.stage /\ e.epoch = s.server.epoch
      /\ e.controls = s.server.controls /\ e.deliveries = then
  BY <1>1
<1>5. Differs(s, p, {"server"}, {}) BY <1>3 DEF Differs, StateFields
<1>6. then \in Seq(Sent) => ServerOK(e) BY <1>1, <1>4 DEF ServerOK
<1> QED BY <1>3, <1>4, <1>5, <1>6

\* The tile is counted, and its delivery accounted for in the ledger l.
Entered(p, l) == [[p EXCEPT !.client.received = @ + 1] EXCEPT !.ledger = l]

LEMMA EnteredSays ==
    ASSUME NEW p, IsState(p), IsClient(p.client), NEW l, NEW q, q = Entered(p, l)
    PROVE  /\ Differs(p, q, {"client", "ledger"}, {"received"}) /\ q.ledger = l
           /\ q.client.received = p.client.received + 1
<1> DEFINE n == p.client.received + 1
           c == [p.client EXCEPT !.received = n]
<1>1. q = [p EXCEPT !.client = c, !.ledger = l] BY DEF Entered, IsState, StateFields
<1> HIDE DEF n
<1>2. /\ IsClient(c) /\ c.received = n
      /\ \A g \in ClientFields \ {"received"} : c[g] = p.client[g]
  BY DEF IsClient, ClientFields
<1> HIDE DEF c
<1>3. /\ IsState(q) /\ q.client = c /\ q.ledger = l
      /\ \A f \in StateFields \ {"client", "ledger"} : q[f] = p[f]
  BY <1>1 DEF IsState, StateFields
<1> QED BY <1>2, <1>3 DEF Differs, n

LEMMA RegisterOK ==
    ASSUME NEW l, LedgerOK(l), NEW id \in Deliveries, NEW connection \in Connections
    PROVE  LET m == Register(l, id, connection)
           IN  /\ LedgerOK(m) /\ m.released = l.released
               /\ DOMAIN m.active = DOMAIN l.active \cup {id}
               /\ \A d \in DOMAIN l.active \ {id} : m.active[d] = l.active[d]
               /\ m.active[id].connection = connection /\ ~m.active[id].retryExpected
               /\ m.active[id].retryRequests = 0
<1> DEFINE fresh == [connection |-> connection, retryExpected |-> FALSE, retryRequests |-> 0]
           a == [d \in DOMAIN l.active \cup {id} |-> IF d = id THEN fresh ELSE l.active[d]]
           m == Register(l, id, connection)
<1>1. /\ l = [active |-> l.active, released |-> l.released]
      /\ l.active \in [DOMAIN l.active -> Expectation]
  BY DEF LedgerOK
<1>2. fresh \in Expectation /\ fresh.connection = connection /\ ~fresh.retryExpected
      /\ fresh.retryRequests = 0
  BY DEF Expectation
<1>3. m = [l EXCEPT !.active = a] BY DEF Register
<1> HIDE DEF fresh
<1>4. /\ DOMAIN a = DOMAIN l.active \cup {id} /\ a[id] = fresh
      /\ \A d \in DOMAIN l.active \ {id} : a[d] = l.active[d]
  OBVIOUS
<1>5. a \in [DOMAIN a -> Expectation] BY <1>1, <1>2
<1> HIDE DEF a, m
<1>6. m = [active |-> a, released |-> l.released] BY <1>1, <1>3
<1>7. LedgerOK(m) BY <1>4, <1>5, <1>6 DEF LedgerOK
<1> QED BY <1>2, <1>4, <1>6, <1>7 DEF m

LEMMA AcceptOK ==
    ASSUME NEW l, LedgerOK(l), NEW id \in DOMAIN l.active
    PROVE  LET m == AcceptRetransmission(l, id)
           IN  /\ LedgerOK(m) /\ m.released = l.released
               /\ DOMAIN m.active = DOMAIN l.active
               /\ \A d \in DOMAIN l.active \ {id} : m.active[d] = l.active[d]
               /\ m.active[id].connection = l.active[id].connection
               /\ ~m.active[id].retryExpected
               /\ m.active[id].retryRequests = l.active[id].retryRequests
<1> DEFINE x == l.active[id]
           no == FALSE
           new == [x EXCEPT !.retryExpected = no]
           a == [l.active EXCEPT ![id] = new]
           m == AcceptRetransmission(l, id)
<1>1. /\ l = [active |-> l.active, released |-> l.released]
      /\ l.active \in [DOMAIN l.active -> Expectation] /\ x \in Expectation
  BY DEF LedgerOK
<1>2. m = [l EXCEPT !.active = a] BY DEF AcceptRetransmission
<1>3. new \in Expectation /\ new.connection = x.connection /\ ~new.retryExpected
      /\ new.retryRequests = x.retryRequests
  <2>1. x = [connection |-> x.connection, retryExpected |-> x.retryExpected,
             retryRequests |-> x.retryRequests]
        /\ x.connection \in Connections /\ x.retryRequests \in Nat
    BY <1>1 DEF Expectation
  <2>2. no \in BOOLEAN /\ ~no OBVIOUS
  <2> HIDE DEF x, no
  <2>3. new = [connection |-> x.connection, retryExpected |-> no, retryRequests |-> x.retryRequests]
    BY <2>1
  <2> HIDE DEF new
  <2> QED BY <2>1, <2>2, <2>3 DEF Expectation
<1> HIDE DEF new, no
<1>4. /\ DOMAIN a = DOMAIN l.active /\ a[id] = new
      /\ \A d \in DOMAIN l.active \ {id} : a[d] = l.active[d]
  BY <1>1
<1>5. a \in [DOMAIN a -> Expectation] BY <1>1, <1>3
<1> HIDE DEF a, m
<1>6. m = [active |-> a, released |-> l.released] BY <1>1, <1>2
<1>7. LedgerOK(m) BY <1>4, <1>5, <1>6 DEF LedgerOK
<1> QED BY <1>3, <1>4, <1>6, <1>7 DEF m

LEMMA AppendedAsks ==
    ASSUME NEW e, ServerOK(e), NEW delivery \in Sent, delivery.receipt.asks = 0
    PROVE  LET then == Append(e.deliveries, delivery)
               id == Len(e.deliveries) + 1
           IN  /\ then \in Seq(Sent) /\ DOMAIN then = DOMAIN e.deliveries \cup {id}
               /\ id \notin DOMAIN e.deliveries /\ id \in Nat /\ id >= 1
               /\ \A d \in DOMAIN e.deliveries : then[d] = e.deliveries[d]
               /\ then[id] = delivery
               /\ SumOfAsks(then) = SumOfAsks(e.deliveries)
<1> DEFINE ds == e.deliveries
           then == Append(ds, delivery)
           id == Len(ds) + 1
<1>1. ds \in Seq(Sent) /\ DOMAIN ds = 1..Len(ds) /\ Len(ds) \in Nat BY DEF ServerOK
<1>2. /\ then \in Seq(Sent) /\ Len(then) = Len(ds) + 1
      /\ \A d \in 1..Len(ds) : then[d] = ds[d]
      /\ then[Len(ds) + 1] = delivery
  BY <1>1, AppendProperties
<1>3. /\ DOMAIN then = DOMAIN ds \cup {id} /\ id \notin DOMAIN ds /\ id \in Nat /\ id >= 1
  <2>1. DOMAIN then = 1..(Len(ds) + 1) BY <1>2
  <2> QED BY <1>1, <2>1
<1>4. SumOfAsks(then) = SumOfAsks(ds)
  <2> HIDE DEF then, id
  <2> DEFINE S == DOMAIN ds
             a == AsksOf(ds)
             b == AsksOf(then)
  <2>1. IsFiniteSet(S) /\ \A d \in S : a[d] \in Nat BY AskedNumbers
  <2>2. b[id] = 0 /\ \A d \in S : b[d] = a[d] BY <1>1, <1>2, <1>3 DEF AsksOf
  <2>3. SumOfAsks(ds) = SumFunctionOnSet(a, S) /\ SumOfAsks(then) = SumFunctionOnSet(b, S \cup {id})
    BY <1>3 DEF SumOfAsks
  <2>4. id \notin S BY <1>3
  <2> HIDE DEF a, b, S
  <2>5. \A d \in S : b[d] \in Nat BY <2>1, <2>2
  <2>6. b[id] \in Nat BY <2>2
  <2>7. SumFunctionOnSet(b, S \cup {id}) = b[id] + SumFunctionOnSet(b, S)
    BY <2>1, <2>4, <2>5, <2>6, SumWith
  <2>8. SumFunctionOnSet(b, S) = SumFunctionOnSet(a, S) BY <2>1, <2>2, SumSame
  <2>9. SumFunctionOnSet(a, S) \in Nat BY <2>1, SumIsNat
  <2> QED BY <2>2, <2>3, <2>7, <2>8, <2>9
<1> QED BY <1>1, <1>2, <1>3, <1>4

\* The server sends tiles of a view only to a client it welcomed, and of the
\* image the client knows best.
LEMMA SendingKnown ==
    ASSUME NEW s, Sound(s), IsOpen(s), s.server.stage = "sending"
    PROVE  /\ s.client.welcome
           /\ s.client.connectionId \in 1..MaxConnections
           /\ s.server.epoch \in DOMAIN s.server.controls /\ s.server.epoch \in 1..MaxEpoch
           /\ s.server.epoch <= s.client.epoch
           /\ s.server.controls[s.server.epoch].image \in Images
           /\ Contains(s.client.manifestHistory, s.server.controls[s.server.epoch].image)
<1>1. /\ ServerOK(s.server) /\ Spoken(s) /\ Known(s) /\ ClientOK(s.client)
      /\ Quiet(s) /\ Sockets(s)
  BY DEF Sound, Core, Typed
<1>2. /\ s.server.controls \in Seq(Control) /\ s.server.epoch \in 0..MaxEpoch
      /\ s.client.epoch \in 0..MaxEpoch /\ MaxEpoch \in Nat
      /\ DOMAIN s.server.controls = 1..Len(s.server.controls)
  BY <1>1, ClientAssumption DEF ServerOK, ClientOK
<1>3. /\ Len(s.server.controls) = s.client.epoch /\ s.server.epoch <= s.client.epoch
      /\ s.server.epoch # 0 /\ s.server.controls[s.server.epoch].type = "VIEW"
  BY <1>1 DEF Spoken
<1>4. s.server.epoch \in 1..MaxEpoch /\ s.server.epoch \in DOMAIN s.server.controls BY <1>2, <1>3
<1>5. s.client.welcome
  <2> SUFFICES ASSUME ~s.client.welcome PROVE FALSE
    OBVIOUS
  <2>1. IsLive(s) BY DEF IsLive, IsOpen
  <2>2. s.server.controls = <<>> BY <1>1, <2>1 DEF Quiet
  <2> QED BY <1>4, <2>2
<1>6. s.client.connectionId \in 1..MaxConnections
  <2>1. s.client.connectionId \in 0..MaxConnections /\ MaxConnections \in Nat
    BY <1>1, ClientAssumption DEF ClientOK, Connections
  <2>2. s.client.connectionId # 0 BY <1>1 DEF Sockets, IsOpen
  <2> QED BY <2>1, <2>2
<1>7. s.server.controls[s.server.epoch].image \in Images
  <2>1. s.server.controls[s.server.epoch] \in Control BY <1>2, <1>4
  <2> QED BY <2>1 DEF Control
<1>8. Contains(s.client.manifestHistory, s.server.controls[s.server.epoch].image)
  <2> DEFINE h == s.client.manifestHistory
  <2>1. h # <<>> /\ s.server.controls[s.server.epoch].image = LastOf(h)
    BY <1>1, <1>3, <1>4 DEF Known
  <2>2. h \in Seq(Images) BY <1>1 DEF ClientOK
  <2>3. Len(h) \in 1..Len(h) BY <2>1, <2>2
  <2> QED BY <2>1, <2>3 DEF Contains, LastOf
<1> QED BY <1>3, <1>4, <1>5, <1>6, <1>7, <1>8

LEMMA FirstCopyOK ==
    ASSUME NEW s, Sound(s), IsOpen(s), s.server.stage = "sending", 
           NEW id \in Deliveries, id \notin DOMAIN s.server.deliveries,
           NEW then \in Seq(Sent), DOMAIN then = DOMAIN s.server.deliveries \cup {id},
           \A d \in DOMAIN s.server.deliveries : then[d] = s.server.deliveries[d],
           then[id].epoch = s.server.epoch,
           then[id].receipt.copies = 1, then[id].receipt.asks = 0, then[id].receipt.acks = 0,
           SumOfAsks(then) = SumOfAsks(s.server.deliveries),
           NEW job \in Jobs, job.connection = s.client.connectionId, job.delivery = id,
           job.epoch = s.server.epoch, job.image = s.server.controls[s.server.epoch].image,
           NEW p, p = Sends(s, then)
    PROVE  LET z == OnBinary(p, job)
           IN  /\ Sound(z) /\ Goes(s, z)
               /\ z.client.error = "violation" => s.client.error = "violation"
<1> DEFINE z == OnBinary(p, job)
           l == Register(p.ledger, id, s.client.connectionId)
           q == Entered(p, l)
<1>1. /\ IsState(s) /\ IsClient(s.client) /\ ClientOK(s.client) /\ ServerOK(s.server)
      /\ LedgerOK(s.ledger) /\ Core(s, {}) /\ Fresh(s) /\ Settled(s)
      /\ Owned(s, {}) /\ Agreed(s) /\ Placed(s, {}) /\ Budgets(s, {})
  BY DEF Sound, Core, Typed, ClientOK
<1>2. /\ s.client.welcome
      /\ s.client.connectionId \in 1..MaxConnections
      /\ s.server.epoch \in DOMAIN s.server.controls /\ s.server.epoch \in 1..MaxEpoch
      /\ s.server.epoch <= s.client.epoch
      /\ s.server.controls[s.server.epoch].image \in Images
      /\ Contains(s.client.manifestHistory, s.server.controls[s.server.epoch].image)
  BY SendingKnown
<1>3. /\ Differs(s, p, {"server"}, {}) /\ p.server.deliveries = then
      /\ p.server.controls = s.server.controls /\ p.server.epoch = s.server.epoch
      /\ p.server.stage = s.server.stage /\ ServerOK(p.server)
  BY <1>1, SendsSays
<1>4. /\ IsState(p) /\ IsClient(p.client) /\ p.client = s.client /\ p.ledger = s.ledger
      /\ p.sockets = s.sockets
  <2>1. IsState(p) /\ IsClient(p.client) /\ p.ledger = s.ledger /\ p.sockets = s.sockets
        /\ p.client = s.client
    BY <1>3 DEF Differs, StateFields
  <2> QED BY <2>1
<1>5. ~IsKnown(p.ledger, id)
  <2>1. id \notin DOMAIN s.ledger.active /\ id \notin Elements(s.ledger.released) BY <1>1 DEF Agreed
  <2> QED BY <1>4, <2>1 DEF IsKnown, Contains, Elements
<1> HIDE DEF l, q, z
<1>6. z = OnRegistered(q, job)
  <2>1. IsExpected(p, job) BY <1>2, <1>4, <1>5 DEF IsExpected
  <2>2. [[p EXCEPT !.client.received = @ + 1] EXCEPT
            !.ledger = Register(@, job.delivery, job.connection)] = q
    <3>1. [p EXCEPT !.client.received = @ + 1].ledger = p.ledger BY <1>4 DEF IsState, StateFields
    <3> QED BY <3>1 DEF q, Entered, l
  <2> QED BY <1>2, <1>4, <1>5, <2>1, <2>2 DEF z, OnBinary
<1>7. /\ Differs(p, q, {"client", "ledger"}, {"received"}) /\ q.ledger = l
      /\ q.client.received = p.client.received + 1
  <2>1. q = Entered(p, l) BY DEF q
  <2> QED BY <1>4, <2>1, EnteredSays
<1>8. /\ LedgerOK(l) /\ l.released = s.ledger.released
      /\ DOMAIN l.active = DOMAIN s.ledger.active \cup {id}
      /\ \A d \in DOMAIN s.ledger.active \ {id} : l.active[d] = s.ledger.active[d]
      /\ l.active[id].connection = s.client.connectionId /\ ~l.active[id].retryExpected
      /\ l.active[id].retryRequests = 0
  <2>1. s.client.connectionId \in Connections BY <1>1 DEF ClientOK
  <2> QED BY <1>1, <1>4, <2>1, RegisterOK DEF l
<1>9. q.server = p.server /\ q.client.error = s.client.error
      /\ q.client.epoch = s.client.epoch /\ q.budget = s.budget
  BY <1>3, <1>4, <1>7 DEF Differs, StateFields, ClientFields
<1>10. Taken(s, q, id)
  <2>1. Differs(s, q, {"client", "ledger", "server"}, {"received"}) BY <1>3, <1>7 DEF Differs
  <2>2. LET receipt == q.server.deliveries[id].receipt
        IN  /\ receipt.acks = 0 /\ receipt.copies = receipt.asks + 1
            /\ receipt.asks <= MaxSelectiveRetries
            /\ receipt.asks = q.ledger.active[id].retryRequests
    <3>1. q.server.deliveries[id] = then[id] BY <1>3, <1>9
    <3>3. q.ledger.active[id].retryRequests = 0 BY <1>7, <1>8
    <3>2. MaxSelectiveRetries \in Nat BY LedgerAssumption
    <3> QED BY <3>1, <3>2, <3>3
  <2>3. q.server.deliveries[id].epoch <= q.server.epoch
    <3>1. s.server.epoch \in Nat BY <1>2
    <3> QED BY <1>3, <1>9, <3>1
  <2>4. q.client.received = s.client.received + 1 BY <1>4, <1>7
  <2>5. /\ q.server.controls = s.server.controls /\ q.server.epoch = s.server.epoch
        /\ q.server.stage = s.server.stage /\ ServerOK(q.server)
        /\ DOMAIN q.server.deliveries = DOMAIN s.server.deliveries \cup {id}
        /\ \A d \in DOMAIN s.server.deliveries \ {id} :
                q.server.deliveries[d] = s.server.deliveries[d]
        /\ SumOfAsks(q.server.deliveries) = SumOfAsks(s.server.deliveries)
    BY <1>3, <1>9
  <2>6. /\ LedgerOK(q.ledger) /\ q.ledger.released = s.ledger.released
        /\ DOMAIN q.ledger.active = DOMAIN s.ledger.active \cup {id}
        /\ \A d \in DOMAIN s.ledger.active \ {id} : q.ledger.active[d] = s.ledger.active[d]
        /\ q.ledger.active[id].connection = s.client.connectionId
        /\ ~q.ledger.active[id].retryExpected
    BY <1>7, <1>8
  <2> QED BY <2>1, <2>2, <2>3, <2>4, <2>5, <2>6 DEF Taken
<1>11. \A j \in Held(s, {}) : j.delivery # id BY <1>1 DEF Placed
<1>12. Core(q, {job}) BY <1>1, <1>2, <1>10, <1>11, TakenOK
<1>13. Fresh(q) /\ Settled(q) /\ q.client.welcome
  <2>1. Differs(s, q, {"client", "ledger", "server"}, {"received"}) BY <1>10 DEF Taken
  <2>2. Fresh(q) /\ q.client.welcome = s.client.welcome
    BY <1>1, <2>1, CountersFresh, SMTT(30), ZenonT(60) DEF Counters
  <2>3. /\ q.client.phase = s.client.phase /\ q.client.pending = s.client.pending
        /\ q.client.pendingPresentations = s.client.pendingPresentations
    BY <2>1 DEF Differs, ClientFields
  <2> QED BY <1>1, <1>2, <2>2, <2>3 DEF Settled, Pending
<1>14. job \notin DOMAIN q.budget.reservations
  <2>1. job \notin Pending(s) BY <1>11 DEF Held
  <2> QED BY <1>1, <1>9, <2>1 DEF Budgets
<1>15. Sound(z) /\ Follows(q, z)
  <2>1. job.epoch \in Nat /\ job.epoch <= q.client.epoch BY <1>2, <1>9
  <2> QED BY <1>6, <1>12, <1>13, <1>14, <2>1, OnRegisteredOK
<1>16. Goes(s, z)
  <2>1. /\ ReceiptAt(s, id) \in Counts /\ ReceiptAt(s, id).acks = 0
        /\ ReceiptAt(s, id).copies = 0 /\ ReceiptAt(s, id).asks = 0
    BY DEF ReceiptAt, Counts
  <2>2. /\ DOMAIN q.server.deliveries = DOMAIN s.server.deliveries \cup {id}
        /\ \A d \in DOMAIN s.server.deliveries \ {id} :
                q.server.deliveries[d] = s.server.deliveries[d]
    BY <1>10 DEF Taken
  <2> DEFINE next == q.server.deliveries[id].receipt
  <2>3. next.acks = 0 /\ next.asks = 0 /\ next.copies = 1 BY <1>3, <1>9
  <2>4. Heard(q, z) BY <1>15 DEF Follows
  <2> HIDE DEF next
  <2>5. next = q.server.deliveries[id].receipt BY DEF next
  <2>6. next.asks = ReceiptAt(s, id).asks /\ next.copies = ReceiptAt(s, id).copies + 1
        /\ ReceiptAt(s, id).copies = ReceiptAt(s, id).asks
    BY <2>1, <2>3
  <2> QED BY <2>1, <2>2, <2>3, <2>4, <2>5, <2>6, ArrivesGoes
<1> QED BY <1>9, <1>15, <1>16 DEF Follows, z

LEMMA ViolationSays ==
    ASSUME NEW s, Typed(s)
    PROVE  LET z == ProtocolViolation(s)
           IN  /\ Differs(s, z, {"client", "sockets"}, {"error", "phase"}) /\ ~IsLive(z)
               /\ z.client.error = "violation" /\ z.client.phase = "error"
               /\ z.sockets = CloseTransport(s).sockets
<1> DEFINE q == CloseTransport(s)
           k == s.client.connectionId
           state == IF s.sockets[k] \in {"connecting", "open"} THEN "closing" ELSE s.sockets[k]
           ws == [s.sockets EXCEPT ![k] = state]
           word == "violation"
           phase == "error"
           c == [s.client EXCEPT !.error = word, !.phase = phase]
           z == ProtocolViolation(s)
<1>1. /\ IsState(s) /\ IsClient(s.client) /\ s.sockets \in [Connections -> SocketStates]
      /\ k \in Connections
  BY DEF Typed, ClientOK
<1>2. q = [s EXCEPT !.sockets = ws] BY <1>1 DEF CloseTransport
<1>3. ws[k] \notin {"connecting", "open"} BY <1>1
<1>4. z = [q EXCEPT !.client.error = word, !.client.phase = phase] BY DEF ProtocolViolation, Fail
<1> HIDE DEF ws, q, z
<1>5. /\ IsState(q) /\ q.sockets = ws /\ \A f \in StateFields \ {"sockets"} : q[f] = s[f]
  BY <1>1, <1>2 DEF IsState, StateFields
<1>6. q.client = s.client BY <1>5 DEF StateFields
<1>7. z = [q EXCEPT !.client = c] BY <1>4, <1>5, <1>6 DEF IsState, StateFields
<1> HIDE DEF word, phase
<1>8. /\ IsClient(c) /\ c.error = word /\ c.phase = phase
      /\ \A g \in ClientFields \ {"error", "phase"} : c[g] = s.client[g]
  BY <1>1 DEF IsClient, ClientFields
<1> HIDE DEF c
<1>9. /\ IsState(z) /\ z.client = c /\ \A f \in StateFields \ {"client"} : z[f] = q[f]
  BY <1>5, <1>7 DEF IsState, StateFields
<1>10. Differs(s, z, {"client", "sockets"}, {"error", "phase"}) BY <1>5, <1>8, <1>9 DEF Differs
<1>11. z.sockets = ws BY <1>5, <1>9 DEF StateFields
<1>12. ~IsLive(z)
  <2>1. z.client.connectionId = k BY <1>8, <1>9 DEF ClientFields
  <2> QED BY <1>3, <1>11, <2>1 DEF IsLive
<1> QED BY <1>5, <1>8, <1>9, <1>10, <1>11, <1>12 DEF word, phase, z, q

\* Nobody listens any more: what the server counts does not matter.
LEMMA DeafOK ==
    ASSUME NEW s, Core(s, {}), ~IsLive(s), NEW z, Differs(s, z, {"server"}, {}),
           ServerOK(z.server),
           z.server.controls = s.server.controls, z.server.epoch = s.server.epoch,
           z.server.stage = s.server.stage,
           DOMAIN z.server.deliveries = DOMAIN s.server.deliveries,
           \A d \in DOMAIN s.server.deliveries :
                z.server.deliveries[d].epoch = s.server.deliveries[d].epoch
    PROVE  Core(z, {}) /\ (Fresh(s) => Fresh(z)) /\ (Settled(s) => Settled(z))
<1>1. /\ IsState(z) /\ IsClient(z.client) /\ z.client = s.client
      /\ z.ledger = s.ledger /\ z.budget = s.budget /\ z.worker = s.worker
      /\ z.sockets = s.sockets /\ z.canvas = s.canvas
  BY DEF Differs, StateFields
<1>2. /\ Pending(z) = Pending(s) /\ UndrawnTiles(z) = UndrawnTiles(s)
      /\ UndrawnJobs(z) = UndrawnJobs(s) /\ Held(z, {}) = Held(s, {})
      /\ ~IsOpen(z) /\ ~IsOpen(s) /\ ~IsLive(z)
      /\ EpochsExhausted(z) = EpochsExhausted(s)
  BY <1>1 DEF Pending, UndrawnTiles, UndrawnJobs, Held, IsOpen, IsLive, EpochsExhausted
<1>3. Placed(z, {}) BY <1>1, <1>2 DEF Placed, Core
<1>4. AtWork(z, {}) BY <1>1, <1>2 DEF AtWork, Core
<1>5. Owned(z, {}) /\ Agreed(z) /\ Asked(z) BY <1>2 DEF Owned, Agreed, Asked
<1>6. Accounts(z, {}) BY <1>1, <1>2 DEF Accounts, Core
<1>7. Budgets(z, {}) BY <1>1, <1>2 DEF Budgets, Core
<1>8. Typed(z) BY <1>1 DEF Typed, Core
<1>9. Spoken(z) BY <1>1 DEF Spoken, Core
<1>10. Known(z) BY <1>1 DEF Known, Core
<1>11. Quiet(z) BY <1>1, <1>2 DEF Quiet, Core
<1>12. Sockets(z) BY <1>1 DEF Sockets, Core
<1>13. (Fresh(s) => Fresh(z)) /\ (Settled(s) => Settled(z)) BY <1>1, <1>2 DEF Fresh, Settled
<1> QED BY <1>3, <1>4, <1>5, <1>6, <1>7, <1>8, <1>9, <1>10, <1>11, <1>12, <1>13 DEF Core

LEMMA NextCopyOK ==
    ASSUME NEW s, Sound(s), IsOpen(s), NEW id \in DOMAIN s.server.deliveries,
           NEW receipt, receipt = s.server.deliveries[id].receipt,
           receipt.asks = receipt.copies, receipt.acks = 0,
           NEW then \in Seq(Sent), DOMAIN then = DOMAIN s.server.deliveries,
           \A d \in DOMAIN s.server.deliveries \ {id} : then[d] = s.server.deliveries[d],
           then[id].epoch = s.server.deliveries[id].epoch,
           then[id].receipt.copies = receipt.copies + 1, then[id].receipt.asks = receipt.asks,
           then[id].receipt.acks = 0,
           SumOfAsks(then) = SumOfAsks(s.server.deliveries),
           NEW job \in Jobs, job.connection = s.client.connectionId, job.delivery = id,
           job.epoch = s.server.deliveries[id].epoch,
           NEW p, p = Sends(s, then), NEW z, z = OnBinary(p, job)
    PROVE  /\ Sound(z) /\ Goes(s, z)
           /\ z.client.error = "violation" /\ s.client.error # "violation" =>
                ~Contains(s.client.manifestHistory, job.image)
<1> DEFINE l == AcceptRetransmission(p.ledger, id)
           q == Entered(p, l)
<1>1. /\ IsState(s) /\ IsClient(s.client) /\ ClientOK(s.client) /\ ServerOK(s.server)
      /\ LedgerOK(s.ledger) /\ Core(s, {}) /\ Fresh(s) /\ Settled(s) /\ Typed(s)
      /\ Owned(s, {}) /\ Agreed(s) /\ Placed(s, {}) /\ Budgets(s, {}) /\ Quiet(s) /\ Spoken(s)
  BY DEF Sound, Core, Typed, ClientOK
<1>2. s.client.welcome
  <2> SUFFICES ASSUME ~s.client.welcome PROVE FALSE
    OBVIOUS
  <2>1. IsLive(s) BY DEF IsLive, IsOpen
  <2>2. s.server.deliveries = <<>> BY <1>1, <2>1 DEF Quiet
  <2> QED BY <2>2
<1>3. /\ Differs(s, p, {"server"}, {}) /\ p.server.deliveries = then
      /\ p.server.controls = s.server.controls /\ p.server.epoch = s.server.epoch
      /\ p.server.stage = s.server.stage /\ ServerOK(p.server)
  BY <1>1, SendsSays
<1>4. /\ IsState(p) /\ IsClient(p.client) /\ p.client = s.client /\ p.ledger = s.ledger
      /\ p.sockets = s.sockets /\ p.canvas = s.canvas /\ p.worker = s.worker
      /\ p.budget = s.budget
  <2>1. IsState(p) /\ IsClient(p.client) /\ p.ledger = s.ledger /\ p.sockets = s.sockets
        /\ p.client = s.client /\ p.canvas = s.canvas /\ p.worker = s.worker
        /\ p.budget = s.budget
    BY <1>3 DEF Differs, StateFields
  <2> QED BY <2>1
<1>5. /\ id \in DOMAIN s.ledger.active /\ s.ledger.active[id].retryExpected
      /\ s.ledger.active[id].connection = s.client.connectionId
      /\ receipt.asks = s.ledger.active[id].retryRequests
      /\ receipt.asks <= MaxSelectiveRetries /\ receipt.asks \in Nat /\ receipt \in Counts
  <2>1. s.server.deliveries[id] \in Sent BY <1>1 DEF ServerOK
  <2>6. receipt \in Counts BY <2>1 DEF Sent
  <2>2. receipt.asks \in Nat /\ receipt \in Counts BY <2>6 DEF Counts
  <2>7. \A d \in DOMAIN s.server.deliveries :
            d \in DOMAIN s.ledger.active \/ s.server.deliveries[d].receipt.acks = 1
    BY <1>1 DEF Agreed
  <2>3. id \in DOMAIN s.ledger.active BY <2>7
  <2>4. /\ receipt.asks = s.ledger.active[id].retryRequests
        /\ receipt.asks <= MaxSelectiveRetries
        /\ receipt.copies = IF s.ledger.active[id].retryExpected THEN receipt.asks
                            ELSE receipt.asks + 1
    BY <1>1, <2>3 DEF Agreed
  <2>5. s.ledger.active[id].connection = s.client.connectionId BY <1>1, <2>3 DEF Owned
  <2> QED BY <2>2, <2>3, <2>4, <2>5
<1> HIDE DEF l, q
<1>6. CASE ~Contains(s.client.manifestHistory, job.image)
  <2> DEFINE v == ProtocolViolation(s)
  <2>1. z = ProtocolViolation(p) BY <1>2, <1>4, <1>6 DEF OnBinary, IsExpected
  <2>2. Sound(v) BY ViolationSound
  <2>3. /\ Differs(s, v, {"client", "sockets"}, {"error", "phase"}) /\ ~IsLive(v)
        /\ v.client.error = "violation" /\ v.client.phase = "error"
        /\ v.sockets = CloseTransport(s).sockets
    BY <1>1, ViolationSays
  <2>4. Typed(p) BY <1>1, <1>3, <1>4 DEF Typed
  <2>5. /\ Differs(p, z, {"client", "sockets"}, {"error", "phase"}) /\ ~IsLive(z)
        /\ z.client.error = "violation" /\ z.client.phase = "error"
        /\ z.sockets = CloseTransport(p).sockets
    BY <2>1, <2>4, ViolationSays
  <2> HIDE DEF v
  <2>6. CloseTransport(p).sockets = CloseTransport(s).sockets
    BY <1>1, <1>4 DEF CloseTransport, IsState, StateFields
  <2>7. z.client = v.client
    <3>1. \A g \in ClientFields : z.client[g] = v.client[g] BY <1>4, <2>3, <2>5 DEF Differs
    <3>2. IsClient(z.client) /\ IsClient(v.client) BY <2>3, <2>5 DEF Differs
    <3> QED BY <3>1, <3>2 DEF IsClient
  <2>8. /\ z.server = p.server /\ z.canvas = v.canvas /\ z.worker = v.worker
        /\ z.budget = v.budget /\ z.ledger = v.ledger /\ z.sockets = v.sockets
        /\ v.server = s.server
    BY <1>4, <2>3, <2>5, <2>6 DEF Differs, StateFields
  <2>9. Differs(v, z, {"server"}, {}) BY <2>5, <2>7, <2>8 DEF Differs, StateFields
  <2>10. /\ z.server.controls = v.server.controls /\ z.server.epoch = v.server.epoch
         /\ z.server.stage = v.server.stage /\ ServerOK(z.server)
         /\ DOMAIN z.server.deliveries = DOMAIN v.server.deliveries
         /\ \A d \in DOMAIN v.server.deliveries :
                z.server.deliveries[d].epoch = v.server.deliveries[d].epoch
    BY <1>3, <2>8
  <2>11. Sound(z) BY <2>2, <2>3, <2>9, <2>10, DeafOK DEF Sound
  <2>12. Goes(s, z)
    <3> DEFINE next == p.server.deliveries[id].receipt
    <3>1. /\ next.acks = 0 /\ next.asks = receipt.asks /\ next.copies = receipt.copies + 1
          /\ ReceiptAt(s, id) = receipt
          /\ DOMAIN p.server.deliveries = DOMAIN s.server.deliveries \cup {id}
          /\ \A d \in DOMAIN s.server.deliveries \ {id} :
                p.server.deliveries[d] = s.server.deliveries[d]
      BY <1>3 DEF ReceiptAt
    <3>2. Heard(p, z)
      <4>1. z.server.deliveries = p.server.deliveries BY <2>8
      <4> QED BY <4>1, NothingHeard
    <3> HIDE DEF next, l, q
    <3>3. next = p.server.deliveries[id].receipt BY DEF next
    <3>4. /\ ReceiptAt(s, id) \in Counts /\ ReceiptAt(s, id).acks = 0
          /\ ReceiptAt(s, id).copies = ReceiptAt(s, id).asks
          /\ next.asks = ReceiptAt(s, id).asks /\ next.copies = ReceiptAt(s, id).copies + 1
      BY <1>5, <3>1
    <3>5. next.acks = 0 BY <3>1
    <3>6. DOMAIN p.server.deliveries = DOMAIN s.server.deliveries \cup {id} BY <3>1
    <3>7. \A d \in DOMAIN s.server.deliveries \ {id} :
            p.server.deliveries[d] = s.server.deliveries[d]
      BY <3>1
    <3> QED BY <3>2, <3>3, <3>4, <3>5, <3>6, <3>7, ArrivesGoes
  <2> QED BY <1>6, <2>11, <2>12
<1>7. CASE Contains(s.client.manifestHistory, job.image)
  <2>1. z = OnRegistered(q, job)
    <3>1. IsExpected(p, job) /\ IsKnown(p.ledger, id)
      BY <1>4, <1>5, <1>7 DEF IsExpected, ExpectsRetry, IsActive, IsKnown
    <3>2. [[p EXCEPT !.client.received = @ + 1] EXCEPT
              !.ledger = AcceptRetransmission(@, job.delivery)] = q
      <4>1. [p EXCEPT !.client.received = @ + 1].ledger = p.ledger BY <1>4 DEF IsState, StateFields
      <4> QED BY <4>1 DEF q, Entered, l
    <3> QED BY <1>2, <1>4, <3>1, <3>2 DEF OnBinary
  <2>2. /\ Differs(p, q, {"client", "ledger"}, {"received"}) /\ q.ledger = l
        /\ q.client.received = p.client.received + 1
    <3>1. q = Entered(p, l) BY DEF q
    <3> QED BY <1>4, <3>1, EnteredSays
  <2>3. /\ LedgerOK(l) /\ l.released = s.ledger.released
        /\ DOMAIN l.active = DOMAIN s.ledger.active
        /\ \A d \in DOMAIN s.ledger.active \ {id} : l.active[d] = s.ledger.active[d]
        /\ l.active[id].connection = s.client.connectionId /\ ~l.active[id].retryExpected
        /\ l.active[id].retryRequests = receipt.asks
    <3>1. /\ LedgerOK(s.ledger) /\ id \in DOMAIN s.ledger.active
          /\ l = AcceptRetransmission(s.ledger, id)
      BY <1>1, <1>4, <1>5 DEF l
    <3> HIDE DEF l
    <3>2. /\ LedgerOK(l) /\ l.released = s.ledger.released
          /\ DOMAIN l.active = DOMAIN s.ledger.active
          /\ \A d \in DOMAIN s.ledger.active \ {id} : l.active[d] = s.ledger.active[d]
          /\ l.active[id].connection = s.ledger.active[id].connection
          /\ ~l.active[id].retryExpected
          /\ l.active[id].retryRequests = s.ledger.active[id].retryRequests
      BY <3>1, AcceptOK
    <3> QED BY <1>5, <3>2
  <2>4. q.server = p.server /\ q.client.error = s.client.error
        /\ q.client.epoch = s.client.epoch /\ q.budget = s.budget
    BY <1>4, <2>2 DEF Differs, StateFields, ClientFields
  <2>5. Taken(s, q, id)
    <3>1. Differs(s, q, {"client", "ledger", "server"}, {"received"}) BY <1>3, <2>2 DEF Differs
    <3>2. q.server.deliveries[id] = then[id] /\ q.client.received = s.client.received + 1
      BY <1>3, <1>4, <2>2, <2>4
    <3>3. q.ledger.active[id].retryRequests = receipt.asks BY <2>2, <2>3
    <3>4. LET now == q.server.deliveries[id].receipt
          IN  /\ now.acks = 0 /\ now.copies = now.asks + 1
              /\ now.asks <= MaxSelectiveRetries
              /\ now.asks = q.ledger.active[id].retryRequests
      BY <1>5, <3>2, <3>3
    <3>5. q.server.deliveries[id].epoch <= q.server.epoch BY <1>1, <1>3, <2>4, <3>2 DEF Spoken
    <3>6. /\ q.server.controls = s.server.controls /\ q.server.epoch = s.server.epoch
          /\ q.server.stage = s.server.stage /\ ServerOK(q.server)
          /\ DOMAIN q.server.deliveries = DOMAIN s.server.deliveries \cup {id}
          /\ \A d \in DOMAIN s.server.deliveries \ {id} :
                q.server.deliveries[d] = s.server.deliveries[d]
          /\ SumOfAsks(q.server.deliveries) = SumOfAsks(s.server.deliveries)
      BY <1>3, <2>4
    <3>7. /\ LedgerOK(q.ledger) /\ q.ledger.released = s.ledger.released
          /\ DOMAIN q.ledger.active = DOMAIN s.ledger.active \cup {id}
          /\ \A d \in DOMAIN s.ledger.active \ {id} : q.ledger.active[d] = s.ledger.active[d]
          /\ q.ledger.active[id].connection = s.client.connectionId
          /\ ~q.ledger.active[id].retryExpected
      BY <1>5, <2>2, <2>3
    <3> QED BY <3>1, <3>2, <3>4, <3>5, <3>6, <3>7 DEF Taken
  <2>6. \A j \in Held(s, {}) : j.delivery # id BY <1>1, <1>5 DEF Owned
  <2>7. Core(q, {job}) BY <1>1, <1>2, <2>5, <2>6, TakenOK
  <2>8. Fresh(q) /\ Settled(q) /\ q.client.welcome
    <3>1. Differs(s, q, {"client", "ledger", "server"}, {"received"}) BY <2>5 DEF Taken
    <3>2. Fresh(q) /\ q.client.welcome = s.client.welcome BY <1>1, <3>1, CountersFresh DEF Counters
    <3>3. /\ q.client.phase = s.client.phase /\ q.client.pending = s.client.pending
          /\ q.client.pendingPresentations = s.client.pendingPresentations
      BY <3>1 DEF Differs, ClientFields
    <3> QED BY <1>1, <1>2, <3>2, <3>3 DEF Settled, Pending
  <2>9. job \notin DOMAIN q.budget.reservations
    <3>1. job \notin Pending(s) BY <2>6 DEF Held
    <3> QED BY <1>1, <2>4, <3>1 DEF Budgets
  <2>10. job.epoch \in Nat /\ job.epoch <= q.client.epoch
    <3>1. s.server.deliveries[id] \in Sent BY <1>1 DEF ServerOK
    <3>2. /\ s.server.deliveries[id].epoch \in Nat
          /\ s.server.deliveries[id].epoch <= s.server.epoch
          /\ s.server.epoch <= s.client.epoch
          /\ s.server.epoch \in Nat /\ s.client.epoch \in Nat
      <4>1. s.server.deliveries[id].epoch \in 1..MaxEpoch BY <3>1 DEF Sent
      <4>2. s.server.epoch \in 0..MaxEpoch /\ s.client.epoch \in 0..MaxEpoch
        BY <1>1 DEF ServerOK, ClientOK
      <4> QED BY <1>1, <4>1, <4>2 DEF Spoken
    <3> QED BY <2>4, <3>2
  <2>11. Sound(z) /\ Follows(q, z) BY <2>1, <2>7, <2>8, <2>9, <2>10, OnRegisteredOK
  <2>12. Goes(s, z)
    <3> DEFINE next == q.server.deliveries[id].receipt
    <3>1. /\ next.acks = 0 /\ next.asks = receipt.asks /\ next.copies = receipt.copies + 1
          /\ ReceiptAt(s, id) = receipt
          /\ DOMAIN q.server.deliveries = DOMAIN s.server.deliveries \cup {id}
          /\ \A d \in DOMAIN s.server.deliveries \ {id} :
                q.server.deliveries[d] = s.server.deliveries[d]
      BY <1>3, <2>4 DEF ReceiptAt
    <3>2. Heard(q, z) BY <2>11 DEF Follows
    <3> HIDE DEF next
    <3>3. next = q.server.deliveries[id].receipt BY DEF next
    <3>4. /\ ReceiptAt(s, id) \in Counts /\ ReceiptAt(s, id).acks = 0
          /\ ReceiptAt(s, id).copies = ReceiptAt(s, id).asks
          /\ next.asks = ReceiptAt(s, id).asks /\ next.copies = ReceiptAt(s, id).copies + 1
      BY <1>5, <3>1
    <3>5. next.acks = 0 BY <3>1
    <3>6. DOMAIN q.server.deliveries = DOMAIN s.server.deliveries \cup {id} BY <3>1
    <3>7. \A d \in DOMAIN s.server.deliveries \ {id} :
            q.server.deliveries[d] = s.server.deliveries[d]
      BY <3>1
    <3> QED BY <3>2, <3>3, <3>4, <3>5, <3>6, <3>7, ArrivesGoes
  <2>13. z.client.error = "violation" => s.client.error = "violation" BY <2>4, <2>11 DEF Follows
  <2> QED BY <2>11, <2>12, <2>13
<1> QED BY <1>6, <1>7
--------------------------------------------------------------------------------
\* The actions

\* What every step does: to z, where the receipts went on or start over, and
\* which accuses nobody of what he did not do.
Steps(z) ==
    /\ Becomes(z)
    /\ Sound(z)
    /\ Goes(Now, z) \/ z.server.deliveries = <<>>
    /\ Accuses => SelectedWithoutOpen \/ ForgottenImage

LEMMA BecomesSays ==
    ASSUME NEW z, IsState(z), Becomes(z)
    PROVE  Now' = z
<1>1. /\ client' = z.client /\ ledger' = z.ledger /\ budget' = z.budget /\ canvas' = z.canvas
      /\ worker' = z.worker /\ sockets' = z.sockets /\ server' = z.server
  BY DEF Becomes
<1> QED BY <1>1 DEF Now, IsState, StateFields

LEMMA NowFields ==
    /\ Now.client = client /\ Now.ledger = ledger /\ Now.budget = budget
    /\ Now.canvas = canvas /\ Now.worker = worker /\ Now.sockets = sockets
    /\ Now.server = server /\ IsState(Now)
BY DEF Now, IsState, StateFields

\* A step that accuses nobody.
LEMMA FollowsSteps ==
    ASSUME NEW z, Becomes(z), Sound(z), Follows(Now, z)
    PROVE  Steps(z)
<1>1. IsState(z) BY SoundFields
<1>2. client' = z.client /\ Now.client = client BY DEF Becomes, Now
<1>3. ~Accuses BY <1>2 DEF Follows, Accuses
<1>4. Goes(Now, z) BY HeardGoes DEF Follows
<1> QED BY <1>3, <1>4 DEF Steps

\* A delivery that is not confirmed is one of the ids.
LEMMA KnownIds ==
    ASSUME NEW s, Core(s, {}), IsOpen(s), NEW id \in DOMAIN s.server.deliveries,
           s.server.deliveries[id].receipt.acks = 0
    PROVE  s.client.connectionId \in Connections /\ id \in Deliveries
<1>1. \A d \in DOMAIN s.server.deliveries :
            d \in DOMAIN s.ledger.active \/ s.server.deliveries[d].receipt.acks = 1
  BY DEF Core, Agreed
<1>2. id \in DOMAIN s.ledger.active BY <1>1
<1> QED BY <1>2 DEF Core, Typed, ClientOK, LedgerOK

LEMMA ReceiveTileSteps ==
    ASSUME Inv, NEW tile \in Tiles, ReceiveTile(tile)
    PROVE  \E z : Steps(z)
<1> DEFINE s == Now
           id == Len(server.deliveries) + 1
           e == server.epoch
           image == server.controls[e].image
           receipt == [copies |-> 1, asks |-> 0, acks |-> 0]
           delivery == [epoch |-> e, image |-> image, tile |-> tile, receipt |-> receipt]
           job == JobOf(id, delivery)
           then == Append(server.deliveries, delivery)
           p == [s EXCEPT !.server.deliveries = Append(@, delivery)]
           z == OnBinary(p, job)
<1>1. Sound(s) /\ IsOpen(s) /\ s.server = server /\ s.client = client /\ IsState(s)
  BY NowFields DEF Inv, ReceiveTile, Receives
<1>2. /\ server.stage = "sending" /\ id <= MaxDeliveries[client.connectionId]
      /\ Becomes(z)
  BY DEF ReceiveTile, Receives
<1>3. p = Sends(s, then) BY <1>1 DEF Sends, IsState, StateFields
<1>4. /\ client.connectionId \in 1..MaxConnections /\ e \in 1..MaxEpoch
      /\ image \in Images
  BY <1>1, <1>2, SendingKnown
<1>5. /\ receipt \in Counts /\ receipt.copies = 1 /\ receipt.asks = 0 /\ receipt.acks = 0
  BY DEF Counts
<1> HIDE DEF receipt
<1>6. /\ delivery \in Sent /\ delivery.epoch = e /\ delivery.image = image
      /\ delivery.tile = tile /\ delivery.receipt = receipt
  <2> HIDE DEF image, e
  <2> QED BY <1>4, <1>5 DEF Sent
<1> HIDE DEF delivery
<1>7. /\ then \in Seq(Sent) /\ DOMAIN then = DOMAIN server.deliveries \cup {id}
      /\ id \notin DOMAIN server.deliveries /\ id \in Nat /\ id >= 1
      /\ \A d \in DOMAIN server.deliveries : then[d] = server.deliveries[d]
      /\ then[id] = delivery
      /\ SumOfAsks(then) = SumOfAsks(server.deliveries)
  <2>1. ServerOK(server) /\ delivery.receipt.asks = 0 BY <1>1, <1>5, <1>6, SoundFields
  <2> QED BY <1>6, <2>1, AppendedAsks
<1>8. id \in Deliveries BY <1>2, <1>4, <1>7, DeliveryIds
<1>9. /\ job.connection = client.connectionId /\ job.delivery = id /\ job.epoch = e
      /\ job.image = image /\ job \in Jobs
  <2>1. job = [connection |-> client.connectionId, delivery |-> id, epoch |-> e,
               image |-> image, tile |-> tile]
    BY <1>6 DEF JobOf
  <2>2. client.connectionId \in Connections BY <1>4 DEF Connections
  <2> HIDE DEF job, id, image, e
  <2> QED BY <1>4, <1>8, <2>1, <2>2 DEF Jobs
<1> HIDE DEF p, job, then, id, s
<1>10. /\ Sound(z) /\ Goes(s, z)
       /\ z.client.error = "violation" => s.client.error = "violation"
  <2>1. /\ then[id].epoch = s.server.epoch
        /\ then[id].receipt.copies = 1 /\ then[id].receipt.asks = 0 /\ then[id].receipt.acks = 0
        /\ s.server.stage = "sending"
        /\ job.image = s.server.controls[s.server.epoch].image /\ job.epoch = s.server.epoch
        /\ job.connection = s.client.connectionId /\ job.delivery = id /\ job \in Jobs
    BY <1>1, <1>2, <1>5, <1>6, <1>7, <1>9
  <2>2. /\ then \in Seq(Sent) /\ id \in Deliveries /\ id \notin DOMAIN s.server.deliveries
        /\ DOMAIN then = DOMAIN s.server.deliveries \cup {id}
        /\ \A d \in DOMAIN s.server.deliveries : then[d] = s.server.deliveries[d]
        /\ SumOfAsks(then) = SumOfAsks(s.server.deliveries)
    BY <1>1, <1>7, <1>8
  <2> QED BY <1>1, <1>3, <2>1, <2>2, FirstCopyOK
<1>11. ~Accuses
  <2>1. client' = z.client BY <1>2 DEF Becomes
  <2> QED BY <1>1, <1>10, <2>1 DEF Accuses
<1> QED BY <1>2, <1>10, <1>11 DEF Steps, s

LEMMA ReceiveRetransmissionSteps ==
    ASSUME Inv, NEW id \in DOMAIN server.deliveries, ReceiveRetransmission(id)
    PROVE  \E z : Steps(z)
<1> DEFINE s == Now
           ds == server.deliveries
           receipt == ds[id].receipt
           job == JobOf(id, ds[id])
           then == [ds EXCEPT ![id].receipt.copies = @ + 1]
           p == [s EXCEPT !.server.deliveries[id].receipt.copies = @ + 1]
           z == OnBinary(p, job)
<1>1. /\ Sound(s) /\ IsOpen(s) /\ s.server = server /\ s.client = client /\ IsState(s)
      /\ ServerOK(server) /\ Core(s, {})
  BY NowFields, SoundFields DEF Inv, ReceiveRetransmission, Receives, Sound
<1>2. receipt.asks = receipt.copies /\ receipt.acks = 0 /\ Becomes(z) /\ CopyIsDue(id)
  BY DEF ReceiveRetransmission, Receives, CopyIsDue
<1>3. p = Sends(s, then) BY <1>1 DEF Sends, IsState, StateFields
<1>4. ds \in Seq(Sent) /\ ds[id] \in Sent /\ ds = [d \in 1..Len(ds) |-> ds[d]] /\ id \in 1..Len(ds)
  BY <1>1 DEF ServerOK
<1>5. receipt \in Counts /\ ds[id].epoch \in 1..MaxEpoch /\ ds[id].image \in Images /\ ds[id].tile \in Tiles
  BY <1>4 DEF Sent
<1>6. /\ \A d \in DOMAIN ds \ {id} : then[d] = ds[d]
      /\ then[id] = [ds[id] EXCEPT !.receipt = [receipt EXCEPT !.copies = @ + 1]]
      /\ DOMAIN then = DOMAIN ds
  BY <1>4
<1> HIDE DEF then
<1>7. /\ [receipt EXCEPT !.copies = @ + 1] \in Counts
      /\ [receipt EXCEPT !.copies = @ + 1].copies = receipt.copies + 1
      /\ [receipt EXCEPT !.copies = @ + 1].asks = receipt.asks
      /\ [receipt EXCEPT !.copies = @ + 1].acks = receipt.acks
  <2> HIDE DEF receipt
  <2> QED BY <1>5 DEF Counts
<1>8. /\ then[id] \in Sent /\ then[id].epoch = ds[id].epoch
      /\ then[id].receipt = [receipt EXCEPT !.copies = @ + 1]
  BY <1>4, <1>6, <1>7 DEF Sent
<1>9. then \in Seq(Sent)
  <2>1. \A d \in 1..Len(ds) : then[d] \in Sent BY <1>4, <1>6, <1>8
  <2>2. then = [d \in DOMAIN then |-> then[d]] /\ DOMAIN then = 1..Len(ds) BY <1>4, <1>6 DEF then
  <2> QED BY <1>4, <2>1, <2>2, SeqDef
<1>10. SumOfAsks(then) = SumOfAsks(ds)
  <2>1. AsksOf(then) = AsksOf(ds) BY <1>6, <1>7, <1>8 DEF AsksOf
  <2> QED BY <1>6, <2>1 DEF SumOfAsks
<1>11. /\ job.connection = client.connectionId /\ job.delivery = id
       /\ job.epoch = ds[id].epoch /\ job.image = ds[id].image /\ job \in Jobs
  <2>1. client.connectionId \in Connections /\ id \in Deliveries BY <1>1, <1>2, KnownIds
  <2> QED BY <1>5, <2>1 DEF JobOf, Jobs
<1> HIDE DEF p, job, s, receipt
<1>12. /\ Sound(z) /\ Goes(s, z)
       /\ z.client.error = "violation" /\ s.client.error # "violation" =>
            ~Contains(s.client.manifestHistory, job.image)
  <2>1. /\ receipt = s.server.deliveries[id].receipt /\ id \in DOMAIN s.server.deliveries
        /\ DOMAIN then = DOMAIN s.server.deliveries
        /\ \A d \in DOMAIN s.server.deliveries \ {id} : then[d] = s.server.deliveries[d]
        /\ then[id].epoch = s.server.deliveries[id].epoch
        /\ then[id].receipt.copies = receipt.copies + 1 /\ then[id].receipt.asks = receipt.asks
        /\ then[id].receipt.acks = 0
        /\ SumOfAsks(then) = SumOfAsks(s.server.deliveries)
        /\ job.connection = s.client.connectionId
        /\ job.epoch = s.server.deliveries[id].epoch
    BY <1>1, <1>2, <1>6, <1>7, <1>8, <1>10, <1>11 DEF receipt
  <2>2. z = OnBinary(p, job) OBVIOUS
  <2>3. /\ Sound(s) /\ IsOpen(s) /\ receipt.asks = receipt.copies /\ receipt.acks = 0
        /\ then \in Seq(Sent) /\ p = Sends(s, then) /\ job \in Jobs /\ job.delivery = id
    BY <1>1, <1>2, <1>3, <1>9, <1>11
  <2> HIDE DEF ds, z
  <2> QED BY <2>1, <2>2, <2>3, NextCopyOK
<1>13. Accuses => ForgottenImage
  <2>1. client' = z.client BY <1>2 DEF Becomes
  <2> QED BY <1>1, <1>2, <1>11, <1>12, <2>1 DEF Accuses, ForgottenImage
<1> QED BY <1>2, <1>12, <1>13 DEF Steps, s

\* What the server took, before it answers.
LEMMA ServerAnswersOK ==
    ASSUME Inv, NEW stage \in Stages, NEW epoch \in DOMAIN server.controls, epoch > server.epoch,
           stage = "sending" => server.controls[epoch].type = "VIEW"
    PROVE  LET z == ServerAnswers(epoch, stage)
           IN  /\ Sound(z) /\ Follows(Now, z) /\ z.client = client /\ IsOpen(z) = IsOpen(Now)
               /\ z.server.epoch = epoch /\ z.server.stage = stage
               /\ z.server.controls = server.controls /\ epoch \in Nat /\ epoch <= client.epoch
<1> DEFINE z == ServerAnswers(epoch, stage)
<1>1. /\ Sound(Now) /\ Now.server = server /\ Now.client = client /\ IsState(Now)
      /\ ServerOK(server) /\ Spoken(Now)
  BY NowFields, SoundFields DEF Inv
<1>2. epoch \in Nat /\ epoch <= client.epoch /\ epoch # 0 BY <1>1 DEF ServerOK, Spoken
<1>3. z = Answering(Now, stage, epoch)
  BY <1>1 DEF ServerAnswers, ServerSays, IsState, StateFields, Answering
<1> HIDE DEF z
<1>4. /\ Sound(z) /\ Follows(Now, z) /\ z.client = Now.client /\ z.sockets = Now.sockets
      /\ z.server.epoch = epoch /\ z.server.stage = stage
      /\ z.server.controls = Now.server.controls
  <2>1. Now.client.epoch = client.epoch /\ Now.server.epoch = server.epoch BY <1>1
  <2> QED BY <1>1, <1>2, <1>3, <2>1, AnswersOK
<1> QED BY <1>1, <1>2, <1>4 DEF IsOpen, z

LEMMA ServerSaysOK ==
    ASSUME Inv, NEW stage \in {"idle", "over"}
    PROVE  LET z == ServerSays(stage)
           IN  /\ Sound(z) /\ Follows(Now, z) /\ z.client = client /\ IsOpen(z) = IsOpen(Now)
               /\ z.server.epoch = server.epoch /\ server.epoch \in Nat
               /\ server.epoch <= client.epoch
<1> DEFINE z == ServerSays(stage)
<1>1. /\ Sound(Now) /\ Now.server = server /\ Now.client = client /\ IsState(Now)
      /\ ServerOK(server) /\ Spoken(Now)
  BY NowFields, SoundFields DEF Inv
<1>2. server.epoch \in Nat /\ server.epoch <= client.epoch /\ stage \in Stages /\ stage # "sending"
  BY <1>1 DEF ServerOK, Spoken, Stages
<1>3. [server EXCEPT !.stage = stage] = [server EXCEPT !.stage = stage, !.epoch = server.epoch]
  BY <1>1 DEF ServerOK
<1>4. z = Answering(Now, stage, server.epoch)
  <2>1. z = [Now EXCEPT !.server = [server EXCEPT !.stage = stage]]
    BY <1>1 DEF ServerSays, IsState, StateFields
  <2> QED BY <1>1, <1>3, <2>1 DEF Answering
<1> HIDE DEF z
<1>5. /\ Sound(z) /\ Follows(Now, z) /\ z.client = Now.client /\ z.sockets = Now.sockets
      /\ z.server.epoch = server.epoch
  BY <1>1, <1>2, <1>4, AnswersOK
<1> QED BY <1>1, <1>2, <1>5 DEF IsOpen, z

\* An answer the client takes.
LEMMA AnswerFollows ==
    ASSUME Inv, NEW q, Sound(q), Follows(Now, q), NEW z, Becomes(z), Sound(z), Follows(q, z)
    PROVE  \E w : Steps(w)
<1>1. Follows(Now, z) BY FollowsTwice
<1> QED BY <1>1, FollowsSteps

LEMMA ReceiveWelcomeSteps ==
    ASSUME Inv, ReceiveWelcome
    PROVE  \E z : Steps(z)
<1> DEFINE q == ServerSays("idle")
           z == OnWelcome(q)
<1>1. IsOpen(Now) /\ Becomes(z) BY DEF ReceiveWelcome, Receives
<1>2. Sound(q) /\ Follows(Now, q) /\ IsOpen(q) BY <1>1, ServerSaysOK
<1> HIDE DEF q
<1>3. Sound(z) /\ Follows(q, z) BY <1>2, OnWelcomeOK
<1> QED BY <1>1, <1>2, <1>3, AnswerFollows

LEMMA OpensLast ==
    ASSUME NEW controls \in Seq(Control), controls # <<>>, LastOf(controls).type = "OPEN"
    PROVE  LET opens == {e \in DOMAIN controls : controls[e].type = "OPEN"}
           IN  opens # {} /\ Max(opens) = Len(controls)
<1> DEFINE opens == {e \in DOMAIN controls : controls[e].type = "OPEN"}
<1>1. Len(controls) \in Nat /\ Len(controls) \in DOMAIN controls /\ DOMAIN controls = 1..Len(controls)
  OBVIOUS
<1>2. Len(controls) \in opens /\ opens \in SUBSET (1..Len(controls)) /\ opens \in SUBSET Int
  BY <1>1 DEF LastOf
<1>3. IsFiniteSet(opens)
  <2>1. IsFiniteSet(1..Len(controls)) BY <1>1, FS_Interval
  <2> QED BY <1>2, <2>1, FS_Subset
<1>4. Max(opens) \in opens /\ \A y \in opens : Max(opens) >= y
  <2> HIDE DEF opens
  <2> QED BY <1>2, <1>3, GreatestNumber
<1>5. Max(opens) \in 1..Len(controls) /\ Max(opens) >= Len(controls) BY <1>2, <1>4
<1> HIDE DEF opens
<1>6. Max(opens) = Len(controls) BY <1>1, <1>5
<1> QED BY <1>2, <1>6 DEF opens

LEMMA ReceiveManifestSteps ==
    ASSUME Inv, NEW e \in DOMAIN server.controls, ReceiveManifest(e)
    PROVE  \E z : Steps(z)
<1> DEFINE q == ServerAnswers(e, "idle")
           image == server.controls[e].image
           z == OnManifest(q, e, image)
<1>1. /\ IsOpen(Now) /\ Becomes(z) /\ e > server.epoch /\ server.controls[e].type = "OPEN"
      /\ "idle" \in Stages /\ "idle" # "sending"
  BY DEF ReceiveManifest, Receives, Untaken, Stages
<1>2. /\ Sound(q) /\ Follows(Now, q) /\ q.client = client /\ IsOpen(q) = IsOpen(Now)
      /\ q.server.epoch = e /\ q.server.stage = "idle" /\ q.server.controls = server.controls
  BY <1>1, ServerAnswersOK
<1>3. server.controls \in Seq(Control) /\ server.controls[e] \in Control /\ e \in 1..Len(server.controls)
  <2>1. ServerOK(q.server) BY <1>2, SoundFields
  <2> QED BY <1>2, <2>1 DEF ServerOK
<1>4. server.controls[e] = [type |-> "OPEN", image |-> image] BY <1>1, <1>3 DEF Control
<1> HIDE DEF q, image
<1>5. Sound(z) /\ Heard(q, z) /\ (Follows(q, z) \/ Unopened(q, image))
  <2>1. IsOpen(q) /\ q.server.controls[e] = [type |-> "OPEN", image |-> image]
        /\ e \in DOMAIN q.server.controls
    BY <1>1, <1>2, <1>3, <1>4
  <2> QED BY <1>2, <2>1, OnManifestOK
<1>6. CASE Follows(q, z) BY <1>1, <1>2, <1>5, <1>6, AnswerFollows
<1>7. CASE Unopened(q, image)
  <2>1. Goes(Now, z)
    <3>1. Heard(Now, z) BY <1>2, <1>5, HeardTwice DEF Follows
    <3> QED BY <3>1, HeardGoes
  <2>2. SelectedWithoutOpen
    <3>1. /\ EpochsExhausted(Now) /\ image # client.selected /\ server.controls # <<>>
          /\ LastOf(server.controls) = [type |-> "OPEN", image |-> image]
      BY <1>2, <1>7, NowFields DEF Unopened, EpochsExhausted
    <3>2. LastOf(server.controls).type = "OPEN" /\ LastOf(server.controls).image = image BY <3>1
    <3> QED BY <1>3, <3>1, <3>2, OpensLast DEF SelectedWithoutOpen, LastOf
  <2> QED BY <1>1, <1>5, <2>1, <2>2 DEF Steps
<1> QED BY <1>5, <1>6, <1>7

LEMMA ReceivePlanSteps ==
    ASSUME Inv, NEW e \in DOMAIN server.controls, NEW level \in 0..1, ReceivePlan(e, level)
    PROVE  \E z : Steps(z)
<1> DEFINE q == ServerAnswers(e, "sending")
           z == OnPlan(q, e, level)
<1>1. /\ IsOpen(Now) /\ Becomes(z) /\ e > server.epoch /\ server.controls[e].type = "VIEW"
      /\ "sending" \in Stages /\ level \in {0, 1}
  BY DEF ReceivePlan, Receives, Untaken, Stages
<1>2. /\ Sound(q) /\ Follows(Now, q) /\ IsOpen(q) = IsOpen(Now)
      /\ q.server.controls = server.controls
  BY <1>1, ServerAnswersOK
<1> HIDE DEF q
<1>3. Sound(z) /\ Follows(q, z) BY <1>1, <1>2, OnPlanOK
<1> QED BY <1>1, <1>2, <1>3, AnswerFollows

LEMMA ReceiveErrorSteps ==
    ASSUME Inv, NEW q, Sound(q), Follows(Now, q), NEW epoch \in Nat, epoch <= q.client.epoch,
           Becomes(OnError(q, epoch))
    PROVE  \E z : Steps(z)
<1> DEFINE z == OnError(q, epoch)
<1>1. Sound(z) /\ Follows(q, z) BY OnErrorOK
<1> QED BY <1>1, AnswerFollows

LEMMA ServerSteps ==
    ASSUME Inv, Server
    PROVE  \E z : Steps(z)
<1>1. /\ Sound(Now) /\ Now.client = client /\ Now.server = server /\ Follows(Now, Now)
      /\ ServerOK(server) /\ Spoken(Now) /\ ClientOK(client)
  BY NowFields, SoundFields, SilentFollows DEF Inv
<1>2. client.epoch \in Nat /\ 0 \in Nat /\ 0 <= client.epoch BY <1>1, ClientAssumption DEF ClientOK
<1>3. CASE ReceiveWelcome BY <1>3, ReceiveWelcomeSteps
<1>4. CASE ReceiveHelloError
  <2> DEFINE q == ServerSays("over")
             o == 0
  <2>1. Becomes(OnError(q, o)) /\ o \in Nat /\ o <= client.epoch
    BY <1>2, <1>4 DEF ReceiveHelloError, Receives
  <2>2. Sound(q) /\ Follows(Now, q) /\ q.client = client BY ServerSaysOK
  <2> HIDE DEF q, o
  <2> QED BY <2>1, <2>2, ReceiveErrorSteps
<1>5. ASSUME NEW e \in DOMAIN server.controls, ReceiveManifest(e)
      PROVE  \E z : Steps(z)
  BY <1>5, ReceiveManifestSteps
<1>6. ASSUME NEW e \in DOMAIN server.controls, ReceiveRefusal(e)
      PROVE  \E z : Steps(z)
  <2> DEFINE q == ServerAnswers(e, "idle")
  <2>1. /\ Becomes(OnError(q, e)) /\ e > server.epoch /\ "idle" \in Stages
        /\ "idle" # "sending"
    BY <1>6 DEF ReceiveRefusal, Receives, Untaken, Stages
  <2>2. /\ Sound(q) /\ Follows(Now, q) /\ q.client = client
        /\ e \in Nat /\ e <= client.epoch
    BY <2>1, ServerAnswersOK
  <2> HIDE DEF q
  <2> QED BY <2>1, <2>2, ReceiveErrorSteps
<1>7. ASSUME NEW e \in DOMAIN server.controls, NEW level \in 0..1, ReceivePlan(e, level)
      PROVE  \E z : Steps(z)
  BY <1>7, ReceivePlanSteps
<1>8. CASE ReceiveReadError
  <2> DEFINE q == ServerSays("idle")
  <2>1. Becomes(OnError(q, server.epoch)) BY <1>8 DEF ReceiveReadError, Receives
  <2>2. /\ Sound(q) /\ Follows(Now, q) /\ q.client = client
        /\ server.epoch \in Nat /\ server.epoch <= client.epoch
    BY ServerSaysOK
  <2> HIDE DEF q
  <2> QED BY <2>1, <2>2, ReceiveErrorSteps
<1>9. CASE ReceiveDone
  <2> DEFINE q == ServerSays("idle")
             z == OnDone(q, server.epoch)
  <2>1. Becomes(z) BY <1>9 DEF ReceiveDone, Receives
  <2>2. Sound(q) /\ Follows(Now, q) /\ q.server.epoch = server.epoch BY ServerSaysOK
  <2> HIDE DEF q
  <2>3. Sound(z) /\ Follows(q, z) BY <2>2, OnDoneOK
  <2> QED BY <2>1, <2>2, <2>3, AnswerFollows
<1>10. ASSUME NEW tile \in Tiles, ReceiveTile(tile)
       PROVE  \E z : Steps(z)
  BY <1>10, ReceiveTileSteps
<1>11. ASSUME NEW id \in DOMAIN server.deliveries, ReceiveRetransmission(id)
       PROVE  \E z : Steps(z)
  BY <1>11, ReceiveRetransmissionSteps
<1>12. ASSUME NEW id \in DOMAIN server.deliveries, ReceiveRecoveryError(id)
       PROVE  \E z : Steps(z)
  <2> DEFINE epoch == server.deliveries[id].epoch
  <2>1. Becomes(OnError(Now, epoch)) BY <1>12 DEF ReceiveRecoveryError, Receives
  <2>2. server.deliveries[id] \in Sent BY <1>1 DEF ServerOK
  <2>3. epoch \in Nat /\ server.epoch \in Nat BY <1>1, <2>2, ClientAssumption DEF Sent, ServerOK
  <2>4. epoch <= server.epoch /\ server.epoch <= client.epoch BY <1>1 DEF Spoken
  <2> HIDE DEF epoch
  <2>5. epoch <= Now.client.epoch BY <1>1, <1>2, <2>3, <2>4
  <2> QED BY <1>1, <2>1, <2>3, <2>5, ReceiveErrorSteps
<1> QED BY <1>3, <1>4, <1>5, <1>6, <1>7, <1>8, <1>9, <1>10, <1>11, <1>12 DEF Server

LEMMA SocketsSound ==
    ASSUME NEW s, Sound(s), NEW z, Differs(s, z, {"sockets"}, {}),
           z.sockets \in [Connections -> SocketStates], Sockets(z), IsLive(z) => IsLive(s),
           IsOpen(z) => IsOpen(s)
    PROVE  Sound(z) /\ Follows(s, z)
<1>1. z.client = s.client /\ z.canvas = s.canvas /\ z.server = s.server BY DEF Differs, StateFields
<1>2. Base(s, {}) /\ Asked(s) BY SoundFields
<1>3. Core(z, {}) BY <1>2, SocketsOK, CoreIsBase
<1>4. Fresh(z) /\ Settled(z) BY <1>1 DEF Sound, Fresh, Settled, Pending
<1> QED BY <1>1, <1>3, <1>4, SilentFollows DEF Sound

\* The socket opens: nothing happened on it yet.
LEMMA OpensOK ==
    ASSUME NEW s, Sound(s), s.sockets[s.client.connectionId] = "connecting",
           NEW z, Differs(s, z, {"sockets"}, {}),
           z.sockets = [s.sockets EXCEPT ![s.client.connectionId] = "open"]
    PROVE  Sound(z) /\ Follows(s, z)
<1> DEFINE c == s.client.connectionId
<1>1. /\ z.client = s.client /\ z.canvas = s.canvas /\ z.server = s.server /\ IsState(z)
      /\ z.ledger = s.ledger /\ z.budget = s.budget /\ z.worker = s.worker
  BY DEF Differs, StateFields
<1>2. /\ Typed(s) /\ Placed(s, {}) /\ AtWork(s, {}) /\ Accounts(s, {}) /\ Budgets(s, {})
      /\ Spoken(s) /\ Known(s) /\ Quiet(s) /\ Sockets(s) /\ c \in Connections
      /\ s.sockets \in [Connections -> SocketStates]
  BY DEF Sound, Core, Typed, ClientOK
<1>3. /\ ~s.client.welcome /\ IsLive(s) /\ s.sockets[c] = "connecting" BY <1>2 DEF Sockets, IsLive
<1>4. /\ Pending(s) = {} /\ DOMAIN s.canvas.entries = {} /\ s.ledger = EmptyLedger
      /\ s.server.controls = <<>> /\ s.server.deliveries = <<>>
      /\ \A j \in JobsOf(s.worker) : j.connection # c
  BY <1>2, <1>3 DEF Quiet
<1>5. /\ z.sockets \in [Connections -> SocketStates] /\ z.sockets[c] = "open"
      /\ \A d \in Connections : d # c => z.sockets[d] = s.sockets[d]
  BY <1>2 DEF SocketStates
<1>6. Sockets(z)
  <2>1. 0 \in Connections /\ c \in Int /\ s.sockets[0] = "none"
    BY <1>2, ClientAssumption DEF Connections, Sockets
  <2> QED BY <1>1, <1>2, <1>3, <1>5, <2>1 DEF Sockets, Connections
<1>7. Held(z, {}) = {} /\ UndrawnTiles(z) = {} /\ Pending(z) = {}
  <2>1. UndrawnTiles(z) = {} BY <1>1, <1>4 DEF UndrawnTiles, Unpresented
  <2> QED BY <1>1, <1>4, <2>1 DEF Held, UndrawnJobs, Pending
<1>8. Placed(z, {}) /\ AtWork(z, {})
  BY <1>1, <1>2, <1>4, <1>7 DEF Placed, AtWork, Pending, UndrawnJobs, UndrawnTiles
<1>9. /\ DOMAIN z.ledger.active = {} /\ Elements(z.ledger.released) = {}
      /\ DOMAIN z.server.deliveries = {}
  BY <1>1, <1>4 DEF EmptyLedger, Elements
<1>10. Owned(z, {}) /\ Agreed(z) BY <1>7, <1>9 DEF Owned, Agreed
<1>11. Accounts(z, {}) /\ Budgets(z, {})
  BY <1>1, <1>2, <1>3 DEF Accounts, Budgets, UndrawnTiles, Pending
<1>12. Typed(z) /\ Spoken(z) /\ Known(z) /\ Asked(z)
  BY <1>1, <1>2, <1>4, <1>5 DEF Typed, Spoken, Known, Asked
<1>13. Quiet(z) BY <1>1, <1>2, <1>3 DEF Quiet, Pending
<1>14. Fresh(z) /\ Settled(z) BY <1>1 DEF Sound, Fresh, Settled, Pending
<1> QED BY <1>1, <1>6, <1>8, <1>10, <1>11, <1>12, <1>13, <1>14, SilentFollows DEF Core, Sound

LEMMA TransportOpensSteps ==
    ASSUME Inv, TransportOpens
    PROVE  \E z : Steps(z)
<1> DEFINE z == [Now EXCEPT !.sockets = [sockets EXCEPT ![client.connectionId] = "open"]]
<1>1. Becomes(z) BY DEF TransportOpens, Becomes, Now
<1>2. /\ Differs(Now, z, {"sockets"}, {}) /\ Sound(Now) /\ Now.client = client
      /\ z.sockets = [sockets EXCEPT ![client.connectionId] = "open"] /\ Now.sockets = sockets
  BY NowFields, SoundFields DEF Inv, Differs, IsState, StateFields
<1>3. sockets[client.connectionId] = "connecting" BY DEF TransportOpens
<1> HIDE DEF z
<1>4. Sound(z) /\ Follows(Now, z) BY <1>2, <1>3, OpensOK
<1> QED BY <1>1, <1>4, FollowsSteps

\* A socket of this connection or of an old one comes nearer to its end.
LEMMA ClosingOK ==
    ASSUME NEW s, Sound(s), NEW d \in Connections, NEW state \in {"closing", "closed"},
           s.sockets[d] # "none"
    PROVE  LET z == [s EXCEPT !.sockets[d] = state]
           IN  /\ Sound(z) /\ Follows(s, z) /\ z.client = s.client /\ z.server = s.server
               /\ z.sockets[d] = state
<1> DEFINE ws == [s.sockets EXCEPT ![d] = state]
           z == [s EXCEPT !.sockets[d] = state]
<1>1. /\ IsState(s) /\ IsClient(s.client) /\ s.sockets \in [Connections -> SocketStates]
      /\ Sockets(s) /\ s.client.connectionId \in Connections
  BY SoundFields DEF Sound, Core, Typed, ClientOK
<1>2. z = [s EXCEPT !.sockets = ws] BY <1>1
<1>3. /\ ws \in [Connections -> SocketStates] /\ ws[d] = state
      /\ \A c \in Connections : c # d => ws[c] = s.sockets[c]
  BY <1>1 DEF SocketStates
<1> HIDE DEF ws, z
<1>4. /\ IsState(z) /\ z.sockets = ws /\ \A f \in StateFields \ {"sockets"} : z[f] = s[f]
  BY <1>1, <1>2 DEF IsState, StateFields
<1>5. z.client = s.client /\ z.server = s.server BY <1>4 DEF StateFields
<1>6. Differs(s, z, {"sockets"}, {}) BY <1>1, <1>4, <1>5 DEF Differs
<1>7. 0 \in Connections BY ClientAssumption DEF Connections
<1>8. Sockets(z) BY <1>1, <1>3, <1>4, <1>5, <1>7 DEF Sockets
<1>9. (IsLive(z) => IsLive(s)) /\ (IsOpen(z) => IsOpen(s))
  BY <1>1, <1>3, <1>4, <1>5 DEF IsLive, IsOpen
<1>10. Sound(z) /\ Follows(s, z) BY <1>3, <1>4, <1>6, <1>8, <1>9, SocketsSound
<1> QED BY <1>3, <1>4, <1>5, <1>10 DEF z

LEMMA PeerClosesSteps ==
    ASSUME Inv, PeerCloses
    PROVE  \E z : Steps(z)
<1> DEFINE c == client.connectionId
           z == [Now EXCEPT !.sockets[c] = "closing"]
<1>1. Becomes(z) /\ sockets[c] = "open" BY DEF PeerCloses, Becomes, Now
<1>2. Sound(Now) /\ c \in Connections /\ Now.sockets = sockets
  BY NowFields, SoundFields DEF Inv, ClientOK
<1>3. Sound(z) /\ Follows(Now, z) BY <1>1, <1>2, ClosingOK
<1> QED BY <1>1, <1>3, FollowsSteps

\* The worker keeps what is pending.
LEMMA WorkerSound ==
    ASSUME NEW s, Sound(s), NEW w, WorkerOK(w), JobsOf(w) \subseteq JobsOf(s.worker),
           Pending(s) \subseteq JobsOf(w), NEW z, z = [s EXCEPT !.worker = w]
    PROVE  Sound(z) /\ Follows(s, z)
<1>1. Typed(s) /\ Base(s, {}) /\ Asked(s) /\ IsState(s) /\ IsClient(s.client) BY SoundFields
<1>2. /\ IsState(z) /\ z.worker = w /\ \A f \in StateFields \ {"worker"} : z[f] = s[f]
  BY <1>1 DEF IsState, StateFields
<1>3. /\ z.client = s.client /\ z.ledger = s.ledger /\ z.budget = s.budget /\ z.canvas = s.canvas
      /\ z.sockets = s.sockets /\ z.server = s.server
  BY <1>2 DEF StateFields
<1>4. /\ Pending(z) = Pending(s) /\ UndrawnTiles(z) = UndrawnTiles(s)
      /\ UndrawnJobs(z) = UndrawnJobs(s) /\ Held(z, {}) = Held(s, {}) /\ IsOpen(z) = IsOpen(s)
      /\ IsLive(z) = IsLive(s) /\ EpochsExhausted(z) = EpochsExhausted(s)
  BY <1>3 DEF Pending, UndrawnTiles, UndrawnJobs, Held, IsOpen, IsLive, EpochsExhausted
<1>5. Tiled(z, {})
  <2>1. Placed(s, {}) /\ AtWork(s, {}) /\ Owned(s, {}) /\ Agreed(s) /\ Accounts(s, {}) /\ Budgets(s, {})
    BY <1>1 DEF Base, Tiled
  <2>2. Placed(z, {}) BY <1>3, <1>4, <2>1 DEF Placed
  <2>3. AtWork(z, {}) BY <1>2, <1>3, <1>4, <2>1 DEF AtWork
  <2>4. Owned(z, {}) BY <1>3, <1>4, <2>1 DEF Owned
  <2>5. Agreed(z) BY <1>3, <1>4, <2>1 DEF Agreed
  <2>6. Accounts(z, {}) /\ Budgets(z, {}) BY <1>3, <1>4, <2>1 DEF Accounts, Budgets
  <2> QED BY <2>2, <2>3, <2>4, <2>5, <2>6 DEF Tiled
<1>6. Typed(z) /\ Spoken(z) /\ Known(z) /\ Asked(z) /\ Sockets(z)
  BY <1>1, <1>2, <1>3, <1>4 DEF Base, Typed, Spoken, Known, Asked, Sockets
<1>7. Quiet(z) BY <1>1, <1>2, <1>3, <1>4 DEF Base, Quiet
<1>8. Fresh(z) /\ Settled(z) BY <1>3, <1>4 DEF Sound, Fresh, Settled
<1> QED BY <1>3, <1>5, <1>6, <1>7, <1>8, CoreIsBase, SilentFollows DEF Sound, Base

LEMMA DecodeEndsSteps ==
    ASSUME Inv, NEW job \in worker.active, NEW ok \in BOOLEAN, DecodeEnds(job, ok)
    PROVE  \E z : Steps(z)
<1> DEFINE s == Now
           w == DecodingEnds(worker, job, ok)
           z == [s EXCEPT !.worker = w]
<1>1. Becomes(z) BY DEF DecodeEnds, Becomes, Now
<1>2. Sound(s) /\ s.worker = worker /\ Typed(s) /\ Base(s, {}) BY NowFields, SoundFields DEF Inv
<1>3. WorkerOK(w) /\ JobsOf(w) = JobsOf(s.worker)
  <2>1. WorkerOK(worker) BY <1>2 DEF Typed
  <2> QED BY <1>2, <2>1, DecodingEndsOK
<1>4. Pending(s) \subseteq JobsOf(w) BY <1>2, <1>3 DEF Base, Tiled, AtWork
<1> HIDE DEF w, s
<1>5. Sound(z) /\ Follows(s, z) BY <1>2, <1>3, <1>4, WorkerSound
<1> QED BY <1>1, <1>5, FollowsSteps DEF s

LEMMA PaintSteps ==
    ASSUME Inv, Paint
    PROVE  \E z : Steps(z)
<1> DEFINE s == Now
           z == [EndPresentations(s, DOMAIN s.canvas.entries) EXCEPT !.canvas = PaintAll(@)]
<1>1. Sound(s) /\ s.canvas = canvas BY NowFields DEF Inv
<1>2. Becomes(z) BY <1>1 DEF Paint
<1> HIDE DEF s
<1>3. /\ Core(z, {}) /\ Kept(s, z) /\ z.canvas = PaintAll(s.canvas) /\ Settled(z)
  BY <1>1, PaintOK DEF Sound
<1> HIDE DEF z
<1>4. /\ DOMAIN z.canvas.entries = DOMAIN s.canvas.entries
      /\ z.canvas.manifest = s.canvas.manifest
      /\ \A t \in DOMAIN z.canvas.entries : z.canvas.entries[t].job = s.canvas.entries[t].job
  BY <1>1, <1>3, PaintAllOK DEF Sound, Core, Typed
<1>5. z.client.manifest = s.client.manifest /\ z.client.viewport = s.client.viewport
      /\ z.client.epoch = s.client.epoch
  BY <1>3 DEF Kept, ClientFields
<1>6. Fresh(z) BY <1>1, <1>4, <1>5 DEF Sound, Fresh
<1>7. Sound(z) /\ Follows(s, z) BY <1>3, <1>6, KeptFollows DEF Sound
<1> QED BY <1>2, <1>7, FollowsSteps DEF s

--------------------------------------------------------------------------------
\* The answers of the worker

\* The job of an answer leaves the worker.
LEMMA AnsweredOK ==
    ASSUME NEW s, Core(s, {}), Fresh(s), NEW job \in Pending(s),
           NEW t, Differs(s, t, {"client", "worker"}, {"pending"}),
           WorkerOK(t.worker), JobsOf(t.worker) = JobsOf(s.worker) \ {job},
           t.client.pending = Restrict(s.client.pending, DOMAIN s.client.pending \ {job})
    PROVE  Core(t, {job}) /\ Fresh(t) /\ t.client.welcome /\ job \in Jobs
<1>1. /\ Typed(s) /\ Placed(s, {}) /\ AtWork(s, {}) /\ Owned(s, {}) /\ Agreed(s) /\ Accounts(s, {})
      /\ Budgets(s, {}) /\ Spoken(s) /\ Quiet(s) /\ ClientOK(s.client)
  BY DEF Core, Typed
<1>2. /\ IsState(t) /\ t.ledger = s.ledger /\ t.budget = s.budget /\ t.canvas = s.canvas
      /\ t.sockets = s.sockets /\ t.server = s.server
  BY DEF Differs, StateFields
<1>3. IsClient(t.client) /\ \A f \in ClientFields \ {"pending"} : t.client[f] = s.client[f]
  BY DEF Differs
<1>4. /\ t.client.connectionId = s.client.connectionId /\ t.client.welcome = s.client.welcome
      /\ t.client.received = s.client.received /\ t.client.terminal = s.client.terminal
      /\ t.client.releases = s.client.releases
      /\ t.client.pendingPresentations = s.client.pendingPresentations
      /\ t.client.manifest = s.client.manifest /\ t.client.epoch = s.client.epoch
      /\ t.client.viewport = s.client.viewport
  BY <1>3 DEF ClientFields
<1>5. /\ Pending(t) = Pending(s) \ {job} /\ IsFiniteSet(Pending(s)) /\ Pending(s) \in SUBSET Jobs
      /\ IsOpen(t) = IsOpen(s) /\ UndrawnJobs(t) = UndrawnJobs(s) /\ UndrawnTiles(t) = UndrawnTiles(s)
  BY <1>1, <1>2, <1>4 DEF Pending, Restrict, ClientOK, IsOpen, UndrawnJobs, UndrawnTiles
<1>6. Held(t, {job}) = Held(s, {}) BY <1>5 DEF Held
<1>7. /\ IsFiniteSet(Pending(t)) /\ IsFiniteSet({job})
      /\ Cardinality({job}) = 1 /\ Cardinality(Pending(t)) = Cardinality(Pending(s)) - 1
      /\ Cardinality(Pending(s)) \in Nat
  <2>1. IsFiniteSet(Pending(s)) BY <1>5
  <2>2. /\ IsFiniteSet(Pending(s) \ {job})
        /\ Cardinality(Pending(s) \ {job}) = Cardinality(Pending(s)) - 1
    BY <2>1, FS_RemoveElement
  <2>3. Cardinality(Pending(s)) \in Nat BY <2>1, FS_CardinalityType
  <2>4. IsFiniteSet({job}) /\ Cardinality({job}) = 1 BY FS_Singleton
  <2> QED BY <1>5, <2>2, <2>3, <2>4
<1>8. s.client.welcome BY <1>1 DEF Quiet
<1>9. Typed(t)
  <2>1. t.client.pending \in [DOMAIN t.client.pending -> Kinds] BY <1>1, <1>5 DEF ClientOK, Restrict
  <2>2. ClientOK(t.client) BY <1>1, <1>3, <1>5, <1>7, <2>1 DEF ClientOK, ClientFields, Pending
  <2> QED BY <1>1, <1>2, <2>2 DEF Typed
<1>10. Tiled(t, {job})
  <2>1. Placed(t, {job}) BY <1>1, <1>2, <1>4, <1>5, <1>6, <1>7, SMTT(30), ZenonT(60) DEF Placed
  <2>2. AtWork(t, {job}) BY <1>1, <1>4, <1>5 DEF AtWork
  <2>3. Owned(t, {job}) /\ Agreed(t)
    <3>1. Owned(s, {}) /\ Agreed(s) BY <1>1
    <3>2. /\ t.ledger = s.ledger /\ t.server = s.server /\ IsOpen(t) = IsOpen(s)
          /\ t.client.connectionId = s.client.connectionId
      BY <1>2, <1>4, <1>5
    <3>3. Agreed(t) BY <3>1, <3>2 DEF Agreed
    <3>4. Owned(t, {job}) BY <1>6, <3>1, <3>2 DEF Owned
    <3> QED BY <3>3, <3>4
  <2>4. Accounts(t, {job})
    <3>1. Cardinality({}) = 0 /\ s.client.terminal \in Nat /\ s.client.pendingPresentations \in Nat
      BY <1>1, FS_EmptySet DEF ClientOK
    <3> QED BY <1>1, <1>2, <1>4, <1>5, <1>7, <3>1 DEF Accounts
  <2>5. Budgets(t, {job}) BY <1>1, <1>2, <1>5 DEF Budgets
  <2> QED BY <2>1, <2>2, <2>3, <2>4, <2>5 DEF Tiled
<1>11. Core(t, {job})
  <2>1. Differs(s, t, {"client", "ledger", "budget", "worker", "server"},
                {"pending", "phase", "received", "terminal", "releases"})
    BY DEF Differs
  <2>2. \A d \in DOMAIN t.server.deliveries : t.server.deliveries[d].epoch <= t.server.epoch
    BY <1>1, <1>2 DEF Spoken
  <2> QED BY <1>2, <1>8, <1>9, <1>10, <2>1, <2>2, RestOK
<1> QED BY <1>2, <1>4, <1>5, <1>8, <1>11 DEF Fresh

\* What onWorker does of a job reaches y.
Handled(t, y) ==
    Core(y, {}) /\ Fresh(y) /\ Goes(t, y) /\ y.client.error = t.client.error

LEMMA DiscardHandled ==
    ASSUME NEW t, NEW q, NEW job, Core(q, {job}), Fresh(q), q.client.welcome,
           job \notin DOMAIN q.budget.reservations,
           q.server = t.server, q.client.error = t.client.error
    PROVE  Handled(t, Discard(q, job)) /\ Handled(t, OnFailed(q, job))
<1> DEFINE y == Discard(q, job)
           x == OnFailed(q, job)
<1>1. /\ Core(y, {}) /\ Heard(q, y)
      /\ Differs(q, y, {"client", "ledger", "server"}, {"terminal", "releases"})
  BY DiscardOK
<1>2. /\ Core(x, {}) /\ Goes(q, x)
      /\ Differs(q, x, {"client", "ledger", "server"}, {"terminal", "releases"})
  BY OnFailedOK
<1> HIDE DEF x, y
<1>3. /\ y.client.error = q.client.error /\ Fresh(y)
      /\ x.client.error = q.client.error /\ Fresh(x)
  <2> DEFINE F == {"client", "ledger", "server"}
             G == {"terminal", "releases"}
  <2>1. "canvas" \notin F /\ G \subseteq Counters BY DEF Counters
  <2>2. Differs(q, y, F, G) /\ Differs(q, x, F, G) BY <1>1, <1>2
  <2> HIDE DEF F, G
  <2> QED BY <2>1, <2>2, CountersFresh
<1>4. Goes(q, y) BY <1>1, HeardGoes
<1>5. Goes(t, y) /\ Goes(t, x) BY <1>2, <1>4 DEF Goes, ReceiptAt
<1> QED BY <1>1, <1>2, <1>3, <1>5 DEF Handled, x, y

\* v is the canvas of s with an entry for the bitmap of job.
Stores(s, v, job, kind) ==
    /\ CanvasOK(v) /\ v.entries[job.tile].kind = kind
    /\ DOMAIN v.entries = DOMAIN s.canvas.entries \cup {job.tile}
    /\ \A t \in DOMAIN v.entries \ {job.tile} : v.entries[t] = s.canvas.entries[t]

\* The budget b of v, where job left that of s.
Budgeted(s, v, job, b) ==
    /\ Reserved(b) /\ DOMAIN b.reservations = DOMAIN s.budget.reservations \ {job}
    /\ b.contextBytes = KeptBytes(v.entries, "context")
    /\ b.detailBytes = KeptBytes(v.entries, "detail")
    /\ b.contextBytes + b.transientBytes <= TransientBudgetBytes
    /\ b.detailBytes <= DetailBudgetBytes

LEMMA StoredBytes ==
    ASSUME NEW s, NEW job, Core(s, {job}), NEW kind \in Kinds, CommitFits(s.budget, job, kind),
           NEW v, Stores(s, v, job, kind),
           NEW T, T = {job.tile} \cap DOMAIN s.canvas.entries,
           NEW b, b = RemovedFromBudget(Commit(s.budget, job, kind), s.canvas.entries, T)
    PROVE  Budgeted(s, v, job, b)
<1> DEFINE e == s.canvas.entries
           tile == job.tile
           B == Bytes[tile]
           p == Commit(s.budget, job, kind)
           x == IF kind = "context" THEN B ELSE 0
           y == IF kind = "context" THEN 0 ELSE B
           rest == Restrict(e, DOMAIN e \ T)
<1>0. /\ CanvasOK(v) /\ job.tile \in DOMAIN v.entries /\ v.entries[job.tile].kind = kind
      /\ DOMAIN v.entries = DOMAIN s.canvas.entries \cup {job.tile}
      /\ \A t \in DOMAIN v.entries \ {job.tile} : v.entries[t] = s.canvas.entries[t]
  BY DEF Stores
<1>1. /\ CanvasOK(s.canvas) /\ Budgets(s, {job}) /\ Reserved(s.budget) /\ IsBudget(s.budget)
      /\ DOMAIN e \in SUBSET Tiles /\ IsFiniteSet(DOMAIN e) /\ e \in [DOMAIN e -> Entry]
  BY CoreReserved DEF Core, Typed, CanvasOK
<1>2. /\ Reserved(p) /\ DOMAIN p.reservations = DOMAIN s.budget.reservations \ {job}
      /\ job \in DOMAIN s.budget.reservations /\ B \in Nat
      /\ p.transientBytes = s.budget.transientBytes - B
      /\ p.contextBytes = s.budget.contextBytes + x
      /\ p.detailBytes = s.budget.detailBytes + y
      /\ kind = "detail" => s.budget.detailBytes + B <= DetailBudgetBytes
  <2>1. s.budget.contextBytes \in Nat /\ s.budget.detailBytes \in Nat BY <1>1 DEF IsBudget
  <2> HIDE DEF p
  <2> QED BY <1>1, <2>1, CommitOK DEF p
<1>3. x \in Nat /\ y \in Nat /\ b = RemovedFromBudget(p, e, T) BY <1>2
<1> HIDE DEF p
<1>4. /\ KeptBytes(e, "context") \in Nat /\ KeptBytes(e, "detail") \in Nat
      /\ s.budget.contextBytes = KeptBytes(e, "context")
      /\ s.budget.detailBytes = KeptBytes(e, "detail")
      /\ s.budget.contextBytes + s.budget.transientBytes <= TransientBudgetBytes
      /\ s.budget.detailBytes <= DetailBudgetBytes /\ s.budget.transientBytes \in Nat
  BY <1>1, KeptFinite DEF Budgets, IsBudget
<1>5. KeepsBytes(p, e, x, y) /\ IsBudget(p)
  <2> HIDE DEF x, y
  <2> QED BY <1>2, <1>4 DEF KeepsBytes, Reserved
<1>6. /\ KeepsBytes(b, rest, x, y)
      /\ b.reservations = p.reservations /\ b.transientBytes = p.transientBytes
      /\ b.contextBytes <= p.contextBytes /\ b.detailBytes <= p.detailBytes
  <2> DEFINE U == T
             q == RemovedFromBudget(p, e, U)
  <2>0. b = q BY <1>3
  <2>1. /\ U \in SUBSET DOMAIN e /\ IsFiniteSet(DOMAIN e) /\ DOMAIN e \in SUBSET Tiles
        /\ e \in [DOMAIN e -> Entry] /\ x \in Nat /\ y \in Nat /\ KeepsBytes(p, e, x, y)
    BY <1>1, <1>3, <1>5
  <2> HIDE DEF x, y, e, U
  <2>2. /\ KeepsBytes(q, Restrict(e, DOMAIN e \ U), x, y)
        /\ q.reservations = p.reservations /\ q.transientBytes = p.transientBytes
        /\ q.contextBytes <= p.contextBytes /\ q.detailBytes <= p.detailBytes
    BY <2>1, RemovedFromBudgetOK, SMTT(60)
  <2> HIDE DEF q
  <2> QED BY <2>0, <2>2 DEF U
<1>7. \A k : KeptBytes(v.entries, k) = IF kind = k THEN B + KeptBytes(rest, k) ELSE KeptBytes(rest, k)
  <2> DEFINE w == Restrict(v.entries, DOMAIN v.entries \ {tile})
  <2>1. \A k : KeptTiles(w, k) = KeptTiles(rest, k) BY <1>0 DEF KeptTiles, Restrict
  <2>2. \A k : KeptBytes(w, k) = KeptBytes(rest, k) BY <2>1 DEF KeptBytes
  <2>3. IsFiniteSet(DOMAIN v.entries) /\ DOMAIN v.entries \in SUBSET Tiles BY <1>0 DEF CanvasOK
  <2>4. \A k : KeptBytes(v.entries, k) = IF v.entries[tile].kind = k THEN B + KeptBytes(w, k)
                                         ELSE KeptBytes(w, k)
    <3> HIDE DEF w
    <3> QED BY <1>0, <2>3, KeptWithout DEF w
  <2> QED BY <1>0, <2>2, <2>4
<1>8. KeptBytes(rest, "context") \in Nat /\ KeptBytes(rest, "detail") \in Nat
  <2>1. IsFiniteSet(DOMAIN rest) /\ DOMAIN rest \in SUBSET Tiles BY <1>1, FS_Subset DEF Restrict
  <2> QED BY <2>1, KeptFinite
<1>9. /\ b.contextBytes = KeptBytes(rest, "context") + x
      /\ b.detailBytes = KeptBytes(rest, "detail") + y /\ IsBudget(b)
  BY <1>6 DEF KeepsBytes
<1>10. b.contextBytes = KeptBytes(v.entries, "context") /\ b.detailBytes = KeptBytes(v.entries, "detail")
  <2>1. kind \in {"context", "detail"} BY DEF Kinds
  <2> HIDE DEF rest, B
  <2> QED BY <1>2, <1>7, <1>8, <1>9, <2>1
<1>11. Reserved(b) BY <1>2, <1>6, <1>9 DEF Reserved, ReservedBytes
<1>12. /\ b.contextBytes + b.transientBytes <= TransientBudgetBytes
       /\ b.detailBytes <= DetailBudgetBytes
  <2>1. /\ b.contextBytes \in Nat /\ b.detailBytes \in Nat /\ b.transientBytes \in Nat
        /\ TransientBudgetBytes \in Nat /\ DetailBudgetBytes \in Int
        /\ kind \in {"context", "detail"}
    BY <1>9, BudgetAssumption DEF IsBudget, DetailBudgetBytes, Kinds
  <2> HIDE DEF B
  <2> QED BY <1>2, <1>4, <1>6, <2>1
<1> QED BY <1>2, <1>6, <1>10, <1>11, <1>12 DEF Budgeted

\* A bitmap is stored: the tile that was there leaves.
Counted(s, p) == [[s EXCEPT !.budget = p] EXCEPT !.client.pendingPresentations = @ + 1]

LEMMA CountedSays ==
    ASSUME NEW s, IsState(s), IsClient(s.client), NEW p, NEW c, c = Counted(s, p)
    PROVE  Counting(s, c, 1) /\ c.budget = p
<1> DEFINE n == s.client.pendingPresentations + 1
           d == [s.client EXCEPT !.pendingPresentations = n]
<1>1. c = [s EXCEPT !.client = d, !.budget = p] BY DEF Counted, IsState, StateFields
<1> HIDE DEF n
<1>2. /\ IsClient(d) /\ d.pendingPresentations = n
      /\ \A g \in ClientFields \ {"pendingPresentations"} : d[g] = s.client[g]
  BY DEF IsClient, ClientFields
<1> HIDE DEF d
<1>3. /\ IsState(c) /\ c.client = d /\ c.budget = p
      /\ \A f \in StateFields \ {"client", "budget"} : c[f] = s[f]
  BY <1>1 DEF IsState, StateFields
<1> QED BY <1>2, <1>3 DEF Counting, n

\* w is the canvas v with the bitmap of job, not presented yet, and a frame requested.
Storing(v, w, job, kind) ==
    /\ CanvasOK(w) /\ DOMAIN w.entries = DOMAIN v.entries \cup {job.tile}
    /\ w.entries[job.tile] = [job |-> job, kind |-> kind, presented |-> FALSE]
    /\ \A t \in DOMAIN w.entries \ {job.tile} : w.entries[t] = v.entries[t]
    /\ w.frame = TRUE /\ w.manifest = v.manifest

LEMMA StoreEntryOK ==
    ASSUME NEW v, CanvasOK(v), NEW job \in Jobs, NEW kind \in Kinds
    PROVE  Storing(v, StoreEntry(v, job, kind), job, kind)
<1> DEFINE w == StoreEntry(v, job, kind)
           entry == [job |-> job, kind |-> kind, presented |-> FALSE]
           stored == [t \in DOMAIN v.entries \cup {job.tile} |->
                        IF t = job.tile THEN entry ELSE v.entries[t]]
<1>1. w = [manifest |-> v.manifest, currentEpoch |-> v.currentEpoch, entries |-> stored,
           frame |-> TRUE]
  <2>1. v = [manifest |-> v.manifest, currentEpoch |-> v.currentEpoch, entries |-> v.entries,
             frame |-> v.frame]
    BY DEF CanvasOK
  <2>2. w = [[v EXCEPT !.entries = stored] EXCEPT !.frame = TRUE] BY DEF StoreEntry, SchedulePaint
  <2> HIDE DEF w, stored
  <2> QED BY <2>1, <2>2
<1>2. entry \in Entry /\ job.tile \in Tiles BY DEF Entry, Jobs
<1>3. /\ IsFiniteSet(DOMAIN v.entries) /\ DOMAIN v.entries \in SUBSET Tiles
      /\ v.entries \in [DOMAIN v.entries -> Entry]
  BY DEF CanvasOK
<1> HIDE DEF entry
<1>4. /\ DOMAIN stored = DOMAIN v.entries \cup {job.tile} /\ stored[job.tile] = entry
      /\ \A t \in DOMAIN stored \ {job.tile} : stored[t] = v.entries[t]
      /\ stored \in [DOMAIN stored -> Entry] /\ DOMAIN stored \in SUBSET Tiles
  BY <1>2, <1>3
<1>5. IsFiniteSet(DOMAIN stored) BY <1>3, <1>4, FS_AddElement
<1> HIDE DEF w, stored
<1>6. Storing(v, w, job, kind) BY <1>1, <1>4, <1>5 DEF CanvasOK, entry, Storing
<1> QED BY <1>6 DEF w

LEMMA StoreHandled ==
    ASSUME NEW s, NEW job \in Jobs, Core(s, {job}), Fresh(s), s.client.welcome, NEW kind \in Kinds,
           CommitFits(s.budget, job, kind), Accepts(s.canvas, job), ~IsOutdated(s, job)
    PROVE  Handled(s, CompositorStore(Counted(s, Commit(s.budget, job, kind)), job, kind))
<1> DEFINE e == s.canvas.entries
           T == {job.tile} \cap DOMAIN e
           U == Unpresented(s.canvas, T)
           X == {job}
           v == StoreEntry(s.canvas, job, kind)
           p == Commit(s.budget, job, kind)
           b == RemovedFromBudget(p, e, T)
           c == Counted(s, p)
           r == EndPresentations(c, T)
           z == CompositorStore(c, job, kind)
           n == Cardinality(X)
<1>1. /\ Typed(s) /\ Placed(s, X) /\ Owned(s, X) /\ Agreed(s) /\ Budgets(s, X)
      /\ IsState(s) /\ IsClient(s.client) /\ CanvasOK(s.canvas)
  BY DEF Core, Typed, ClientOK
<1>2. /\ CanvasOK(v) /\ DOMAIN v.entries = DOMAIN e \cup {job.tile}
      /\ v.entries[job.tile] = [job |-> job, kind |-> kind, presented |-> FALSE]
      /\ \A t \in DOMAIN v.entries \ {job.tile} : v.entries[t] = e[t]
      /\ v.frame = TRUE /\ v.manifest = s.canvas.manifest
  <2> HIDE DEF e, T, U, X, p, b, c, r, z, n
  <2>1. Storing(s.canvas, v, job, kind) BY <1>1, StoreEntryOK
  <2> HIDE DEF v
  <2> QED BY <2>1 DEF Storing, e
<1> HIDE DEF v
<1>3. Budgeted(s, v, job, b)
  <2> DEFINE S == T
  <2>1. /\ S = {job.tile} \cap DOMAIN s.canvas.entries /\ Stores(s, v, job, kind)
        /\ b = RemovedFromBudget(Commit(s.budget, job, kind), s.canvas.entries, S)
    BY <1>2 DEF Stores
  <2> HIDE DEF S, b, e, p
  <2> QED BY <2>1, StoredBytes
<1> HIDE DEF b
<1>4. n \in Nat /\ n = 1 /\ Counting(s, c, n) /\ c.budget = p
  <2>1. n = 1 BY FS_Singleton
  <2> HIDE DEF n, c, p
  <2>2. Counting(s, c, 1) /\ c.budget = p BY <1>1, CountedSays DEF c
  <2> QED BY <2>1, <2>2
<1>5. c.canvas = s.canvas
  <2> HIDE DEF c, n
  <2> QED BY <1>4 DEF Counting, StateFields
<1> HIDE DEF n, c
<1>6. U \in SUBSET UndrawnTiles(s) /\ T \subseteq DOMAIN e
  BY <1>1 DEF UndrawnTiles, Unpresented, CanvasOK
<1>7. Ended(c, r, U)
  <2>1. MayEnd(c, U)
    <3> HIDE DEF U
    <3> QED BY <1>4, <1>6, CoreMayEnd
  <2>2. MayEnd(c, Unpresented(c.canvas, T)) BY <1>5, <2>1
  <2> HIDE DEF T
  <2>3. Ended(c, EndPresentations(c, T), Unpresented(c.canvas, T)) BY <2>2, EndPresentationsSays
  <2> QED BY <1>5, <2>3
<1>8. IsState(r) /\ r.canvas = s.canvas /\ r.budget = p
  <2> HIDE DEF r, U, p
  <2> QED BY <1>4, <1>5, <1>7 DEF Ended, SameElsewhere, StateFields
<1>9. z = WithCanvas(r, v, b)
  <2>1. z = [r EXCEPT !.canvas = StoreEntry(r.canvas, job, kind),
                      !.budget = RemovedFromBudget(r.budget, c.canvas.entries, T)]
    BY <1>5 DEF CompositorStore
  <2> QED BY <1>5, <1>8, <2>1 DEF WithCanvas, v, b
<1> HIDE DEF z, r, p
<1>10. Changed(s, r, z, v, U, n) /\ z.budget = b
  <2> HIDE DEF U
  <2> QED BY <1>4, <1>7, <1>9, EndedChanges
<1>11. Redrawn(s, v, U, X)
  <2>1. {x.tile : x \in X} = {job.tile} /\ job.tile \in Tiles BY DEF Jobs
  <2>2. UndrawnTiles(s) \ U = UndrawnTiles(s) \ {job.tile} BY DEF UndrawnTiles, Unpresented
  <2>3. Unpresented(v, Tiles) = (UndrawnTiles(s) \ {job.tile}) \cup {job.tile}
    BY <1>2, <2>1 DEF UndrawnTiles, Unpresented
  <2>4. \A t \in UndrawnTiles(s) \ {job.tile} : v.entries[t].job = s.canvas.entries[t].job
    BY <1>2 DEF UndrawnTiles, Unpresented
  <2>5. v.entries[job.tile].job = job BY <1>2
  <2>6. \A t \in DOMAIN v.entries :
            \/ t \in DOMAIN s.canvas.entries /\ v.entries[t].job = s.canvas.entries[t].job
            \/ \E x \in X : t = x.tile /\ v.entries[t].job = x
    BY <1>2, <2>5
  <2> HIDE DEF U
  <2> QED BY <1>2, <2>1, <2>2, <2>3, <2>4, <2>5, <2>6 DEF Redrawn
<1> HIDE DEF U, T
<1>12. /\ Pending(z) = Pending(s) /\ z.client.error = s.client.error
       /\ z.client.manifest = s.client.manifest /\ z.client.epoch = s.client.epoch
       /\ z.client.viewport = s.client.viewport
  BY <1>10, ChangedFields
<1>13. IsBudget(b) /\ Budgets(z, {})
  <2>1. z.canvas = v BY <1>10 DEF Changed
  <2>2. /\ IsBudget(b) /\ b.transientBytes = ReservedBytes(b)
        /\ \A j \in DOMAIN b.reservations : b.reservations[j] = Bytes[j.tile]
    BY <1>3 DEF Reserved, Budgeted
  <2>3. DOMAIN b.reservations \subseteq Pending(z) \cup {}
    BY <1>1, <1>3, <1>12 DEF Budgets, Budgeted
  <2> QED BY <1>3, <1>10, <2>1, <2>2, <2>3 DEF Budgets, Budgeted
<1>14. Core(z, {})
  <2>1. X \ X = {} /\ X \in SUBSET X OBVIOUS
  <2>2. Changed(s, r, z, v, U, Cardinality(X)) BY <1>10 DEF n
  <2>3. Core(s, X) /\ Budgets(z, X \ X) /\ IsBudget(z.budget) BY <1>10, <1>13, <2>1
  <2> HIDE DEF X
  <2>4. Core(z, X \ X) BY <1>6, <1>11, <2>1, <2>2, <2>3, ChangedCore
  <2> QED BY <2>1, <2>4
<1>15. Fresh(z)
  <2>1. z.canvas = v BY <1>10 DEF Changed
  <2>2. job.epoch = s.client.epoch /\ job.image = s.client.manifest /\ s.canvas.manifest # NoImage
    BY DEF IsOutdated, Accepts
  <2> QED BY <1>2, <1>12, <2>1, <2>2 DEF Fresh
<1>16. Goes(s, z)
  <2>1. Heard(s, z) BY <1>1, <1>6, <1>10, ChangedHeard
  <2> QED BY <2>1, HeardGoes
<1> QED BY <1>12, <1>14, <1>15, <1>16 DEF Handled, z, c, p

\* The bytes reserved for the job are given back.
LEMMA GivenBackHandled ==
    ASSUME NEW t, NEW job, Core(t, {job}), Fresh(t), t.client.welcome, NEW b, Reserved(b),
           DOMAIN b.reservations = DOMAIN t.budget.reservations \ {job},
           b.contextBytes = t.budget.contextBytes, b.detailBytes = t.budget.detailBytes,
           b.transientBytes <= t.budget.transientBytes,
           NEW q, q = [t EXCEPT !.budget = b]
    PROVE  Handled(t, Discard(q, job)) /\ Handled(t, OnFailed(q, job))
<1>1. DOMAIN b.reservations \subseteq DOMAIN t.budget.reservations OBVIOUS
<1>2. /\ Core(q, {job}) /\ q.budget = b /\ q.client = t.client /\ q.server = t.server /\ Fresh(q)
  BY <1>1, SmallerBudgetOK
<1>3. /\ q.client.welcome /\ job \notin DOMAIN q.budget.reservations
      /\ q.client.error = t.client.error
  BY <1>2
<1> QED BY <1>2, <1>3, DiscardHandled

LEMMA OnDecodedHandled ==
    ASSUME NEW t, NEW job \in Jobs, Core(t, {job}), Fresh(t), t.client.welcome, NEW kind \in Kinds
    PROVE  Handled(t, OnDecoded(t, job, kind))
<1> DEFINE now == t.budget
           free == Cancel(now, job)
           done == Commit(now, job, kind)
           less == RemoveStored(done, kind, Bytes[job.tile])
           z == OnDecoded(t, job, kind)
<1>1. Reserved(now) /\ IsState(t) BY CoreReserved DEF Core, Typed
<1>2. /\ z = IF IsOutdated(t, job) THEN Discard([t EXCEPT !.budget = free], job)
             ELSE IF ~CommitFits(now, job, kind) THEN Discard([t EXCEPT !.budget = done], job)
             ELSE IF Accepts(t.canvas, job) THEN CompositorStore(Counted(t, done), job, kind)
             ELSE Discard([t EXCEPT !.budget = less], job)
  <2>1. [[t EXCEPT !.budget = done] EXCEPT !.budget = RemoveStored(@, kind, Bytes[job.tile])]
            = [t EXCEPT !.budget = less]
    <3> HIDE DEF done
    <3> QED BY <1>1 DEF IsState, StateFields
  <2> QED BY <2>1 DEF OnDecoded, Counted
<1> HIDE DEF z
<1>3. CASE IsOutdated(t, job)
  <2> HIDE DEF now
  <2>1. /\ Reserved(free) /\ DOMAIN free.reservations = DOMAIN now.reservations \ {job}
        /\ free.contextBytes = now.contextBytes /\ free.detailBytes = now.detailBytes
        /\ free.transientBytes <= now.transientBytes
    BY <1>1, CancelOK
  <2> HIDE DEF free
  <2>2. Handled(t, Discard([t EXCEPT !.budget = free], job)) BY <2>1, GivenBackHandled DEF now
  <2> QED BY <1>2, <1>3, <2>2 DEF z
<1>4. /\ Reserved(done) /\ DOMAIN done.reservations = DOMAIN now.reservations \ {job}
      /\ done.transientBytes <= now.transientBytes
      /\ ~CommitFits(now, job, kind) =>
            done.contextBytes = now.contextBytes /\ done.detailBytes = now.detailBytes
      /\ CommitFits(now, job, kind) =>
            /\ job \in DOMAIN now.reservations /\ Bytes[job.tile] \in Nat
            /\ done.contextBytes = IF kind = "context" THEN now.contextBytes + Bytes[job.tile]
                                   ELSE now.contextBytes
            /\ done.detailBytes = IF kind = "context" THEN now.detailBytes
                                  ELSE now.detailBytes + Bytes[job.tile]
  <2> HIDE DEF now
  <2> QED BY <1>1, CommitOK
<1>5. CASE ~IsOutdated(t, job) /\ ~CommitFits(now, job, kind)
  <2> HIDE DEF done
  <2>1. Handled(t, Discard([t EXCEPT !.budget = done], job)) BY <1>4, <1>5, GivenBackHandled
  <2> QED BY <1>2, <1>5, <2>1 DEF z
<1>6. CASE ~IsOutdated(t, job) /\ CommitFits(now, job, kind) /\ ~Accepts(t.canvas, job)
  <2>1. /\ now.contextBytes \in Nat /\ now.detailBytes \in Nat /\ IsBudget(done)
    BY <1>1, <1>4 DEF Reserved, IsBudget
  <2> HIDE DEF done, now
  <2> DEFINE n == Bytes[job.tile]
  <2>2. /\ n \in Nat /\ n <= (IF kind = "context" THEN done.contextBytes ELSE done.detailBytes)
    BY <1>4, <1>6, <2>1
  <2> HIDE DEF n
  <2>3. LET r == RemoveStored(done, kind, n)
        IN  /\ IsBudget(r) /\ r.reservations = done.reservations
            /\ r.transientBytes = done.transientBytes
            /\ r.contextBytes = IF kind = "context" THEN done.contextBytes - n ELSE done.contextBytes
            /\ r.detailBytes = IF kind = "context" THEN done.detailBytes ELSE done.detailBytes - n
    BY <2>1, <2>2, RemoveStoredOK
  <2>4. /\ IsBudget(less) /\ less.reservations = done.reservations
        /\ less.transientBytes = done.transientBytes
        /\ less.contextBytes = IF kind = "context" THEN done.contextBytes - n ELSE done.contextBytes
        /\ less.detailBytes = IF kind = "context" THEN done.detailBytes ELSE done.detailBytes - n
    BY <2>3 DEF n
  <2> HIDE DEF less
  <2>5. less.contextBytes = now.contextBytes /\ less.detailBytes = now.detailBytes
    BY <1>4, <1>6, <2>1, <2>2, <2>4 DEF n
  <2>6. Reserved(less) /\ DOMAIN less.reservations = DOMAIN now.reservations \ {job}
        /\ less.transientBytes <= now.transientBytes
    BY <1>4, <2>4 DEF Reserved, ReservedBytes
  <2>7. Handled(t, Discard([t EXCEPT !.budget = less], job)) BY <2>5, <2>6, GivenBackHandled DEF now
  <2> QED BY <1>2, <1>6, <2>7 DEF z
<1>7. CASE ~IsOutdated(t, job) /\ CommitFits(now, job, kind) /\ Accepts(t.canvas, job)
  <2>1. Handled(t, CompositorStore(Counted(t, done), job, kind)) BY <1>7, StoreHandled
  <2> QED BY <1>2, <1>7, <2>1 DEF z
<1> QED BY <1>3, <1>5, <1>6, <1>7 DEF z

LEMMA UpdatedOK ==
    ASSUME NEW y, Core(y, {}), Fresh(y)
    PROVE  LET z == UpdateCompletionPhase(y)
           IN  Sound(z) /\ z.server = y.server /\ z.client.error = y.client.error
<1> DEFINE z == UpdateCompletionPhase(y)
<1>1. /\ IsState(y) /\ ClientOK(y.client) /\ Base(y, {}) /\ Asked(y)
      /\ IsClient(y.client) /\ y.client.phase \in Phases /\ y.client.pendingPresentations \in Nat
      /\ y.client.error \in Errors /\ y.client.plan \in {NoPlan, 0, 1}
  BY CoreIsBase DEF Core, Typed, ClientOK
<1>2. /\ IsState(z) /\ IsClient(z.client)
      /\ \A f \in StateFields \ {"client"} : z[f] = y[f]
      /\ \A f \in ClientFields \ {"phase"} : z.client[f] = y.client[f]
      /\ z.client.phase \in Phases /\ Settled(z)
  BY <1>1, UpdateCompletionPhaseSays
<1> HIDE DEF z
<1>3. /\ z.client.error = y.client.error /\ z.client.plan = y.client.plan
      /\ z.client.viewport = y.client.viewport /\ z.client.manifest = y.client.manifest
      /\ z.client.epoch = y.client.epoch /\ z.canvas = y.canvas /\ z.server = y.server
  BY <1>2 DEF ClientFields, StateFields
<1>4. Differs(y, z, {"client"}, Words) BY <1>2 DEF Differs, Words
<1>5. Core(z, {}) BY <1>1, <1>2, <1>3, <1>4, WordsOK, CoreIsBase
<1>6. Fresh(z) BY <1>3 DEF Fresh
<1> QED BY <1>2, <1>3, <1>5, <1>6 DEF Sound, z

LEMMA OnWorkerSteps ==
    ASSUME Inv, OnWorker
    PROVE  \E z : Steps(z)
<1> DEFINE s == Now
           w == [worker EXCEPT !.outbox = Tail(@)]
           q == [s EXCEPT !.worker = w]
           answer == Head(worker.outbox)
           job == answer.job
           z == OnAnswer(q, answer)
<1>1. /\ Sound(s) /\ s.worker = worker /\ Typed(s) /\ Base(s, {}) /\ IsState(s) /\ IsClient(s.client)
      /\ ClientOK(s.client)
  BY NowFields, SoundFields DEF Inv
<1>2. Becomes(z)
  <2>1. [s EXCEPT !.worker.outbox = Tail(@)] = q BY <1>1
  <2> QED BY <2>1 DEF OnWorker
<1>3. WorkerOK(w) /\ answer \in Answers /\ JobsOf(w) = JobsOf(s.worker) \ {job}
  <2>1. WorkerOK(worker) /\ Len(worker.outbox) > 0 BY <1>1 DEF Typed, OnWorker
  <2> QED BY <1>1, <2>1, TakeAnswerOK
<1>4. /\ answer.type \in {"decoded", "discarded", "failed"} /\ job \in Jobs
      /\ Pending(s) \subseteq JobsOf(s.worker)
  BY <1>1, <1>3 DEF Answers, AnswerTypes, Base, Tiled, AtWork
<1> HIDE DEF w, s, answer
<1>5. /\ IsState(q) /\ q.worker = w /\ q.client = s.client /\ q.server = s.server
      /\ \A f \in StateFields \ {"worker"} : q[f] = s[f]
  BY <1>1 DEF IsState, StateFields
<1>6. CASE job \notin Pending(s)
  <2>1. z = q BY <1>5, <1>6 DEF OnAnswer, Pending
  <2>2. Pending(s) \subseteq JobsOf(w) /\ JobsOf(w) \subseteq JobsOf(s.worker) BY <1>3, <1>4, <1>6
  <2> HIDE DEF z
  <2>3. Sound(z) /\ Follows(s, z) BY <1>1, <1>3, <2>1, <2>2, WorkerSound
  <2> QED BY <1>2, <2>3, FollowsSteps DEF s
<1>7. CASE job \in Pending(s)
  <2> DEFINE rest == Restrict(s.client.pending, DOMAIN s.client.pending \ {job})
             c == [s.client EXCEPT !.pending = rest]
             t == [q EXCEPT !.client.pending = Restrict(@, DOMAIN @ \ {job})]
             free == Cancel(t.budget, job)
             cancelled == [t EXCEPT !.budget = free]
             kind == s.client.pending[job]
             y == CASE answer.type = "decoded" -> OnDecoded(t, job, kind)
                    [] answer.type = "discarded" -> Discard(cancelled, job)
                    [] answer.type = "failed" -> OnFailed(cancelled, job)
  <2>1. z = UpdateCompletionPhase(y) BY <1>5, <1>7 DEF OnAnswer, Pending
  <2>2. t = [q EXCEPT !.client = c] BY <1>5
  <2> HIDE DEF t, rest
  <2>3. IsClient(c) /\ c.pending = rest /\ \A f \in ClientFields \ {"pending"} : c[f] = s.client[f]
    BY <1>1 DEF IsClient, ClientFields
  <2> HIDE DEF c
  <2>4. /\ IsState(t) /\ t.client = c /\ t.worker = w /\ t.server = s.server
        /\ \A f \in StateFields \ {"client", "worker"} : t[f] = s[f]
    BY <1>5, <2>2 DEF IsState, StateFields
  <2>5. Core(t, {job}) /\ Fresh(t) /\ t.client.welcome
    <3>1. Differs(s, t, {"client", "worker"}, {"pending"}) BY <2>3, <2>4 DEF Differs
    <3>2. t.client.pending = Restrict(s.client.pending, DOMAIN s.client.pending \ {job})
      BY <2>3, <2>4 DEF rest
    <3>3. /\ Core(s, {}) /\ Fresh(s) /\ WorkerOK(t.worker) /\ JobsOf(t.worker) = JobsOf(s.worker) \ {job}
      BY <1>1, <1>3, <2>4 DEF Sound
    <3> HIDE DEF job
    <3> QED BY <1>7, <3>1, <3>2, <3>3, AnsweredOK
  <2>6. kind \in Kinds BY <1>1, <1>7 DEF ClientOK, Pending
  <2> HIDE DEF kind, z, job
  <2>7. Handled(t, OnDecoded(t, job, kind)) BY <1>4, <2>5, <2>6, OnDecodedHandled
  <2>8. Handled(t, Discard(cancelled, job)) /\ Handled(t, OnFailed(cancelled, job))
    <3> DEFINE now == t.budget
    <3>1. Reserved(now) BY <2>5, CoreReserved DEF Core
    <3> HIDE DEF now
    <3>2. LET r == Cancel(now, job)
          IN  /\ Reserved(r) /\ DOMAIN r.reservations = DOMAIN now.reservations \ {job}
              /\ r.contextBytes = now.contextBytes /\ r.detailBytes = now.detailBytes
              /\ r.transientBytes <= now.transientBytes
      BY <3>1, CancelOK
    <3>3. /\ Reserved(free) /\ DOMAIN free.reservations = DOMAIN t.budget.reservations \ {job}
          /\ free.contextBytes = t.budget.contextBytes /\ free.detailBytes = t.budget.detailBytes
          /\ free.transientBytes <= t.budget.transientBytes
      BY <3>2 DEF now
    <3> HIDE DEF free
    <3> QED BY <2>5, <3>3, GivenBackHandled
  <2>9. Handled(t, y) BY <1>4, <2>7, <2>8
  <2> HIDE DEF y
  <2>10. Core(y, {}) /\ Fresh(y) /\ Goes(t, y) /\ y.client.error = s.client.error
    BY <2>3, <2>4, <2>9 DEF Handled, ClientFields
  <2>11. Sound(z) /\ z.server = y.server /\ z.client.error = y.client.error
    BY <2>1, <2>10, UpdatedOK
  <2>12. Goes(s, z)
    <3>1. \A d : ReceiptAt(s, d) = ReceiptAt(t, d) /\ ReceiptAt(z, d) = ReceiptAt(y, d)
      BY <2>4, <2>11 DEF ReceiptAt
    <3> QED BY <2>10, <3>1 DEF Goes
  <2>13. ~Accuses
    <3>1. client' = z.client /\ s.client = client BY <1>2 DEF Becomes, Now, s
    <3> QED BY <2>10, <2>11, <3>1 DEF Accuses
  <2> QED BY <1>2, <2>11, <2>12, <2>13 DEF Steps, s
<1> QED BY <1>6, <1>7
--------------------------------------------------------------------------------
\* Connections end and begin

LEMMA EmptyParts ==
    /\ LedgerOK(EmptyLedger) /\ IsBudget(EmptyBudget) /\ CanvasOK(EmptyCanvas(FALSE))
    /\ \A v : v = EmptyCanvas(FALSE) =>
        /\ v.manifest = NoImage /\ DOMAIN v.entries = {}
        /\ Unpresented(v, Tiles) = {} /\ \A kind : KeptBytes(v.entries, kind) = 0
    /\ DOMAIN EmptyBudget.reservations = {} /\ ReservedBytes(EmptyBudget) = 0
    /\ EmptyBudget.transientBytes = 0 /\ EmptyBudget.contextBytes = 0 /\ EmptyBudget.detailBytes = 0
<1>1. DOMAIN <<>> = {} /\ <<>> \in [{} -> Expectation] /\ <<>> \in Seq(Deliveries) /\ Len(<<>>) = 0
  OBVIOUS
<1>2. LedgerOK(EmptyLedger) BY <1>1, LedgerAssumption DEF EmptyLedger, LedgerOK
<1>3. /\ IsBudget(EmptyBudget) /\ DOMAIN EmptyBudget.reservations = {}
      /\ EmptyBudget.transientBytes = 0 /\ EmptyBudget.contextBytes = 0
      /\ EmptyBudget.detailBytes = 0
  BY <1>1 DEF EmptyBudget, IsBudget
<1>4. ReservedBytes(EmptyBudget) = 0 BY <1>3, SumEmpty DEF ReservedBytes
<1>5. /\ CanvasOK(EmptyCanvas(FALSE)) /\ DOMAIN EmptyCanvas(FALSE).entries = {}
      /\ EmptyCanvas(FALSE).manifest = NoImage
  BY EmptyCanvasOK
<1>6. ASSUME NEW entries, DOMAIN entries = {}, NEW kind PROVE KeptBytes(entries, kind) = 0
  <2>1. KeptTiles(entries, kind) = {} BY <1>6 DEF KeptTiles
  <2> QED BY <2>1, SumEmpty DEF KeptBytes
<1> QED BY <1>2, <1>3, <1>4, <1>5, <1>6 DEF Unpresented

\* A client with nothing in its hands, that nobody hears.
LEMMA EmptyOK ==
    ASSUME NEW z, Typed(z), z.client.welcome = FALSE, DOMAIN z.client.pending = {},
           z.client.pendingPresentations = 0, z.client.manifest = NoImage,
           z.ledger = EmptyLedger, z.budget = EmptyBudget, z.canvas = EmptyCanvas(FALSE),
           ~IsOpen(z), Spoken(z), Known(z), Sockets(z),
           \A j \in JobsOf(z.worker) : j.connection <= z.client.connectionId,
           IsLive(z) =>
                /\ z.client.received = 0 /\ z.client.terminal = 0 /\ z.client.releases = 0
                /\ z.server.controls = <<>> /\ z.server.deliveries = <<>>
                /\ \A j \in JobsOf(z.worker) : j.connection # z.client.connectionId
    PROVE  Sound(z)
<1>1. /\ z.canvas.manifest = NoImage /\ DOMAIN z.canvas.entries = {}
      /\ UndrawnTiles(z) = {} /\ \A kind : KeptBytes(z.canvas.entries, kind) = 0
  BY EmptyParts DEF UndrawnTiles
<1>2. Pending(z) = {} /\ UndrawnJobs(z) = {} /\ Held(z, {}) = {}
  BY <1>1 DEF Pending, UndrawnJobs, Held
<1>3. IsFiniteSet({}) /\ Cardinality({}) = 0 BY FS_EmptySet
<1>4. Placed(z, {}) /\ AtWork(z, {}) /\ Owned(z, {}) /\ Agreed(z) /\ Accounts(z, {})
  BY <1>1, <1>2, <1>3 DEF Placed, AtWork, Owned, Agreed, Accounts
<1>5. Budgets(z, {})
  <2>1. 0 <= TransientBudgetBytes /\ 0 <= DetailBudgetBytes /\ 0 + 0 = 0
    BY BudgetAssumption DEF DetailBudgetBytes
  <2> QED BY <1>1, <2>1, EmptyParts DEF Budgets
<1>6. Quiet(z) /\ Asked(z) /\ Fresh(z) /\ Settled(z) BY <1>1, <1>2 DEF Quiet, Asked, Fresh, Settled
<1> QED BY <1>4, <1>5, <1>6 DEF Sound, Core

\* The callbacks of a canvas that is reset when nobody hears them.
Callbacks == {"phase", "terminal", "releases", "pendingPresentations"}

LEMMA DeafReset ==
    ASSUME NEW q, IsState(q), IsClient(q.client), LedgerOK(q.ledger), ServerOK(q.server),
           CanvasOK(q.canvas), q.client.phase \in Phases, q.client.terminal \in Nat,
           q.client.releases \in Nat,
           q.client.pendingPresentations = Cardinality(UndrawnTiles(q)), ~IsOpen(q)
    PROVE  LET z == CompositorReset(q)
           IN  /\ IsState(z) /\ IsClient(z.client) /\ z.client.phase \in Phases
               /\ z.client.terminal \in Nat /\ z.client.releases \in Nat
               /\ \A f \in ClientFields \ Callbacks : z.client[f] = q.client[f]
               /\ z.worker = q.worker /\ z.sockets = q.sockets /\ z.server = q.server
               /\ z.ledger = q.ledger /\ z.canvas = EmptyCanvas(FALSE)
<1> DEFINE T == DOMAIN q.canvas.entries
           U == Unpresented(q.canvas, T)
           r == EndPresentations(q, T)
           v == EmptyCanvas(FALSE)
           b == RemovedFromBudget(r.budget, q.canvas.entries, T)
           z == CompositorReset(q)
<1>1. U = UndrawnTiles(q) /\ IsFiniteSet(U) /\ Cardinality(U) \in Nat
  BY UndrawnFinite DEF UndrawnTiles, Unpresented, CanvasOK
<1>2. z = [r EXCEPT !.canvas = v, !.budget = b] BY DEF CompositorReset
<1> HIDE DEF v, b, z
<1>3. MayEnd(q, U) BY <1>1 DEF MayEnd
<1> HIDE DEF T
<1>4. Ended(q, r, U) BY <1>3, EndPresentationsSays
<1> HIDE DEF r, U
<1>5. /\ IsState(r) /\ IsClient(r.client) /\ r.client.phase \in Phases
      /\ r.client.terminal = q.client.terminal + Cardinality(U)
      /\ \A f \in ClientFields \ Callbacks : r.client[f] = q.client[f]
      /\ r.worker = q.worker /\ r.sockets = q.sockets /\ r.server = q.server
      /\ r.client.releases = q.client.releases /\ r.ledger = q.ledger
  BY <1>4 DEF Ended, SameElsewhere, Confirmed, StateFields, Callbacks
<1>6. /\ IsState(z) /\ z.canvas = v /\ z.client = r.client
      /\ z.worker = r.worker /\ z.sockets = r.sockets /\ z.server = r.server
      /\ z.ledger = r.ledger
  BY <1>2, <1>5 DEF IsState, StateFields
<1> QED BY <1>1, <1>5, <1>6 DEF z, v

\* What cleanupConnection does after the reset.
Cleaned(r) ==
    [r EXCEPT
        !.budget = EmptyBudget, !.ledger = EmptyLedger,
        !.client.pendingPresentations = 0, !.client.manifest = NoImage,
        !.client.plan = NoPlan, !.client.welcome = FALSE, !.client.serverDone = FALSE]

Cleared == {"pendingPresentations", "manifest", "plan", "welcome", "serverDone"}

IsCleaned(r, z) ==
    /\ IsState(z) /\ IsClient(z.client) /\ z.budget = EmptyBudget /\ z.ledger = EmptyLedger
    /\ \A f \in StateFields \ {"client", "ledger", "budget"} : z[f] = r[f]
    /\ z.client.pendingPresentations = 0 /\ z.client.manifest = NoImage
    /\ z.client.plan = NoPlan /\ z.client.welcome = FALSE
    /\ \A f \in ClientFields \ Cleared : z.client[f] = r.client[f]

LEMMA CleanedSays ==
    ASSUME NEW r, IsState(r), IsClient(r.client), NEW z, z = Cleaned(r)
    PROVE  IsCleaned(r, z)
<1> DEFINE c == [r.client EXCEPT !.pendingPresentations = 0, !.manifest = NoImage,
                    !.plan = NoPlan, !.welcome = FALSE, !.serverDone = FALSE]
<1>1. z = [r EXCEPT !.budget = EmptyBudget, !.ledger = EmptyLedger, !.client = c]
  BY DEF Cleaned, IsState, StateFields
<1>2. /\ IsClient(c) /\ c.pendingPresentations = 0 /\ c.manifest = NoImage
      /\ c.plan = NoPlan /\ c.welcome = FALSE
      /\ \A f \in ClientFields \ Cleared : c[f] = r.client[f]
  BY DEF IsClient, ClientFields, Cleared
<1> HIDE DEF c
<1>3. /\ IsState(z) /\ z.client = c /\ z.budget = EmptyBudget /\ z.ledger = EmptyLedger
      /\ \A f \in StateFields \ {"client", "ledger", "budget"} : z[f] = r[f]
  BY <1>1 DEF IsState, StateFields
<1> QED BY <1>2, <1>3 DEF IsCleaned

LEMMA OnCloseOK ==
    ASSUME NEW s, Sound(s), ~IsLive(s)
    PROVE  LET z == OnClose(s) IN Sound(z) /\ Follows(s, z)
<1> DEFINE w == ResetWorker(s.worker, s.client.connectionId)
           d == [s.client EXCEPT !.pending = <<>>]
           q == [s EXCEPT !.worker = ResetWorker(@, s.client.connectionId), !.client.pending = <<>>]
           r == CompositorReset(q)
           y == CleanupConnection(s)
           c == IF y.client.phase = "error" THEN y.client
                ELSE [y.client EXCEPT !.phase = "disconnected", !.error = "closed"]
           z == OnClose(s)
<1>1. /\ IsState(s) /\ IsClient(s.client) /\ ClientOK(s.client) /\ Typed(s) /\ Sockets(s)
      /\ ServerOK(s.server) /\ Spoken(s) /\ Known(s) /\ ~IsOpen(s)
      /\ Accounts(s, {}) /\ AtWork(s, {})
  BY SoundFields DEF Sound, Core, IsLive, IsOpen
<1>2. WorkerOK(w) /\ JobsOf(w) = JobsOf(s.worker) BY <1>1, InvalidateOK DEF ResetWorker, Typed
<1>3. y = Cleaned(r) /\ q = [s EXCEPT !.worker = w, !.client = d]
  BY <1>1 DEF CleanupConnection, Cleaned, IsState, StateFields
<1>4. IsClient(d) /\ d.pending = <<>> /\ DOMAIN d.pending = {}
      /\ \A f \in ClientFields \ {"pending"} : d[f] = s.client[f]
  <2>1. IsClient(d) /\ d.pending = <<>> /\ \A f \in ClientFields \ {"pending"} : d[f] = s.client[f]
    BY <1>1 DEF IsClient, ClientFields
  <2> QED BY <2>1
<1> HIDE DEF w, d, q, y
<1>5. /\ IsState(q) /\ q.client = d /\ q.worker = w
      /\ \A f \in StateFields \ {"client", "worker"} : q[f] = s[f]
  BY <1>1, <1>3 DEF IsState, StateFields
<1>6. /\ q.ledger = s.ledger /\ q.server = s.server /\ q.canvas = s.canvas /\ q.sockets = s.sockets
      /\ d.phase = s.client.phase /\ d.terminal = s.client.terminal
      /\ d.releases = s.client.releases /\ d.connectionId = s.client.connectionId
      /\ d.pendingPresentations = s.client.pendingPresentations
  BY <1>4, <1>5 DEF StateFields, ClientFields
<1>7. UndrawnTiles(q) = UndrawnTiles(s) /\ ~IsOpen(q) BY <1>1, <1>5, <1>6 DEF UndrawnTiles, IsOpen
<1> HIDE DEF r
<1>8. /\ IsState(r) /\ IsClient(r.client) /\ r.client.phase \in Phases
      /\ r.client.terminal \in Nat /\ r.client.releases \in Nat
      /\ \A f \in ClientFields \ Callbacks : r.client[f] = q.client[f]
      /\ r.worker = q.worker /\ r.sockets = q.sockets /\ r.server = q.server
      /\ r.canvas = EmptyCanvas(FALSE)
  <2>1. /\ IsState(q) /\ IsClient(q.client) /\ LedgerOK(q.ledger) /\ ServerOK(q.server)
        /\ CanvasOK(q.canvas) /\ q.client.phase \in Phases /\ q.client.terminal \in Nat
        /\ q.client.releases \in Nat
        /\ q.client.pendingPresentations = Cardinality(UndrawnTiles(q))
    BY <1>1, <1>4, <1>5, <1>6, <1>7 DEF Typed, ClientOK, Accounts
  <2> QED BY <1>7, <2>1, DeafReset DEF r
<1>9. /\ IsState(y) /\ IsClient(y.client) /\ y.budget = EmptyBudget /\ y.ledger = EmptyLedger
      /\ \A f \in StateFields \ {"client", "ledger", "budget"} : y[f] = r[f]
      /\ y.client.pendingPresentations = 0 /\ y.client.manifest = NoImage
      /\ y.client.plan = NoPlan /\ y.client.welcome = FALSE
      /\ \A f \in ClientFields \ Cleared : y.client[f] = r.client[f]
  <2>1. IsCleaned(r, y) BY <1>3, <1>8, CleanedSays
  <2> QED BY <2>1 DEF IsCleaned
<1>10. z = [y EXCEPT !.client = c]
  <2> DEFINE e == [y.client EXCEPT !.phase = "disconnected", !.error = "closed"]
  <2>1. y = [y EXCEPT !.client = y.client] BY <1>9 DEF IsState, StateFields
  <2>2. [y EXCEPT !.client.phase = "disconnected", !.client.error = "closed"] = [y EXCEPT !.client = e]
    BY <1>9 DEF IsState, StateFields
  <2> QED BY <2>1, <2>2 DEF OnClose, y
<1>11. /\ IsClient(c) /\ c.phase \in Phases /\ c.error \in {"closed", y.client.error}
       /\ \A f \in ClientFields \ {"phase", "error"} : c[f] = y.client[f]
  BY <1>8, <1>9 DEF IsClient, ClientFields, Phases
<1> HIDE DEF c, z
<1>12. /\ IsState(z) /\ z.client = c /\ z.budget = EmptyBudget /\ z.ledger = EmptyLedger
       /\ z.canvas = EmptyCanvas(FALSE) /\ z.worker = w /\ z.sockets = s.sockets
       /\ z.server = s.server
  BY <1>5, <1>6, <1>8, <1>9, <1>10 DEF IsState, StateFields
<1>13. /\ c.pendingPresentations = 0 /\ c.manifest = NoImage /\ c.plan = NoPlan
       /\ c.welcome = FALSE /\ DOMAIN c.pending = {} /\ c.terminal \in Nat /\ c.releases \in Nat
       /\ \A f \in {"connectionId", "epoch", "selected", "manifestHistory", "received"} :
            c[f] = s.client[f]
       /\ c.error \in {"closed", s.client.error}
  BY <1>4, <1>5, <1>8, <1>9, <1>11 DEF ClientFields, Callbacks, Cleared
<1>14. /\ c.connectionId = s.client.connectionId /\ c.epoch = s.client.epoch
       /\ c.selected = s.client.selected /\ c.manifestHistory = s.client.manifestHistory
       /\ c.received = s.client.received
  BY <1>13
<1>15. ClientOK(c)
  <2>1. c.error \in Errors /\ NoPlan \in {NoPlan, 0, 1} BY <1>1, <1>13 DEF ClientOK, Errors
  <2>2. IsFiniteSet(DOMAIN c.pending) /\ DOMAIN c.pending \in SUBSET Jobs BY <1>13, FS_EmptySet
  <2>3. c.pending \in [DOMAIN c.pending -> Kinds]
    <3>1. d.pending = <<>> /\ c.pending = d.pending
      BY <1>4, <1>5, <1>8, <1>9, <1>11 DEF ClientFields, Callbacks, Cleared
    <3> QED BY <3>1
  <2> QED BY <1>1, <1>11, <1>13, <1>14, <2>1, <2>2, <2>3 DEF ClientOK
<1>16. Typed(z) BY <1>1, <1>2, <1>12, <1>15, EmptyParts DEF Typed
<1>17. Spoken(z) /\ Known(z) /\ Sockets(z) /\ ~IsOpen(z) /\ ~IsLive(z)
  BY <1>1, <1>12, <1>13, <1>14 DEF Spoken, Known, Sockets, IsOpen, IsLive
<1>18. \A j \in JobsOf(z.worker) : j.connection <= z.client.connectionId
  BY <1>1, <1>2, <1>12, <1>14 DEF AtWork
<1>19. Sound(z) BY <1>12, <1>13, <1>16, <1>17, <1>18, EmptyOK
<1>20. Follows(s, z) BY <1>12, <1>13, SilentFollows
<1> QED BY <1>19, <1>20 DEF z

LEMMA CloseEventSteps ==
    ASSUME Inv, NEW c \in Connections, NEW failed \in BOOLEAN, CloseEvent(c, failed)
    PROVE  \E z : Steps(z)
<1> DEFINE s == Now
           q == [s EXCEPT !.sockets[c] = "closed"]
           x == IF failed THEN Fail(q, "transport") ELSE q
           z == IF c # s.client.connectionId THEN q ELSE OnClose(x)
<1>1. Sound(s) /\ s.client = client /\ s.sockets = sockets BY NowFields DEF Inv
<1>2. Becomes(z) /\ s.sockets[c] # "none" BY <1>1 DEF CloseEvent
<1>3. Sound(q) /\ Follows(s, q) /\ q.client = s.client /\ q.sockets[c] = "closed"
  <2> HIDE DEF s
  <2>1. Sound(q) /\ Follows(s, q) BY <1>1, <1>2, ClosingOK
  <2>2. IsState(s) /\ s.sockets \in [Connections -> SocketStates] BY <1>1, SoundFields DEF Typed
  <2> QED BY <2>1, <2>2 DEF IsState, StateFields
<1>4. c # s.client.connectionId => z = q OBVIOUS
<1>5. c = s.client.connectionId => z = OnClose(x) OBVIOUS
<1>6. x = IF failed THEN Fail(q, "transport") ELSE q OBVIOUS
<1> HIDE DEF s, q, x, z
<1>7. Sound(x) /\ Follows(q, x) /\ x.sockets = q.sockets
       /\ x.client.connectionId = q.client.connectionId
  <2>1. CASE ~failed
    <3>1. x = q BY <1>6, <2>1
    <3> QED BY <1>3, <3>1, SilentFollows
  <2>2. CASE failed
    <3> DEFINE error == "transport"
               y == Fail(q, error)
    <3>1. Base(q, {}) /\ error \in Errors /\ error # "violation" /\ x = y /\ ClientOK(q.client)
      BY <1>3, <1>6, <2>2, SoundFields DEF Errors
    <3> HIDE DEF error
    <3>2. /\ Differs(q, y, {"client"}, Words) /\ y.client.error = error
          /\ y.client.phase = "error" /\ y.client.viewport = q.client.viewport /\ Settled(y)
      BY <3>1, FailOK
    <3>3. /\ y.sockets = q.sockets /\ y.client.connectionId = q.client.connectionId
      BY <3>2 DEF Differs, StateFields, ClientFields, Words
    <3>4. y.client.plan = q.client.plan
      BY <3>1 DEF Fail, ClientOK, IsClient, ClientFields, Base, Typed, IsState, StateFields
    <3>5. y.client.plan \in {NoPlan, 0, 1} /\ y.client.phase \in Phases /\ y.client.error \in Errors
      BY <3>1, <3>2, <3>4 DEF ClientOK, Phases
    <3> HIDE DEF y
    <3>6. Sound(y) /\ Follows(q, y) BY <1>3, <3>1, <3>2, <3>5, WordsSound
    <3> QED BY <3>1, <3>3, <3>6
  <2> QED BY <2>1, <2>2
<1>8. CASE c # s.client.connectionId BY <1>2, <1>3, <1>4, <1>8, FollowsSteps DEF s
<1>9. CASE c = s.client.connectionId
  <2>1. ~IsLive(x) BY <1>3, <1>7, <1>9 DEF IsLive
  <2>2. Sound(z) /\ Follows(x, z) BY <1>5, <1>7, <1>9, <2>1, OnCloseOK
  <2>3. Follows(s, x) BY <1>3, <1>7, FollowsTwice
  <2> QED BY <1>2, <1>7, <2>2, <2>3, AnswerFollows DEF s
<1> QED BY <1>8, <1>9

LEMMA WorkerJobs ==
    ASSUME NEW w, WorkerOK(w), NEW job \in JobsOf(w)
    PROVE  job \in Jobs
<1>1. w.queue \in Seq(Jobs) /\ w.active \in SUBSET Jobs /\ w.outbox \in Seq(Answers)
  BY DEF WorkerOK, IsWorker
<1>2. CASE job \in w.active BY <1>1, <1>2
<1>3. CASE job \in InQueue(w) BY <1>1, <1>3 DEF InQueue
<1>4. CASE job \in InOutbox(w)
  <2>1. PICK k \in 1..Len(w.outbox) : job = w.outbox[k].job BY <1>4 DEF InOutbox
  <2>2. w.outbox[k] \in Answers BY <1>1
  <2> QED BY <2>1, <2>2 DEF Answers
<1> QED BY <1>2, <1>3, <1>4 DEF JobsOf

\* connect: the connection before is closed, and nothing of it stays.
Joined(r, fresh, connection) ==
    [r EXCEPT
        !.client = [fresh EXCEPT !.phase = r.client.phase], !.budget = EmptyBudget,
        !.sockets[connection] = "connecting", !.server = FreshServer]

LEMMA JoinedSound ==
    ASSUME NEW connection \in 1..MaxConnections, NEW selected \in Images \cup {NoImage}, NEW viewport,
           NEW r, IsState(r), r.client.phase \in Phases, WorkerOK(r.worker),
           \A j \in JobsOf(r.worker) : j.connection <= connection - 1,
           r.sockets \in [Connections -> SocketStates], r.sockets[0] = "none",
           \A k \in Connections : k > connection => r.sockets[k] = "none",
           r.ledger = EmptyLedger, r.canvas = EmptyCanvas(FALSE),
           NEW z, z = Joined(r, FreshClient(connection, selected, viewport), connection)
    PROVE  Sound(z) /\ z.client.error = "none" /\ z.server.deliveries = <<>>
<1> DEFINE fresh == FreshClient(connection, selected, viewport)
           c == [fresh EXCEPT !.phase = r.client.phase]
           ws == [r.sockets EXCEPT ![connection] = "connecting"]
<1>1. z = [r EXCEPT !.client = c, !.budget = EmptyBudget, !.sockets = ws, !.server = FreshServer]
  BY DEF Joined, IsState, StateFields
<1>2. /\ IsClient(c) /\ c.connectionId = connection /\ c.epoch = 0 /\ c.selected = selected
      /\ c.manifest = NoImage /\ c.manifestHistory = <<>> /\ c.plan = NoPlan /\ c.welcome = FALSE
      /\ c.pending = <<>> /\ c.phase = r.client.phase /\ c.error = "none" /\ c.received = 0
      /\ c.terminal = 0 /\ c.releases = 0 /\ c.pendingPresentations = 0
  BY DEF IsClient, ClientFields, FreshClient
<1> HIDE DEF c
<1>3. /\ connection \in Connections /\ connection # 0 /\ 0 \in Connections
      /\ connection \in Nat /\ connection > 0
  BY ClientAssumption DEF Connections
<1>4. /\ ws \in [Connections -> SocketStates] /\ ws[connection] = "connecting"
      /\ \A k \in Connections : k # connection => ws[k] = r.sockets[k]
  BY <1>3 DEF SocketStates
<1> HIDE DEF ws
<1>5. /\ IsState(z) /\ z.client = c /\ z.budget = EmptyBudget /\ z.sockets = ws
      /\ z.server = FreshServer /\ z.worker = r.worker /\ z.ledger = EmptyLedger
      /\ z.canvas = EmptyCanvas(FALSE)
  BY <1>1 DEF IsState, StateFields
<1>6. /\ z.server.stage = "hello" /\ z.server.epoch = 0 /\ z.server.controls = <<>>
      /\ z.server.deliveries = <<>> /\ ServerOK(z.server)
  BY <1>5, ClientAssumption DEF FreshServer, ServerOK
<1>7. Typed(z)
  <2>1. /\ DOMAIN c.pending = {} /\ IsFiniteSet({}) /\ c.pending \in [DOMAIN c.pending -> Kinds]
        /\ c.manifestHistory \in Seq(Images) /\ c.error \in Errors
    BY <1>2, FS_EmptySet DEF Errors
  <2>2. 0 \in 0..MaxEpoch /\ 0 \in Nat BY ClientAssumption
  <2>3. ClientOK(c) BY <1>2, <1>3, <2>1, <2>2 DEF ClientOK
  <2> QED BY <1>4, <1>5, <1>6, <2>3, EmptyParts DEF Typed
<1>8. Spoken(z) /\ Known(z) /\ Sockets(z) /\ ~IsOpen(z)
  <2>1. DOMAIN <<>> = {} /\ Len(<<>>) = 0 OBVIOUS
  <2>2. Sockets(z) BY <1>2, <1>3, <1>4, <1>5 DEF Sockets, Connections
  <2> QED BY <1>2, <1>4, <1>5, <1>6, <2>1, <2>2 DEF Spoken, Known, IsOpen
<1>9. DOMAIN c.pending = {} /\ c.welcome = FALSE /\ c.manifest = NoImage BY <1>2
<1>10. \A j \in JobsOf(z.worker) : j.connection <= connection /\ j.connection # connection
  <2>1. ASSUME NEW j \in JobsOf(z.worker) PROVE j.connection <= connection /\ j.connection # connection
    <3>1. j \in Jobs /\ j.connection <= connection - 1 BY <1>5, <1>7, WorkerJobs
    <3> QED BY <1>3, <3>1 DEF Jobs, Connections
  <2> QED BY <2>1
<1>11. Sound(z)
  <2>1. /\ z.client.welcome = FALSE /\ DOMAIN z.client.pending = {}
        /\ z.client.pendingPresentations = 0 /\ z.client.manifest = NoImage
        /\ z.client.received = 0 /\ z.client.terminal = 0 /\ z.client.releases = 0
        /\ z.client.connectionId = connection
    BY <1>2, <1>5, <1>9
  <2>2. z.ledger = EmptyLedger /\ z.budget = EmptyBudget /\ z.canvas = EmptyCanvas(FALSE) BY <1>5
  <2>3. /\ \A j \in JobsOf(z.worker) : j.connection <= z.client.connectionId
        /\ \A j \in JobsOf(z.worker) : j.connection # z.client.connectionId
    BY <1>10, <2>1
  <2> QED BY <1>6, <1>7, <1>8, <2>1, <2>2, <2>3, EmptyOK
<1> QED BY <1>2, <1>5, <1>6, <1>11

LEMMA ConnectSteps ==
    ASSUME Inv, Connect
    PROVE  \E z : Steps(z)
<1> DEFINE s == Now
           connection == s.client.connectionId + 1
           fresh == FreshClient(connection, s.client.selected, s.client.viewport)
           d == [fresh EXCEPT !.pending = s.client.pending,
                              !.pendingPresentations = s.client.pendingPresentations]
           t == CloseTransport(s)
           w == ResetWorker(t.worker, connection - 1)
           q == [t EXCEPT !.client = d, !.ledger = EmptyLedger,
                          !.worker = ResetWorker(@, connection - 1)]
           r == CompositorReset(q)
           z == OnConnect(s)
<1>1. /\ Sound(s) /\ s.client = client /\ IsClient(s.client) /\ ClientOK(s.client) /\ Sockets(s)
      /\ Base(s, {}) /\ Accounts(s, {}) /\ AtWork(s, {})
  BY NowFields, SoundFields DEF Inv, Sound, Core
<1>2. Becomes(z) /\ connection \in 1..MaxConnections
  <2>1. s.client.connectionId \in 0..MaxConnections /\ s.client.connectionId < MaxConnections
    BY <1>1 DEF Connect, ClientOK, Connections
  <2> QED BY <2>1, ClientAssumption DEF Connect
<1>3. /\ z = Joined(r, fresh, connection) /\ q = [t EXCEPT !.client = d, !.ledger = EmptyLedger, !.worker = w]
  BY DEF OnConnect, Joined
<1> HIDE DEF s
<1>4. /\ Base(t, {}) /\ Differs(s, t, {"sockets"}, {}) /\ ~IsLive(t)
      /\ \A k \in Connections : k # s.client.connectionId => t.sockets[k] = s.sockets[k]
      /\ t.sockets \in [Connections -> SocketStates]
  BY <1>1, CloseTransportOK
<1>5. /\ IsState(t) /\ t.canvas = s.canvas /\ t.server = s.server /\ t.worker = s.worker
      /\ WorkerOK(t.worker) /\ ServerOK(t.server) /\ CanvasOK(t.canvas) /\ Sockets(t)
      /\ t.client.connectionId = s.client.connectionId
  BY <1>4 DEF Differs, StateFields, ClientFields, Base, Typed
<1>6. /\ IsClient(d) /\ d.phase = "connecting" /\ d.terminal = 0 /\ d.releases = 0
      /\ d.connectionId = connection
      /\ d.pendingPresentations = s.client.pendingPresentations
  BY DEF IsClient, ClientFields, FreshClient
<1>7. WorkerOK(w) /\ JobsOf(w) = JobsOf(s.worker) BY <1>5, InvalidateOK DEF ResetWorker
<1> HIDE DEF t, w, d, fresh
<1>8. /\ IsState(q) /\ q.client = d /\ q.ledger = EmptyLedger /\ q.worker = w
      /\ q.canvas = s.canvas /\ q.server = s.server /\ q.sockets = t.sockets
  BY <1>3, <1>5 DEF IsState, StateFields
<1> HIDE DEF q
<1>9. /\ connection \in Connections /\ connection # 0 /\ 0 \in Connections
      /\ t.sockets[0] = "none"
      /\ \A k \in Connections : k >= connection => t.sockets[k] = "none"
  <2>1. /\ connection \in Connections /\ connection # 0 /\ 0 \in Connections
        /\ connection > s.client.connectionId
    BY <1>1, <1>2, ClientAssumption, SMTT(30), ZenonT(60) DEF Connections, ClientOK
  <2>2. \A k \in Connections : k >= connection => k > s.client.connectionId
    BY <1>1, ClientAssumption DEF Connections, ClientOK
  <2> QED BY <1>5, <2>1, <2>2 DEF Sockets
<1>10. ~IsOpen(q) /\ UndrawnTiles(q) = UndrawnTiles(s)
  <2>1. t.sockets[connection] = "none" BY <1>2, <1>9
  <2> QED BY <1>6, <1>8, <2>1 DEF IsOpen, UndrawnTiles
<1> HIDE DEF r
<1>11. /\ IsState(r) /\ r.client.phase \in Phases
       /\ r.worker = q.worker /\ r.sockets = q.sockets /\ r.canvas = EmptyCanvas(FALSE)
       /\ r.ledger = q.ledger
  <2>1. /\ IsState(q) /\ IsClient(q.client) /\ LedgerOK(q.ledger) /\ ServerOK(q.server)
        /\ CanvasOK(q.canvas) /\ q.client.phase \in Phases /\ q.client.terminal \in Nat
        /\ q.client.releases \in Nat
        /\ q.client.pendingPresentations = Cardinality(UndrawnTiles(q))
    BY <1>1, <1>5, <1>6, <1>8, <1>10, EmptyParts DEF Accounts, Phases
  <2> QED BY <1>10, <2>1, DeafReset DEF r
<1>12. Sound(z) /\ z.client.error = "none" /\ z.server.deliveries = <<>>
  <2>1. \A j \in JobsOf(r.worker) : j.connection <= connection - 1
    BY <1>1, <1>2, <1>7, <1>8, <1>11 DEF AtWork, ClientOK, Connections
  <2>2. /\ WorkerOK(r.worker) /\ r.sockets \in [Connections -> SocketStates]
        /\ r.sockets[0] = "none" /\ r.ledger = EmptyLedger
        /\ \A k \in Connections : k > connection => r.sockets[k] = "none"
    <3>1. \A k \in Connections : k > connection => k >= connection
      BY <1>2, ClientAssumption DEF Connections
    <3> HIDE DEF connection
    <3> QED BY <1>4, <1>7, <1>8, <1>9, <1>11, <3>1
  <2> DEFINE selected == s.client.selected
             viewport == s.client.viewport
  <2>3. selected \in Images \cup {NoImage} BY <1>1 DEF ClientOK
  <2> HIDE DEF z, connection
  <2>4. z = Joined(r, FreshClient(connection, selected, viewport), connection) BY <1>3 DEF fresh
  <2> HIDE DEF selected, viewport
  <2>5. Sound(z) BY <1>2, <1>11, <2>1, <2>2, <2>3, <2>4, JoinedSound
  <2>6. z.client.error = "none" /\ z.server.deliveries = <<>>
    BY <1>2, <1>11, <2>1, <2>2, <2>3, <2>4, JoinedSound
  <2> QED BY <2>5, <2>6
<1>13. ~Accuses BY <1>2, <1>12 DEF Becomes, Accuses
<1> QED BY <1>2, <1>12, <1>13 DEF Steps

--------------------------------------------------------------------------------
\* Every step

LEMMA UserSteps ==
    ASSUME Inv, User
    PROVE  \E z : Steps(z)
<1> DEFINE s == Now
<1>1. Sound(s) /\ s.client = client BY NowFields DEF Inv
<1>2. CASE Connect BY <1>2, ConnectSteps
<1>3. ASSUME NEW image \in Images, SelectImage(image) PROVE \E z : Steps(z)
  <2> DEFINE phase == IF client.phase \in {"connecting", "error"} THEN client.phase
                      ELSE "disconnected"
             selected == [s EXCEPT !.client.selected = image]
             z == IF s.client.welcome /\ IsOpen(s) THEN OpenSelected(selected)
                  ELSE [selected EXCEPT !.client.phase = phase]
  <2>1. Becomes(z) BY <1>1, <1>3 DEF SelectImage
  <2>2. phase \in Phases /\ phase # "observing" BY DEF Phases
  <2> HIDE DEF phase, s
  <2>3. Sound(z) /\ Follows(s, z) BY <1>1, <2>2, SelectImageOK
  <2> QED BY <2>1, <2>3, FollowsSteps DEF s
<1>4. CASE RetrySelectedImage
  <2> DEFINE z == OpenSelected(s)
  <2>1. Becomes(z) /\ s.client.welcome BY <1>1, <1>4 DEF RetrySelectedImage
  <2> HIDE DEF s
  <2>2. Sound(z) /\ Follows(s, z) BY <1>1, <2>1, OpenAgainOK
  <2> QED BY <2>1, <2>2, FollowsSteps DEF s
<1>5. CASE SetViewport
  <2> DEFINE sized == [s EXCEPT !.client.viewport = TRUE]
             z == IF s.client.manifest = NoImage THEN sized
                  ELSE RequestView([sized EXCEPT !.canvas = SchedulePaint(@)])
  <2>1. Becomes(z) BY <1>1, <1>5 DEF SetViewport
  <2> HIDE DEF s
  <2>2. Sound(z) /\ Follows(s, z) BY <1>1, SetViewportOK
  <2> QED BY <2>1, <2>2, FollowsSteps DEF s
<1>6. CASE Navigate
  <2> DEFINE z == RequestView(s)
  <2>1. Becomes(z) BY <1>6 DEF Navigate
  <2> HIDE DEF s
  <2>2. Sound(z) /\ Follows(s, z) BY <1>1, NavigateOK
  <2> QED BY <2>1, <2>2, FollowsSteps DEF s
<1> QED BY <1>2, <1>3, <1>4, <1>5, <1>6 DEF User

LEMMA NextSteps ==
    ASSUME Inv, Next
    PROVE  \E z : Steps(z)
<1>1. CASE User BY <1>1, UserSteps
<1>2. CASE Server BY <1>2, ServerSteps
<1>3. CASE Browser
  BY <1>3, TransportOpensSteps, PeerClosesSteps, CloseEventSteps, DecodeEndsSteps,
     OnWorkerSteps, PaintSteps DEF Browser
<1> QED BY <1>1, <1>2, <1>3 DEF Next
--------------------------------------------------------------------------------
\* The theorems

LEMMA InvInit == Init => Inv
<1> SUFFICES ASSUME Init PROVE Inv
  OBVIOUS
<1> DEFINE z == Now
<1>1. /\ IsState(z) /\ z.client = client /\ z.ledger = EmptyLedger /\ z.budget = EmptyBudget
      /\ z.canvas = EmptyCanvas(FALSE) /\ z.worker = NewWorker(Connections)
      /\ z.sockets = [c \in Connections |-> "none"] /\ z.server = FreshServer
  BY NowFields DEF Init
<1>2. /\ IsClient(client) /\ client.connectionId = 0 /\ client.epoch = 0
      /\ client.selected = NoImage /\ client.manifest = NoImage /\ client.manifestHistory = <<>>
      /\ client.plan = NoPlan /\ client.welcome = FALSE /\ client.pending = <<>>
      /\ client.phase = "disconnected" /\ client.error = "none" /\ client.received = 0
      /\ client.terminal = 0 /\ client.releases = 0 /\ client.pendingPresentations = 0
  BY DEF Init, FreshClient, IsClient, ClientFields
<1>3. WorkerOK(z.worker) /\ JobsOf(z.worker) = {}
  <2> DEFINE w == NewWorker(Connections)
  <2>1. /\ w.queue = <<>> /\ w.outbox = <<>> /\ w.active = {} /\ Len(<<>>) = 0
        /\ <<>> \in Seq(Jobs) /\ <<>> \in Seq(Answers) /\ IsFiniteSet({}) /\ Cardinality({}) = 0
        /\ w = [queue |-> w.queue, active |-> w.active, minimumEpoch |-> w.minimumEpoch,
                outbox |-> w.outbox]
    BY FS_EmptySet DEF NewWorker
  <2> HIDE DEF w
  <2>2. IsWorker(w) /\ OneEach(w) /\ InQueue(w) = {} /\ InOutbox(w) = {}
    BY <2>1 DEF IsWorker, OneEach, InQueue, InOutbox
  <2> QED BY <1>1, <2>1, <2>2, WorkerAssumption DEF WorkerOK, InLimits, JobsOf, w
<1> HIDE DEF z
<1>4. 0 \in Connections /\ 0 \in 0..MaxEpoch /\ DOMAIN <<>> = {} /\ IsFiniteSet({})
  BY ClientAssumption, FS_EmptySet DEF Connections
<1>5. /\ z.server.stage = "hello" /\ z.server.epoch = 0 /\ z.server.controls = <<>>
      /\ z.server.deliveries = <<>> /\ ServerOK(z.server)
  BY <1>1, <1>4 DEF FreshServer, ServerOK
<1>6. Typed(z)
  <2>1. client.pending \in [DOMAIN client.pending -> Kinds] /\ client.manifestHistory \in Seq(Images)
    BY <1>2
  <2>2. ClientOK(client) BY <1>2, <1>4, <2>1 DEF ClientOK, Phases, Errors
  <2>3. z.sockets \in [Connections -> SocketStates] BY <1>1 DEF SocketStates
  <2> QED BY <1>1, <1>3, <1>5, <2>2, <2>3, EmptyParts DEF Typed
<1>7. Spoken(z) /\ Known(z) /\ Sockets(z) /\ ~IsOpen(z) /\ ~IsLive(z)
  <2>1. Len(<<>>) = 0 OBVIOUS
  <2> QED BY <1>1, <1>2, <1>4, <1>5, <2>1 DEF Spoken, Known, Sockets, IsOpen, IsLive
<1>8. /\ z.client.welcome = FALSE /\ DOMAIN z.client.pending = {}
      /\ z.client.pendingPresentations = 0 /\ z.client.manifest = NoImage
  BY <1>1, <1>2, <1>4
<1>9. Sound(z) BY <1>1, <1>3, <1>6, <1>7, <1>8, EmptyOK
<1> QED BY <1>9 DEF Inv, z

LEMMA StepSays ==
    ASSUME NEW z, Steps(z)
    PROVE  Inv'
<1>1. Now' = z BY BecomesSays, SoundFields DEF Steps
<1>2. Sound(z) BY DEF Steps
<1> QED BY <1>1, <1>2 DEF Inv

LEMMA InvNext == Inv /\ [Next]_vars => Inv'
<1> SUFFICES ASSUME Inv, [Next]_vars PROVE Inv'
  OBVIOUS
<1>1. CASE Next BY <1>1, NextSteps, StepSays
<1>2. CASE UNCHANGED vars
  <2>1. Now' = Now BY <1>2 DEF vars, Now
  <2> QED BY <2>1 DEF Inv
<1> QED BY <1>1, <1>2

\* Every state the client reaches is sound: each tile it was sent is confirmed or in
\* one place, the counters are the sums they stand for, and the worker, the canvas
\* and the sockets agree with the image, the view and the connection of today.
THEOREM InvAlways == Spec => []Inv
  BY InvInit, InvNext, PTL DEF Spec

--------------------------------------------------------------------------------
\* The safety properties

LEMMA InvParts ==
    ASSUME Inv
    PROVE  /\ ClientOK(client) /\ LedgerOK(ledger) /\ IsBudget(budget) /\ CanvasOK(canvas)
           /\ WorkerOK(worker) /\ sockets \in [Connections -> SocketStates] /\ ServerOK(server)
           /\ Placed(Now, {}) /\ AtWork(Now, {}) /\ Owned(Now, {}) /\ Accounts(Now, {})
           /\ Budgets(Now, {}) /\ Fresh(Now) /\ Settled(Now)
<1>1. Core(Now, {}) /\ Fresh(Now) /\ Settled(Now) BY DEF Inv, Sound
<1>2. Typed(Now) BY <1>1 DEF Core
<1> QED BY <1>1, <1>2, NowFields DEF Core, Typed

LEMMA InvTypeOK == Inv => TypeOK
<1> SUFFICES ASSUME Inv PROVE TypeOK
  OBVIOUS
<1>1. ClientOK(client) /\ LedgerOK(ledger) /\ IsBudget(budget) /\ CanvasOK(canvas)
      /\ WorkerOK(worker) /\ sockets \in [Connections -> SocketStates]
  BY InvParts
<1>2. canvas.manifest \in {NoImage, client.manifest} BY InvParts, NowFields DEF Fresh
<1>3. DOMAIN budget.reservations \subseteq DOMAIN client.pending
  BY InvParts, NowFields DEF Budgets, Pending
<1>4. /\ client.connectionId \in Connections /\ client.epoch \in 0..MaxEpoch
      /\ {client.selected, client.manifest, canvas.manifest} \subseteq Images \cup {NoImage}
      /\ client.plan \in {NoPlan, 0, 1} /\ client.phase \in Phases /\ client.error \in Errors
      /\ DOMAIN client.pending \subseteq Jobs
      /\ {client.received, client.terminal, client.releases, client.pendingPresentations}
            \subseteq Nat
  BY <1>1, <1>2 DEF ClientOK
<1>5. /\ DOMAIN ledger.active \subseteq Deliveries /\ Len(ledger.released) <= MaxReleasedHistory
      /\ {budget.transientBytes, budget.contextBytes, budget.detailBytes} \subseteq Nat
      /\ DOMAIN canvas.entries \subseteq Tiles
      /\ worker.active \subseteq Jobs
      /\ Cardinality(worker.active) <= MaxActive /\ Len(worker.queue) <= MaxQueuedJobs
  BY <1>1 DEF LedgerOK, IsBudget, CanvasOK, WorkerOK, IsWorker, InLimits
<1>6. DOMAIN budget.reservations \subseteq Jobs BY <1>3, <1>4
<1> QED BY <1>1, <1>4, <1>5, <1>6 DEF TypeOK, Phases, Errors, SocketStates

\* The client, what it holds and the worker have their type (LupaClient.ts), and
\* the worker its limits (decodeWorker.ts).
THEOREM TypeOKAlways == Spec => []TypeOK
  BY InvAlways, InvTypeOK, PTL

LEMMA InvNothingStaleOnCanvas == Inv => NothingStaleOnCanvas
<1> SUFFICES ASSUME Inv PROVE NothingStaleOnCanvas
  OBVIOUS
<1>1. canvas.manifest \in {NoImage, client.manifest} BY InvParts, NowFields DEF Fresh
<1>2. ASSUME NEW t \in DOMAIN canvas.entries
      PROVE  LET job == canvas.entries[t].job
             IN  /\ job.connection = client.connectionId /\ job.image = client.manifest
                 /\ Level[t] # 0 => job.epoch = client.epoch
  BY InvParts, NowFields DEF Fresh, Placed
<1> QED BY <1>1, <1>2 DEF NothingStaleOnCanvas

\* What the canvas shows is of the image and the connection of today, and its
\* detail of the view of today (onWorker, isOutdated and the resets of the
\* compositor), whatever answers of the worker are late.
THEOREM NothingStaleOnCanvasAlways == Spec => []NothingStaleOnCanvas
  BY InvAlways, InvNothingStaleOnCanvas, PTL

LEMMA InvObservingIsSettled == Inv => ObservingIsSettled
BY InvParts, NowFields DEF ObservingIsSettled, Settled, Pending

\* "observing" is only said when nothing waits to be decoded or drawn
\* (updateCompletionPhase), whatever the order of DONE, the answers and the frames.
THEOREM ObservingIsSettledAlways == Spec => []ObservingIsSettled
  BY InvAlways, InvObservingIsSettled, PTL

LEMMA InvBudgetExact == Inv => BudgetExact
<1> SUFFICES ASSUME Inv PROVE BudgetExact
  OBVIOUS
<1>1. Budgets(Now, {}) BY InvParts
<1>2. /\ budget.transientBytes = ReservedBytes(budget)
      /\ budget.contextBytes = KeptBytes(canvas.entries, "context")
      /\ budget.detailBytes = KeptBytes(canvas.entries, "detail")
      /\ budget.contextBytes + budget.transientBytes <= TransientBudgetBytes
      /\ budget.detailBytes <= DetailBudgetBytes
      /\ DOMAIN budget.reservations \subseteq DOMAIN client.pending
  BY <1>1, NowFields DEF Budgets, Pending
<1>3. budget.transientBytes = SumFunction(budget.reservations)
  BY <1>2 DEF ReservedBytes, SumFunction, SumFunctionOnSet, FoldFunction
<1>4. \A kind : KeptBytes(canvas.entries, kind) =
          MapThenSumSet(LAMBDA t : Bytes[t], {t \in DOMAIN canvas.entries : canvas.entries[t].kind = kind})
  BY BytesSum DEF KeptBytes, KeptTiles
<1> QED BY <1>2, <1>3, <1>4 DEF BudgetExact

\* The counters of BitmapBudget are what is reserved and what the canvas keeps,
\* over reconnections, openings and late answers; no budget is exceeded, and no
\* reservation outlives its job.
THEOREM BudgetExactAlways == Spec => []BudgetExact
  BY InvAlways, InvBudgetExact, PTL

\* Each tile of the canvas that was not drawn has a delivery of its own.
LEMMA UndrawnCounted ==
    ASSUME Inv
    PROVE  Cardinality(Undrawn) = Cardinality(Unpresented(canvas, Tiles))
<1> DEFINE U == Unpresented(canvas, Tiles)
           f == [t \in U |-> canvas.entries[t].job.delivery]
<1>1. /\ IsFiniteSet(U) /\ UndrawnTiles(Now) = U
  <2>1. Now.canvas = canvas /\ CanvasOK(Now.canvas) BY InvParts, NowFields
  <2>2. UndrawnTiles(Now) \in SUBSET UndrawnTiles(Now) OBVIOUS
  <2> QED BY <2>1, <2>2, UndrawnFinite DEF UndrawnTiles
<1>2. ASSUME NEW t \in U PROVE canvas.entries[t].job \in Held(Now, {}) /\ canvas.entries[t].job.tile = t
  BY <1>1, InvParts, NowFields DEF Placed, Held, UndrawnJobs, UndrawnTiles, Unpresented
<1>3. \A t, k \in U : f[t] = f[k] => t = k
  <2> SUFFICES ASSUME NEW t \in U, NEW k \in U, f[t] = f[k] PROVE t = k
    OBVIOUS
  <2>1. canvas.entries[t].job.delivery = canvas.entries[k].job.delivery OBVIOUS
  <2>2. canvas.entries[t].job = canvas.entries[k].job BY <1>2, <2>1, InvParts DEF Placed
  <2> QED BY <1>2, <2>2
<1>4. Undrawn = {f[t] : t \in U} BY DEF Undrawn
<1>5. f \in Bijection(U, Undrawn)
  <2>1. f \in [U -> Undrawn] /\ \A d \in Undrawn : \E t \in U : f[t] = d BY <1>4
  <2> HIDE DEF f, U
  <2> QED BY <1>3, <2>1 DEF Bijection, Injection, Surjection, IsInjective
<1> HIDE DEF f, U
<1>6. ExistsBijection(U, Undrawn) BY <1>5 DEF ExistsBijection
<1> QED BY <1>1, <1>6, FS_Bijection DEF U

LEMMA InvAccountsBalance == Inv => AccountsBalance
<1> SUFFICES ASSUME Inv PROVE AccountsBalance
  OBVIOUS
<1>1. Accounts(Now, {}) /\ ClientOK(client) /\ ServerOK(server) BY InvParts
<1>2. UndrawnTiles(Now) = Unpresented(canvas, Tiles) BY NowFields DEF UndrawnTiles
<1>3. /\ client.pendingPresentations = Cardinality(Undrawn)
      /\ Unpresented(canvas, Tiles) # {} => canvas.frame
  BY <1>1, <1>2, NowFields, UndrawnCounted DEF Accounts
<1>4. Undrawn # {} => canvas.frame BY <1>3 DEF Undrawn
<1>5. MapThenSumSet(LAMBDA d : server.deliveries[d].receipt.asks, DOMAIN server.deliveries)
            = SumOfAsks(server.deliveries)
  <2> DEFINE ds == server.deliveries
  <2>1. IsFiniteSet(DOMAIN ds) BY <1>1, AskedNumbers
  <2> QED BY <2>1, AsksSum
<1>6. client.welcome =>
        /\ client.received = client.terminal + Cardinality(DOMAIN client.pending)
                                + client.pendingPresentations
        /\ IsOpen(Now) => client.terminal = client.releases + SumOfAsks(server.deliveries)
  <2>1. Cardinality({}) = 0 /\ Cardinality(Pending(Now)) \in Nat /\ Pending(Now) = DOMAIN client.pending
    BY <1>1, NowFields, FS_EmptySet, FS_CardinalityType DEF ClientOK, Pending
  <2>2. client.terminal \in Nat /\ client.pendingPresentations \in Nat BY <1>1 DEF ClientOK
  <2> QED BY <1>1, <2>1, <2>2, NowFields DEF Accounts
<1> QED BY <1>3, <1>4, <1>5, <1>6 DEF AccountsBalance

\* The account of the trace: each tile received is pending or has ended, and
\* those that ended are the confirmations and the requests to send a tile again
\* (docs/A22.md:148-149 counts the confirmations only); those that wait for a
\* frame are counted, and a frame was requested.
THEOREM AccountsBalanceAlways == Spec => []AccountsBalance
  BY InvAlways, InvAccountsBalance, PTL

LEMMA InvEveryTileHasAnOwner == Inv => EveryTileHasAnOwner
<1> SUFFICES ASSUME Inv PROVE EveryTileHasAnOwner
  OBVIOUS
<1>1. WorkerOK(worker) /\ LedgerOK(ledger) /\ AtWork(Now, {}) /\ Owned(Now, {}) /\ Placed(Now, {})
  BY InvParts
<1>2. AtTheWorker = JobsOf(worker)
  <2>1. worker.queue \in Seq(Jobs) /\ worker.outbox \in Seq(Answers) BY <1>1 DEF WorkerOK, IsWorker
  <2>2. ToSet(worker.queue) = InQueue(worker) BY <2>1 DEF ToSet, InQueue
  <2>3. {answer.job : answer \in ToSet(worker.outbox)} = InOutbox(worker)
    BY <2>1 DEF ToSet, InOutbox
  <2> QED BY <2>2, <2>3 DEF AtTheWorker, JobsOf
<1>3. /\ DOMAIN client.pending \subseteq AtTheWorker
      /\ Cardinality(AtTheWorker) =
            Cardinality(worker.active) + Len(worker.queue) + Len(worker.outbox)
  BY <1>1, <1>2, NowFields, JobsCounted DEF AtWork, Pending
<1>4. ASSUME IsOpen(Now)
      PROVE  /\ DOMAIN ledger.active = Decoding \cup Undrawn \cup Awaited
             /\ Decoding \cap Undrawn = {}
             /\ Awaited \cap (Decoding \cup Undrawn) = {}
  <2>1. /\ Decoding = {j.delivery : j \in Pending(Now)}
        /\ Undrawn = {j.delivery : j \in UndrawnJobs(Now)}
    BY NowFields DEF Decoding, Undrawn, Pending, UndrawnJobs, UndrawnTiles
  <2>2. Held(Now, {}) = Pending(Now) \cup UndrawnJobs(Now) BY DEF Held
  <2>3. /\ \A d \in DOMAIN ledger.active :
            ledger.active[d].retryExpected \/ \E j \in Held(Now, {}) : j.delivery = d
        /\ \A j \in Held(Now, {}) :
            j.delivery \in DOMAIN ledger.active /\ ~ledger.active[j.delivery].retryExpected
    BY <1>1, <1>4, NowFields DEF Owned
  <2>4. /\ \A j, k \in Held(Now, {}) : j.delivery = k.delivery => j = k
        /\ Pending(Now) \cap UndrawnJobs(Now) = {}
    BY <1>1 DEF Placed
  <2>5. DOMAIN ledger.active = Decoding \cup Undrawn \cup Awaited BY <2>1, <2>2, <2>3 DEF Awaited
  <2>6. Decoding \cap Undrawn = {} BY <2>1, <2>2, <2>4
  <2>7. Awaited \cap (Decoding \cup Undrawn) = {} BY <2>1, <2>2, <2>3 DEF Awaited
  <2> QED BY <2>5, <2>6, <2>7
<1> QED BY <1>3, <1>4 DEF EveryTileHasAnOwner

\* While the socket is open, a delivery that is not confirmed is in the hands of
\* exactly one of the worker, the canvas and the server, and what waits for the
\* worker is there, in one place.
THEOREM EveryTileHasAnOwnerAlways == Spec => []EveryTileHasAnOwner
  BY InvAlways, InvEveryTileHasAnOwner, PTL

LEMMA StepAccuses == Inv /\ [Next]_vars => [Accuses => SelectedWithoutOpen \/ ForgottenImage]_vars
<1> SUFFICES ASSUME Inv, Next PROVE Accuses => SelectedWithoutOpen \/ ForgottenImage
  OBVIOUS
<1>1. PICK z : Steps(z) BY NextSteps
<1> QED BY <1>1 DEF Steps

\* A server that follows the protocol is never accused of violating it
\* (protocolViolation), but in two cases: an image was selected when the epochs
\* are exhausted, or a copy was asked for of an image the history forgot.
THEOREM NoFalseViolationAlways == Spec => NoFalseViolation
<1>1. Inv /\ [Next]_vars => [Accuses => SelectedWithoutOpen \/ ForgottenImage]_vars BY StepAccuses
<1> QED BY <1>1, InvAlways, PTL DEF Spec, NoFalseViolation

--------------------------------------------------------------------------------
\* The receipts

TheReceipts == [d \in Deliveries |-> ReceiptOf(d)]

ReceiptsOK == TheReceipts \in [Deliveries -> Receipts!Receipt]

LEMMA ReceiptsTyped == Inv => ReceiptsOK
<1> SUFFICES ASSUME Inv PROVE ReceiptsOK
  OBVIOUS
<1>1. server.deliveries \in Seq(Sent) BY InvParts DEF ServerOK
<1>2. \A d \in DOMAIN server.deliveries : server.deliveries[d].receipt \in Counts
  <2> TAKE d \in DOMAIN server.deliveries
  <2>1. server.deliveries[d] \in Sent BY <1>1
  <2> QED BY <2>1 DEF Sent
<1>3. \A d \in Deliveries : ReceiptOf(d) \in Counts BY <1>2 DEF ReceiptOf, Counts
<1> QED BY <1>3 DEF ReceiptsOK, TheReceipts, Receipts!Receipt, Counts

LEMMA InitReceipts == Init => Receipts!Init
<1> SUFFICES ASSUME Init PROVE Receipts!Init
  OBVIOUS
<1>1. DOMAIN server.deliveries = {} BY DEF Init, FreshServer
<1> QED BY <1>1 DEF Receipts!Init, Receipts!Nothing, ReceiptOf

LEMMA StepReceipts == Inv /\ ReceiptsOK' /\ [Next]_vars => [Receipts!Next]_TheReceipts
<1> SUFFICES ASSUME Inv, ReceiptsOK', [Next]_vars, TheReceipts' # TheReceipts PROVE Receipts!Next
  OBVIOUS
<1>1. CASE Next
  <2>1. PICK z : Steps(z) BY <1>1, NextSteps
  <2>2. Now.server = server /\ server' = z.server BY <2>1 DEF Steps, Becomes, Now
  <2>3. ASSUME Goes(Now, z) PROVE Receipts!Exchange
    <3>1. \A d \in Deliveries : Receipts!Continues(ReceiptOf(d), ReceiptOf(d)')
      BY <2>2, <2>3 DEF Goes, ReceiptAt, ReceiptOf
    <3>2. TheReceipts' \in [Deliveries -> Receipts!Receipt] BY DEF ReceiptsOK
    <3>3. \A d \in Deliveries : TheReceipts[d] = ReceiptOf(d) /\ TheReceipts'[d] = ReceiptOf(d)'
      BY DEF TheReceipts
    <3> QED BY <3>1, <3>2, <3>3 DEF Receipts!Exchange, TheReceipts
  <2>4. ASSUME z.server.deliveries = <<>> PROVE Receipts!StartOver
    <3>1. DOMAIN server'.deliveries = {} BY <2>2, <2>4
    <3> QED BY <3>1 DEF Receipts!StartOver, Receipts!Nothing, ReceiptOf
  <2> QED BY <2>1, <2>3, <2>4 DEF Steps, Receipts!Next
<1>2. CASE UNCHANGED vars BY <1>2 DEF vars, TheReceipts, ReceiptOf
<1> QED BY <1>1, <1>2

\* The browser keeps its promise about receipts (TileReceipts), for any number of
\* connections and deliveries: it confirms a tile at most once, and asks for it
\* again only what DeliveryLedger allows.
THEOREM KeepsTheReceipts == Spec => ImplementsReceipts
<1>1. Init => Receipts!Init BY InitReceipts
<1>2. Inv /\ ReceiptsOK' /\ [Next]_vars => [Receipts!Next]_TheReceipts BY StepReceipts
<1> QED
  BY <1>1, <1>2, InvAlways, ReceiptsTyped, PTL
     DEF Spec, ImplementsReceipts, Receipts!Spec, TheReceipts

================================================================================
