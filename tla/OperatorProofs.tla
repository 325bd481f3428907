----------------------------- MODULE OperatorProofs -----------------------------
(***************************************************************************)
(* Theorems about the operator: its reconcile, for any specs, Secrets and  *)
(* number of edits and faults, and the election of the replica that does   *)
(* it, for any number of replicas and any lease, renewal and call times    *)
(* within ElectionAssumption.                                              *)
(***************************************************************************)
EXTENDS OperatorReconcile, LeaderElection, TLAPS

-----------------------------------------------------------------------------
(***************************************************************************)
(* OperatorReconcile.                                                      *)
(***************************************************************************)

\* What the type invariant says of the record variables.
LEMMA Typing ==
    ASSUME TypeOK
    PROVE  /\ pass = Idle <=> pass.at = "idle"
           /\ pass # Idle => pass \in Passes
           /\ control # None => control \in Deployments
           /\ proxy # None => proxy \in Deployments
           /\ cr.gen \in Nat /\ cached.gen \in Nat /\ cr.status.gen \in Nat
           /\ cr.spec \in Specs /\ cached.spec \in Specs
           /\ cr.status \in Statuses /\ cached.status \in Statuses
BY DEF TypeOK, Passes, Steps, Idle, Resources, Statuses

\* A pass p goes on as q: only its step differs.
Moved(p, q, to) ==
    /\ q \in Passes /\ q # Idle /\ q.at = to /\ q.obj = p.obj /\ q.hash = p.hash
    /\ q.csel = p.csel /\ q.psel = p.psel /\ q.ready = p.ready /\ q.atTarget = p.atTarget
    /\ q.serving = p.serving /\ q.image = p.image /\ q.shown = p.shown
    /\ q.clean = p.clean /\ q.bootstrapped = p.bootstrapped

\* Goto changes only the step of a pass.
LEMMA GotoMoves ==
    ASSUME NEW p \in Passes, NEW to \in Steps
    PROVE  Moved(p, [p EXCEPT !.at = to], to)
BY DEF Moved, Passes, Steps, Idle

\* What Look writes into a pass.
Looked(p, to, rd, tg, sv, image, shown) ==
    [p EXCEPT !.at = to, !.ready = rd, !.atTarget = tg, !.serving = sv,
              !.image = image, !.shown = shown]

\* A pass stays of its type when Look writes its conclusions into it.
LEMMA LookTypes ==
    ASSUME NEW p \in Passes, NEW to \in Steps, NEW rd \in BOOLEAN, NEW tg \in BOOLEAN,
           NEW sv \in BOOLEAN, NEW image \in Images \cup {None}, NEW shown \in Images \cup {None}
    PROVE  Looked(p, to, rd, tg, sv, image, shown) \in Passes
BY DEF Passes, Looked

\* The resource r after an edit of its spec.
Edited(r, s, n) == [r EXCEPT !.spec = s, !.gen = n]

\* An edit changes the spec and the generation and leaves the status alone.
LEMMA EditedResource ==
    ASSUME NEW r \in Resources, NEW s \in Specs, NEW n \in Nat
    PROVE  /\ Edited(r, s, n) \in Resources
           /\ Edited(r, s, n).gen = n /\ Edited(r, s, n).spec = s
           /\ Edited(r, s, n).status = r.status
BY DEF Resources, Edited

\* A Deployment d is now e: the same template, and only its rollout differs.
SameTemplate(d, e) ==
    e \in Deployments /\ e.image = d.image /\ e.hash = d.hash /\ e.sel = d.sel

\* Neither a rollout, a failing pod nor the strategy patch changes a template.
LEMMA RolloutKeepsTemplate ==
    ASSUME NEW d \in Deployments
    PROVE  /\ SameTemplate(d, Rolled(d))
           /\ SameTemplate(d, [d EXCEPT !.observed = TRUE, !.updated = FALSE, !.ready = FALSE])
           /\ SameTemplate(d, [d EXCEPT !.ready = FALSE])
           /\ SameTemplate(d, [d EXCEPT !.recreate = TRUE])
BY DEF SameTemplate, Deployments, Rolled

\* What an accepted apply leaves: the wanted image, a live selector kept, and a
\* Deployment that counts as observed and ready only when its template is not new.
LEMMA ApplyFacts ==
    ASSUME NEW live \in Deployments \cup {None}, NEW want \in Wants
    PROVE  /\ apply(live, want) \in Deployments
           /\ apply(live, want).image = want.image
           /\ live # None => apply(live, want).sel = live.sel
           /\ live = None => apply(live, want).sel = want.sel
           /\ apply(live, want).observed /\ apply(live, want).ready =>
                live # None /\ live.observed /\ live.ready /\ live.image = want.image
<1>1. CASE live = None
  BY <1>1 DEF apply, Wants, Deployments
<1>2. CASE live # None
  <2>1. live \in Deployments
    BY <1>2
  <2>2. apply(live, want) = [live EXCEPT !.image = want.image, !.hash = want.hash, !.recreate = want.recreate,
             !.observed = @ /\ live.image = want.image /\ live.hash = want.hash]
    BY <1>2 DEF apply
  <2>3. (live.observed /\ live.image = want.image /\ live.hash = want.hash) \in BOOLEAN
    OBVIOUS
  <2> QED
    BY <1>2, <2>1, <2>2, <2>3 DEF Wants, Deployments
<1> QED
  BY <1>1, <1>2

\* Every spec names an image.
LEMMA ImagesOf == ASSUME NEW s \in Specs PROVE s.image \in Images /\ s.image # None
BY OperatorAssumption DEF Images

\* selector_or adopts a live selector.
LEMMA Selector ==
    ASSUME NEW x \in Selectors \cup {None}
    PROVE  selector_or(x) \in Selectors /\ (x # None => selector_or(x) = x)
BY OperatorAssumption DEF selector_or, Selectors

\* What a pass renders for the two Deployments.
LEMMA WantsOfPass ==
    ASSUME NEW p \in Passes
    PROVE  /\ control_deployment(p) \in Wants /\ control_deployment(p).image = p.obj.spec.image
           /\ control_deployment(p).sel = selector_or(p.csel)
           /\ p.image # None => proxy_deployment(p) \in Wants
           /\ proxy_deployment(p).image = p.image /\ proxy_deployment(p).sel = selector_or(p.psel)
<1>1. /\ p.obj.spec \in Specs /\ p.hash \in Hashes /\ p.csel \in Selectors \cup {None}
      /\ p.psel \in Selectors \cup {None} /\ p.image \in Images \cup {None}
  BY DEF Passes, Resources
<1>2. p.obj.spec.image \in Images
  BY <1>1, ImagesOf
<1>3. selector_or(p.csel) \in Selectors /\ selector_or(p.psel) \in Selectors
  BY <1>1, Selector
<1> QED
  BY <1>1, <1>2, <1>3 DEF control_deployment, proxy_deployment, Wants

\* What every step lemma starts from.
Known ==
    /\ TypeOK /\ OnTheCache /\ OnlyRolled /\ BootstrapKnown /\ PassProgress /\ ReadyIsTrue
    /\ pass = Idle <=> pass.at = "idle"
    /\ pass # Idle => pass \in Passes
    /\ control # None => control \in Deployments
    /\ proxy # None => proxy \in Deployments
    /\ cr.gen \in Nat /\ cached.gen \in Nat /\ cr.status.gen \in Nat
    /\ cr.spec \in Specs /\ cached.spec \in Specs
    /\ cr.status \in Statuses /\ cached.status \in Statuses

\* The invariant, with the typing of the records spelt out.
LEMMA WhatIsKnown == IInv => Known
BY Typing DEF IInv, Known

\* A pass begins, on the cache's copy or on the server's.
LEMMA BeginKeeps ==
    ASSUME IInv, NEW obj \in {cached, cr}, Begin(obj)
    PROVE  IInv'
<1>0. Known
  BY WhatIsKnown
<1>1. obj \in Resources /\ obj.spec \in Specs /\ obj.status \in Statuses
  BY <1>0 DEF Known, TypeOK, Resources
<1>2. config_hash(obj.spec) \in Hashes
  BY <1>0, <1>1 DEF config_hash, Hashes, Known, TypeOK
<1>3. /\ pass' \in Passes /\ pass' # Idle /\ pass'.at \in {"degraded", "objects"} /\ pass'.obj = obj
      /\ pass'.image = None /\ pass'.clean = TRUE
      /\ pass'.bootstrapped = obj.status.bootstrapped
  BY <1>1, <1>2 DEF Begin, Passes, Steps, Statuses, Idle
<1>4. /\ pass = Idle /\ up /\ cached' = obj
      /\ UNCHANGED <<cr, secrets, control, proxy, objs, job, up, late, work, rolled, touched>>
  BY <1>0 DEF Known, Begin, At, cluster
<1>5. TypeOK'
  BY <1>0, <1>1, <1>3, <1>4 DEF Known, Resources, TypeOK, cluster
<1>6. OnTheCache'
  BY <1>0, <1>1, <1>3, <1>4 DEF Known, Resources, OnTheCache, cluster
<1>7. OnlyRolled'
  BY <1>0, <1>1, <1>3, <1>4 DEF Known, Resources, OnlyRolled, cluster
<1>8. BootstrapKnown'
  BY <1>0, <1>1, <1>3, <1>4 DEF Known, Resources, BootstrapKnown, OnTheCache, cluster
<1>9. PassProgress'
  BY <1>0, <1>1, <1>3, <1>4 DEF Known, Resources, PassProgress, ReadyClaimed, ReadyIsTrue, OnTheCache, cluster
<1>10. ReadyIsTrue'
  BY <1>0, <1>1, <1>3, <1>4 DEF Known, Resources, ReadyIsTrue, PassProgress, ReadyClaimed, OnTheCache, cluster
<1> QED
  BY <1>5, <1>6, <1>7, <1>8, <1>9, <1>10 DEF IInv

\* Preflight failed and the status says so.
LEMMA DegradedKeeps ==
    ASSUME IInv, ReportDegraded
    PROVE  IInv'
<1>0. Known
  BY WhatIsKnown
<1>1. /\ pass \in Passes /\ pass # Idle /\ pass.obj = cached /\ up /\ pass' = Idle
      /\ UNCHANGED <<cached, secrets, control, proxy, objs, job, up, late, work, rolled, touched>>
  BY <1>0 DEF Known, OnTheCache, ReportDegraded, write_status, At, cluster
<1>2. PICK st :
        /\ st = [cached.status EXCEPT !.phase = "Degraded", !.gen = cached.gen]
        /\ cr' = (IF st = cached.status THEN cr ELSE [cr EXCEPT !.status = st])
  BY <1>1 DEF ReportDegraded, write_status
<1>3. /\ st \in Statuses /\ st.phase = "Degraded" /\ st.gen = cached.gen
      /\ st.bootstrapped = cached.status.bootstrapped
  BY <1>0, <1>2 DEF Known, Statuses
<1>4. /\ cr' \in Resources /\ cr'.gen = cr.gen /\ cr'.spec = cr.spec
      /\ \/ cr' = cr
         \/ /\ cr'.status.phase = "Degraded" /\ cr'.status.gen = cached.gen
            /\ cr'.status.bootstrapped = cached.status.bootstrapped
  BY <1>0, <1>2, <1>3 DEF Known, TypeOK, Resources
<1>5. TypeOK'
  BY <1>0, <1>1, <1>4 DEF Known, Resources, TypeOK, cluster
<1>6. OnTheCache'
  BY <1>0, <1>1, <1>4 DEF Known, Resources, OnTheCache, cluster
<1>7. OnlyRolled'
  BY <1>0, <1>1, <1>4 DEF Known, Resources, OnlyRolled, cluster
<1>8. BootstrapKnown'
  BY <1>0, <1>1, <1>4 DEF Known, Resources, BootstrapKnown, OnTheCache, cluster
<1>9. PassProgress'
  BY <1>0, <1>1, <1>4 DEF Known, Resources, PassProgress, ReadyClaimed, ReadyIsTrue, OnTheCache, cluster
<1>10. ReadyIsTrue'
  BY <1>0, <1>1, <1>4 DEF Known, Resources, ReadyIsTrue, PassProgress, ReadyClaimed, OnTheCache, cluster
<1> QED
  BY <1>5, <1>6, <1>7, <1>8, <1>9, <1>10 DEF IInv

\* The objects, the live selectors, the strategy.
LEMMA PrepareKeeps ==
    ASSUME IInv, Prepare
    PROVE  IInv'
<1>0. Known
  BY WhatIsKnown
<1>1. /\ pass \in Passes /\ pass # Idle /\ up /\ pass.at = "objects"
      /\ UNCHANGED <<cr, cached, secrets, proxy, job, up, late, work, rolled, touched>>
  BY <1>0 DEF Known, Prepare, At
<1>2. /\ control = None => control' = None
      /\ control # None => control' # None /\ SameTemplate(control, control')
                          /\ control'.observed = control.observed /\ control'.ready = control.ready
  <2>1. CASE control = None
    BY <2>1 DEF Prepare, ensure_recreate_strategy
  <2>2. CASE control # None
    <3>1. control' = [control EXCEPT !.recreate = TRUE] /\ control \in Deployments
      BY <1>0, <2>2 DEF Known, Prepare, ensure_recreate_strategy
    <3>2. SameTemplate(control, control')
      BY <3>1, RolloutKeepsTemplate
    <3> QED
      BY <2>2, <3>1, <3>2, OperatorAssumption DEF Deployments, SameTemplate
  <2> QED
    BY <2>1, <2>2
<1>3. /\ pass' \in Passes /\ pass' # Idle /\ pass'.at = "control" /\ pass'.obj = pass.obj
      /\ pass'.psel = (IF proxy = None THEN None ELSE proxy.sel) /\ pass'.image = pass.image
      /\ pass'.clean = pass.clean /\ pass'.bootstrapped = pass.bootstrapped
  BY <1>0, <1>1 DEF Known, Prepare, ApplyObjects, Passes, Steps, Idle, Deployments
<1>4. /\ objs'.config = pass.obj.spec.tuning /\ objs'.extras = objs.extras /\ objs'.proxy = objs.proxy
      /\ objs' \in [config : {s.tuning : s \in Specs} \cup {None},
                    extras : {Wanted(s) : s \in Specs} \cup {{}},
                    control : Selectors \cup {None}, proxy : Selectors \cup {None}]
  BY <1>0, <1>1 DEF Known, TypeOK, OnTheCache, Prepare, ApplyObjects
<1>5. TypeOK'
  BY <1>0, <1>1, <1>2, <1>3, <1>4 DEF Known, SameTemplate, TypeOK, cluster
<1>6. OnTheCache'
  BY <1>0, <1>1, <1>2, <1>3, <1>4 DEF Known, SameTemplate, OnTheCache, cluster
<1>7. OnlyRolled'
  BY <1>0, <1>1, <1>2, <1>3, <1>4 DEF Known, SameTemplate, OnlyRolled, cluster
<1>8. BootstrapKnown'
  BY <1>0, <1>1, <1>2, <1>3, <1>4 DEF Known, SameTemplate, BootstrapKnown, OnTheCache, cluster
<1>9. PassProgress'
  BY <1>0, <1>1, <1>2, <1>3, <1>4 DEF Known, SameTemplate, PassProgress, ReadyClaimed, ReadyIsTrue, OnTheCache, cluster
<1>10. ReadyIsTrue'
  BY <1>0, <1>1, <1>2, <1>3, <1>4 DEF Known, SameTemplate, ReadyIsTrue, PassProgress, ReadyClaimed, OnTheCache, cluster
<1> QED
  BY <1>5, <1>6, <1>7, <1>8, <1>9, <1>10 DEF IInv

\* The control plane's Deployment is applied.
LEMMA ApplyControlKeeps ==
    ASSUME IInv, ApplyControl
    PROVE  IInv'
<1>0. Known
  BY WhatIsKnown
<1>1. /\ pass \in Passes /\ pass # Idle /\ up /\ pass.at = "control" /\ pass.obj = cached
      /\ UNCHANGED <<cr, cached, secrets, proxy, job, up, late, work, rolled, touched>>
  BY <1>0 DEF Known, OnTheCache, ApplyControl, At
<1>2. control_deployment(pass) \in Wants /\ control_deployment(pass).image = cached.spec.image
  BY <1>1, WantsOfPass
<1>3. \/ pass' = Idle /\ control' = control /\ objs' = objs
      \/ /\ Moved(pass, pass', "look")
         /\ control' = apply(control, control_deployment(pass))
         /\ objs' = [objs EXCEPT !.control = control_deployment(pass).sel]
  BY <1>1, GotoMoves DEF ApplyControl, Goto, Steps
<1>4. \/ pass' = Idle /\ control' = control /\ objs' = objs
      \/ /\ Moved(pass, pass', "look")
         /\ control' \in Deployments /\ control'.image = cached.spec.image /\ control' # None
         /\ control'.observed /\ control'.ready =>
              control # None /\ control.observed /\ control.ready /\ control.image = cached.spec.image
         /\ objs'.config = objs.config /\ objs'.extras = objs.extras /\ objs'.proxy = objs.proxy
         /\ objs' \in [config : {s.tuning : s \in Specs} \cup {None},
                       extras : {Wanted(s) : s \in Specs} \cup {{}},
                       control : Selectors \cup {None}, proxy : Selectors \cup {None}]
  <2>1. control \in Deployments \cup {None} /\ control_deployment(pass).sel \in Selectors
    BY <1>0, <1>2 DEF Known, Wants
  <2>2. LET new == apply(control, control_deployment(pass)) IN
        /\ new \in Deployments /\ new.image = cached.spec.image /\ new # None
        /\ new.observed /\ new.ready =>
             control # None /\ control.observed /\ control.ready /\ control.image = cached.spec.image
    BY <1>2, <2>1, ApplyFacts, OperatorAssumption
  <2> QED
    BY <1>0, <1>3, <2>1, <2>2 DEF Known, TypeOK
<1>5. TypeOK'
  BY <1>0, <1>1, <1>4 DEF Known, Moved, TypeOK, cluster
<1>6. OnTheCache'
  BY <1>0, <1>1, <1>4 DEF Known, Moved, OnTheCache, cluster
<1>7. OnlyRolled'
  BY <1>0, <1>1, <1>4 DEF Known, Moved, OnlyRolled, cluster
<1>8. BootstrapKnown'
  BY <1>0, <1>1, <1>4 DEF Known, Moved, BootstrapKnown, OnTheCache, cluster
<1>9. PassProgress'
  BY <1>0, <1>1, <1>4 DEF Known, Moved, PassProgress, ReadyClaimed, ReadyIsTrue, OnTheCache, cluster
<1>10. ReadyIsTrue'
  BY <1>0, <1>1, <1>4 DEF Known, Moved, ReadyIsTrue, PassProgress, ReadyClaimed, OnTheCache, cluster
<1> QED
  BY <1>5, <1>6, <1>7, <1>8, <1>9, <1>10 DEF IInv

\* The pass looks at both Deployments and decides on the gateway's image.
LEMMA LookKeeps ==
    ASSUME IInv, Look
    PROVE  IInv'
<1>0. Known
  BY WhatIsKnown
<1>1. /\ pass \in Passes /\ pass # Idle /\ up /\ pass.at = "look" /\ pass.obj = cached
      /\ UNCHANGED <<cr, cached, secrets, control, proxy, objs, job, up, late, work, rolled, touched>>
  BY <1>0 DEF Known, OnTheCache, Look, At, cluster
<1>2. PICK image, shown, rd, tg, sv :
        /\ rd = Ready(control) /\ tg = deployment_at(cached.spec.image, control) /\ sv = Ready(proxy)
        /\ image = proxy_image(cached.spec.image, deployment_at(cached.spec.image, control), running_image(proxy))
        /\ shown = (IF image # None THEN image
                    ELSE IF control # None THEN control.image ELSE cached.spec.image)
        /\ pass' = [pass EXCEPT !.at = IF image = None THEN "service" ELSE "proxy",
                     !.ready = rd, !.atTarget = tg, !.serving = sv, !.image = image, !.shown = shown]
  BY <1>1 DEF Look
<1>3. cached.spec.image \in Images /\ image \in Images \cup {None} /\ shown \in Images \cup {None}
  BY <1>0, <1>2, ImagesOf DEF Known, proxy_image, running_image, Deployments
<1>4. /\ image # None => image \in rolled
      /\ image # None => image = cached.spec.image \/ (proxy # None /\ image = proxy.image)
  BY <1>0, <1>2 DEF Known, OnlyRolled, proxy_image, running_image, deployment_at
<1>5. rd \in BOOLEAN /\ sv \in BOOLEAN /\ tg \in BOOLEAN
  BY <1>0, <1>2 DEF Known, Ready, deployment_at, Deployments
<1>6. /\ pass' \in Passes /\ pass' # Idle
      /\ pass'.at = (IF image = None THEN "service" ELSE "proxy") /\ pass'.obj = pass.obj
      /\ pass'.psel = pass.psel /\ pass'.image = image
      /\ pass'.clean = pass.clean /\ pass'.bootstrapped = pass.bootstrapped
  <2>1. PICK to \in {"service", "proxy"} : to = IF image = None THEN "service" ELSE "proxy"
    OBVIOUS
  <2>2. pass' = Looked(pass, to, rd, tg, sv, image, shown)
    BY <1>2, <2>1 DEF Looked
  <2>3. pass' \in Passes
    <3>1. to \in Steps
      BY <2>1 DEF Steps
    <3> QED
      BY <1>1, <1>3, <1>5, <2>2, <3>1, LookTypes
  <2>4. /\ pass'.at = to /\ pass'.obj = pass.obj /\ pass'.psel = pass.psel
        /\ pass'.image = image /\ pass'.clean = pass.clean
        /\ pass'.bootstrapped = pass.bootstrapped
    BY <1>1, <2>2 DEF Passes, Looked
  <2> QED
    BY <2>1, <2>3, <2>4 DEF Idle
<1>7. TypeOK'
  BY <1>0, <1>1, <1>4, <1>6 DEF Known, Moved, TypeOK, cluster
<1>8. OnTheCache'
  BY <1>0, <1>1, <1>4, <1>6 DEF Known, Moved, OnTheCache, cluster
<1>9. OnlyRolled'
  BY <1>0, <1>1, <1>4, <1>6 DEF Known, Moved, OnlyRolled, cluster
<1>10. BootstrapKnown'
  BY <1>0, <1>1, <1>4, <1>6 DEF Known, Moved, BootstrapKnown, OnTheCache, cluster
<1>11. PassProgress'
  BY <1>0, <1>1, <1>4, <1>6 DEF Known, Moved, PassProgress, ReadyClaimed, ReadyIsTrue, OnTheCache, cluster
<1>12. ReadyIsTrue'
  BY <1>0, <1>1, <1>4, <1>6 DEF Known, Moved, ReadyIsTrue, PassProgress, ReadyClaimed, OnTheCache, cluster
<1> QED
  BY <1>7, <1>8, <1>9, <1>10, <1>11, <1>12 DEF IInv

\* The gateway's Deployment is applied.
LEMMA ApplyProxyKeeps ==
    ASSUME IInv, ApplyProxy
    PROVE  IInv'
<1>0. Known
  BY WhatIsKnown
<1>1. /\ pass \in Passes /\ pass # Idle /\ up /\ pass.at = "proxy" /\ pass.obj = cached
      /\ pass.image # None /\ pass.image \in rolled
      /\ UNCHANGED <<cr, cached, secrets, control, objs, job, up, late, work, rolled, touched>>
  BY <1>0 DEF Known, OnTheCache, OnlyRolled, ApplyProxy, At
<1>2. /\ proxy_deployment(pass) \in Wants /\ proxy_deployment(pass).image = pass.image
      /\ proxy_deployment(pass).sel = selector_or(pass.psel)
  BY <1>1, WantsOfPass
<1>3. \/ pass' = Idle /\ proxy' = proxy
      \/ Moved(pass, pass', "service") /\ proxy' = apply(proxy, proxy_deployment(pass))
  BY <1>1, GotoMoves DEF ApplyProxy, Goto, Steps
<1>4. \/ pass' = Idle /\ proxy' = proxy
      \/ /\ Moved(pass, pass', "service")
         /\ proxy' \in Deployments /\ proxy'.image = pass.image /\ proxy' # None
         /\ proxy # None => proxy'.sel = proxy.sel
         /\ proxy = None => proxy'.sel = selector_or(pass.psel)
  BY <1>0, <1>2, <1>3, ApplyFacts, OperatorAssumption DEF Known, TypeOK
<1>5. /\ pass.psel # None => selector_or(pass.psel) = pass.psel
      /\ proxy # None => proxy.sel \in Selectors /\ proxy.sel # None
  BY <1>0, <1>1, Selector, OperatorAssumption DEF Known, Passes, Deployments
<1>6. TypeOK'
  BY <1>0, <1>1, <1>4, <1>5 DEF Known, Moved, TypeOK, cluster
<1>7. OnTheCache'
  BY <1>0, <1>1, <1>4, <1>5 DEF Known, Moved, OnTheCache, cluster
<1>8. OnlyRolled'
  BY <1>0, <1>1, <1>4, <1>5 DEF Known, Moved, OnlyRolled, cluster
<1>9. BootstrapKnown'
  BY <1>0, <1>1, <1>4, <1>5 DEF Known, Moved, BootstrapKnown, OnTheCache, cluster
<1>10. PassProgress'
  BY <1>0, <1>1, <1>4, <1>5 DEF Known, Moved, PassProgress, ReadyClaimed, ReadyIsTrue, OnTheCache, cluster
<1>11. ReadyIsTrue'
  BY <1>0, <1>1, <1>4, <1>5 DEF Known, Moved, ReadyIsTrue, PassProgress, ReadyClaimed, OnTheCache, cluster
<1> QED
  BY <1>6, <1>7, <1>8, <1>9, <1>10, <1>11 DEF IInv

\* The gateway's Service and the optional objects.
LEMMA RestKeeps ==
    ASSUME IInv, ReconcileRest
    PROVE  IInv'
<1>0. Known
  BY WhatIsKnown
<1>1. /\ pass \in Passes /\ pass # Idle /\ up /\ pass.at = "service" /\ pass.obj = cached
      /\ UNCHANGED <<cr, cached, secrets, control, proxy, job, up, late, work, rolled, touched>>
  BY <1>0 DEF Known, OnTheCache, ReconcileRest, At
<1>2. Moved(pass, pass', "bootstrap")
  BY <1>1, GotoMoves DEF ReconcileRest, Goto, Steps
<1>3. selector_or(pass.psel) \in Selectors
  BY <1>1, Selector DEF Passes
<1>4. /\ objs'.config = objs.config /\ objs'.extras = Wanted(cached.spec)
      /\ pass.image # None => objs'.proxy = selector_or(pass.psel)
      /\ pass.image = None => objs'.proxy = objs.proxy
      /\ objs' \in [config : {s.tuning : s \in Specs} \cup {None},
                    extras : {Wanted(s) : s \in Specs} \cup {{}},
                    control : Selectors \cup {None}, proxy : Selectors \cup {None}]
  BY <1>0, <1>1, <1>3 DEF Known, TypeOK, ReconcileRest
<1>5. TypeOK'
  BY <1>0, <1>1, <1>2, <1>4 DEF Known, Moved, TypeOK, cluster
<1>6. OnTheCache'
  BY <1>0, <1>1, <1>2, <1>4 DEF Known, Moved, OnTheCache, cluster
<1>7. OnlyRolled'
  BY <1>0, <1>1, <1>2, <1>4 DEF Known, Moved, OnlyRolled, cluster
<1>8. BootstrapKnown'
  BY <1>0, <1>1, <1>2, <1>4 DEF Known, Moved, BootstrapKnown, OnTheCache, cluster
<1>9. PassProgress'
  BY <1>0, <1>1, <1>2, <1>4 DEF Known, Moved, PassProgress, ReadyClaimed, ReadyIsTrue, OnTheCache, cluster
<1>10. ReadyIsTrue'
  BY <1>0, <1>1, <1>2, <1>4 DEF Known, Moved, ReadyIsTrue, PassProgress, ReadyClaimed, OnTheCache, cluster
<1> QED
  BY <1>5, <1>6, <1>7, <1>8, <1>9, <1>10 DEF IInv

\* The bootstrap Job.
LEMMA BootstrapKeeps ==
    ASSUME IInv, bootstrap
    PROVE  IInv'
<1>0. Known
  BY WhatIsKnown
<1>1. /\ pass \in Passes /\ pass # Idle /\ up /\ pass.at = "bootstrap" /\ pass.obj = cached
      /\ UNCHANGED <<cr, cached, secrets, control, proxy, objs, up, late, work, rolled, touched>>
  BY <1>0 DEF Known, OnTheCache, bootstrap, At, cluster
<1>2. /\ pass' \in Passes /\ pass' # Idle /\ pass'.at = "status" /\ pass'.obj = pass.obj
      /\ pass'.psel = pass.psel /\ pass'.image = pass.image /\ pass'.clean = pass.clean
      /\ \/ job' = job /\ pass'.bootstrapped = pass.bootstrapped
         \/ /\ ~pass.bootstrapped /\ pass'.bootstrapped = (job = "done")
            /\ job' = (IF job = "none" THEN "running" ELSE job)
  <2>1. CASE job' = job /\ pass' = [pass EXCEPT !.at = "status"]
    BY <1>1, <2>1, GotoMoves DEF Moved, Steps
  <2>2. CASE /\ ~pass.bootstrapped /\ pass' = [pass EXCEPT !.at = "status", !.bootstrapped = (job = "done")]
             /\ job' = (IF job = "none" THEN "running" ELSE job)
    <3>1. PICK done \in BOOLEAN : done = (job = "done")
      OBVIOUS
    <3>2. pass' = [pass EXCEPT !.at = "status", !.bootstrapped = done]
      BY <2>2, <3>1
    <3>3. /\ pass' \in Passes /\ pass' # Idle /\ pass'.at = "status" /\ pass'.obj = pass.obj
          /\ pass'.psel = pass.psel /\ pass'.image = pass.image /\ pass'.clean = pass.clean
          /\ pass'.bootstrapped = done
      BY <1>1, <3>2 DEF Passes, Steps, Idle
    <3> QED
      BY <2>2, <3>1, <3>3
  <2> QED
    BY <2>1, <2>2 DEF bootstrap, Goto
<1>3. TypeOK'
  BY <1>0, <1>1, <1>2 DEF Known, Moved, TypeOK, cluster
<1>4. OnTheCache'
  BY <1>0, <1>1, <1>2 DEF Known, Moved, OnTheCache, cluster
<1>5. OnlyRolled'
  BY <1>0, <1>1, <1>2 DEF Known, Moved, OnlyRolled, cluster
<1>6. BootstrapKnown'
  BY <1>0, <1>1, <1>2 DEF Known, Moved, BootstrapKnown, OnTheCache, cluster
<1>7. PassProgress'
  BY <1>0, <1>1, <1>2 DEF Known, Moved, PassProgress, ReadyClaimed, ReadyIsTrue, OnTheCache, cluster
<1>8. ReadyIsTrue'
  BY <1>0, <1>1, <1>2 DEF Known, Moved, ReadyIsTrue, PassProgress, ReadyClaimed, OnTheCache, cluster
<1> QED
  BY <1>3, <1>4, <1>5, <1>6, <1>7, <1>8 DEF IInv

\* The status of a whole pass.
LEMMA StatusKeeps ==
    ASSUME IInv, ReportStatus
    PROVE  IInv'
<1>0. Known
  BY WhatIsKnown
<1>1. /\ pass \in Passes /\ pass # Idle /\ up /\ pass.at = "status" /\ pass.obj = cached /\ pass' = Idle
      /\ UNCHANGED <<cached, secrets, control, proxy, objs, job, up, late, work, rolled>>
  BY <1>0 DEF Known, OnTheCache, ReportStatus, write_status, At, cluster
<1>2. PICK st :
        /\ st = [phase |-> phase(pass), control |-> pass.ready, image |-> pass.shown,
                 bootstrapped |-> pass.bootstrapped, hash |-> pass.hash, gen |-> cached.gen]
        /\ cr' = (IF st = cached.status THEN cr ELSE [cr EXCEPT !.status = st])
  BY <1>1 DEF ReportStatus, write_status
<1>3. st \in Statuses
  BY <1>0, <1>1, <1>2 DEF Known, Statuses, Passes, phase, upgrading
<1>4. /\ cr' \in Resources /\ cr'.gen = cr.gen /\ cr'.spec = cr.spec
      /\ \/ cr' = cr
         \/ /\ cr'.status.phase = phase(pass) /\ cr'.status.gen = cached.gen
            /\ cr'.status.bootstrapped = pass.bootstrapped
  BY <1>0, <1>2, <1>3 DEF Known, TypeOK, Resources
<1>5. /\ touched' \in BOOLEAN
      /\ ~touched' => ~touched \/ (pass.clean /\ cr' # cr)
  BY <1>0, <1>1 DEF Known, ReportStatus, TypeOK, Passes
<1>6. phase(pass) = "Ready" => pass.image = cached.spec.image /\ pass.image # None /\ pass.image \in rolled
  BY <1>0, <1>1, ImagesOf DEF Known, phase, upgrading, OnlyRolled
<1>7. TypeOK'
  BY <1>0, <1>1, <1>4, <1>5, <1>6 DEF Known, Resources, TypeOK, cluster
<1>8. OnTheCache'
  BY <1>0, <1>1, <1>4, <1>5, <1>6 DEF Known, Resources, OnTheCache, cluster
<1>9. OnlyRolled'
  BY <1>0, <1>1, <1>4, <1>5, <1>6 DEF Known, Resources, OnlyRolled, cluster
<1>10. BootstrapKnown'
  BY <1>0, <1>1, <1>4, <1>5, <1>6 DEF Known, Resources, BootstrapKnown, OnTheCache, cluster
<1>11. PassProgress'
  BY <1>0, <1>1, <1>4, <1>5, <1>6 DEF Known, Resources, PassProgress, ReadyClaimed, ReadyIsTrue, OnTheCache, cluster
<1>12. ReadyIsTrue'
  BY <1>0, <1>1, <1>4, <1>5, <1>6 DEF Known, Resources, ReadyIsTrue, PassProgress, ReadyClaimed, OnTheCache, cluster
<1> QED
  BY <1>7, <1>8, <1>9, <1>10, <1>11, <1>12 DEF IInv

\* An API call is refused and the pass given up.
LEMMA OnErrorKeeps ==
    ASSUME IInv, on_error
    PROVE  IInv'
<1>0. Known
  BY WhatIsKnown
<1>1. /\ pass' = Idle /\ work' \in Nat
      /\ UNCHANGED <<cr, cached, secrets, control, proxy, objs, job, up, late, rolled, touched>>
  BY <1>0 DEF Known, TypeOK, on_error, Work, cluster
<1>2. TypeOK'
  BY <1>0, <1>1 DEF Known, Idle, TypeOK, cluster
<1>3. OnTheCache'
  BY <1>0, <1>1 DEF Known, Idle, OnTheCache, cluster
<1>4. OnlyRolled'
  BY <1>0, <1>1 DEF Known, Idle, OnlyRolled, cluster
<1>5. BootstrapKnown'
  BY <1>0, <1>1 DEF Known, Idle, BootstrapKnown, OnTheCache, cluster
<1>6. PassProgress'
  BY <1>0, <1>1 DEF Known, Idle, PassProgress, ReadyClaimed, ReadyIsTrue, OnTheCache, cluster
<1>7. ReadyIsTrue'
  BY <1>0, <1>1 DEF Known, Idle, ReadyIsTrue, PassProgress, ReadyClaimed, OnTheCache, cluster
<1> QED
  BY <1>2, <1>3, <1>4, <1>5, <1>6, <1>7 DEF IInv

\* The process dies, its last write on the way.
LEMMA CrashKeeps ==
    ASSUME IInv, Crash
    PROVE  IInv'
<1>0. Known
  BY WhatIsKnown
<1>1. /\ pass' = Idle /\ up' = FALSE /\ work' \in Nat
      /\ UNCHANGED <<cr, cached, secrets, control, proxy, objs, job, rolled, touched>>
  BY <1>0 DEF Known, TypeOK, Crash, Work, cluster
<1>2. /\ late' \subseteq {"control", "proxy"} \X Wants
      /\ \A w \in late' : w[1] = "proxy" => w[2].image \in rolled
  <2>1. CASE pass.at = "control"
    <3>1. pass \in Passes /\ late' = {<<"control", control_deployment(pass)>>}
      BY <1>0, <2>1 DEF Known, Crash
    <3>2. control_deployment(pass) \in Wants
      BY <3>1, WantsOfPass
    <3> QED
      BY <3>1, <3>2
  <2>2. CASE pass.at = "proxy"
    <3>1. pass \in Passes /\ late' = {<<"proxy", proxy_deployment(pass)>>}
      BY <1>0, <2>2 DEF Known, Crash
    <3>2. pass.image # None /\ pass.image \in rolled
      BY <1>0, <2>2 DEF Known, OnlyRolled
    <3>3. proxy_deployment(pass) \in Wants /\ proxy_deployment(pass).image = pass.image
      BY <3>1, <3>2, WantsOfPass
    <3> QED
      BY <3>1, <3>2, <3>3
  <2>3. CASE pass.at # "control" /\ pass.at # "proxy"
    BY <1>0, <2>3 DEF Known, TypeOK, OnlyRolled, Crash
  <2> QED
    BY <2>1, <2>2, <2>3
<1>3. TypeOK'
  BY <1>0, <1>1, <1>2 DEF Known, Idle, TypeOK, cluster
<1>4. OnTheCache'
  BY <1>0, <1>1, <1>2 DEF Known, Idle, OnTheCache, cluster
<1>5. OnlyRolled'
  BY <1>0, <1>1, <1>2 DEF Known, Idle, OnlyRolled, cluster
<1>6. BootstrapKnown'
  BY <1>0, <1>1, <1>2 DEF Known, Idle, BootstrapKnown, OnTheCache, cluster
<1>7. PassProgress'
  BY <1>0, <1>1, <1>2 DEF Known, Idle, PassProgress, ReadyClaimed, ReadyIsTrue, OnTheCache, cluster
<1>8. ReadyIsTrue'
  BY <1>0, <1>1, <1>2 DEF Known, Idle, ReadyIsTrue, PassProgress, ReadyClaimed, OnTheCache, cluster
<1> QED
  BY <1>3, <1>4, <1>5, <1>6, <1>7, <1>8 DEF IInv

\* The standby takes over and lists afresh.
LEMMA TakeoverKeeps ==
    ASSUME IInv, Takeover
    PROVE  IInv'
<1>0. Known
  BY WhatIsKnown
<1>1. /\ pass = Idle /\ pass' = pass /\ up' = TRUE /\ cached' = cr
      /\ UNCHANGED <<cr, secrets, control, proxy, objs, job, late, work, rolled, touched>>
  BY <1>0 DEF Known, OnTheCache, Takeover, cluster
<1>2. TypeOK'
  BY <1>0, <1>1 DEF Known, Idle, TypeOK, cluster
<1>3. OnTheCache'
  BY <1>0, <1>1 DEF Known, Idle, OnTheCache, cluster
<1>4. OnlyRolled'
  BY <1>0, <1>1 DEF Known, Idle, OnlyRolled, cluster
<1>5. BootstrapKnown'
  BY <1>0, <1>1 DEF Known, Idle, BootstrapKnown, OnTheCache, cluster
<1>6. PassProgress'
  BY <1>0, <1>1 DEF Known, Idle, PassProgress, ReadyClaimed, ReadyIsTrue, OnTheCache, cluster
<1>7. ReadyIsTrue'
  BY <1>0, <1>1 DEF Known, Idle, ReadyIsTrue, PassProgress, ReadyClaimed, OnTheCache, cluster
<1> QED
  BY <1>2, <1>3, <1>4, <1>5, <1>6, <1>7 DEF IInv

\* Somebody else wrote: the pass under way, if any, is not clean any more.
Disturbed ==
    /\ touched' = TRUE
    /\ pass = Idle => pass' = Idle
    /\ pass # Idle =>
         /\ pass' \in Passes /\ pass' # Idle /\ pass'.at = pass.at /\ pass'.obj = pass.obj
         /\ pass'.image = pass.image /\ pass'.bootstrapped = pass.bootstrapped
         /\ pass'.clean = FALSE

\* What Touch does to a pass.
LEMMA TouchDisturbs ==
    ASSUME Known, Touch
    PROVE  Disturbed
<1>1. CASE pass = Idle
  BY <1>1 DEF Touch, Disturbed
<1>2. CASE pass # Idle
  <2>1. pass \in Passes /\ pass' = [pass EXCEPT !.clean = FALSE]
    BY <1>2 DEF Known, Touch
  <2> QED
    BY <1>2, <2>1 DEF Touch, Disturbed, Passes, Steps, Idle
<1> QED
  BY <1>1, <1>2

\* A dead process's write lands.
LEMMA LateKeeps ==
    ASSUME IInv, LateWrite
    PROVE  IInv'
<1>0. Known
  BY WhatIsKnown
<1>1. /\ Disturbed /\ late' = {}
      /\ UNCHANGED <<cr, cached, secrets, objs, job, up, work, rolled>>
  BY <1>0, TouchDisturbs DEF LateWrite
<1>2. PICK w \in late :
        \/ w[1] = "control" /\ control' = apply(control, w[2]) /\ proxy' = proxy
        \/ w[1] = "proxy" /\ proxy' = apply(proxy, w[2]) /\ control' = control
        \/ control' = control /\ proxy' = proxy
  BY DEF LateWrite
<1>3. w[2] \in Wants /\ (w[1] = "proxy" => w[2].image \in rolled)
  BY <1>0, <1>2 DEF Known, TypeOK, OnlyRolled
<1>4. /\ control \in Deployments \cup {None} /\ proxy \in Deployments \cup {None}
      /\ apply(control, w[2]) \in Deployments /\ apply(proxy, w[2]) \in Deployments
      /\ apply(proxy, w[2]).image = w[2].image
  BY <1>0, <1>3, ApplyFacts DEF Known, TypeOK
<1>5. ASSUME control' # None, control'.observed, control'.ready
      PROVE  control # None /\ control.observed /\ control.ready /\ control'.image = control.image
  <2>1. CASE control' = control
    BY <1>5, <2>1
  <2>2. CASE control' = apply(control, w[2])
    <3>1. /\ apply(control, w[2]).image = w[2].image
          /\ apply(control, w[2]).observed /\ apply(control, w[2]).ready =>
               control # None /\ control.observed /\ control.ready /\ control.image = w[2].image
      BY <1>3, <1>4, ApplyFacts
    <3> QED
      BY <1>5, <2>2, <3>1
  <2> QED
    BY <1>2, <2>1, <2>2
<1>6. control' \in Deployments \cup {None} /\ proxy' \in Deployments \cup {None}
  BY <1>2, <1>4
<1>7. proxy' # None => proxy'.image \in rolled
  BY <1>0, <1>2, <1>3, <1>4 DEF Known, OnlyRolled
<1>8. TypeOK'
  BY <1>0, <1>1, <1>6, <1>7 DEF Known, Disturbed, TypeOK, cluster
<1>9. OnTheCache'
  BY <1>0, <1>1, <1>6, <1>7 DEF Known, Disturbed, OnTheCache, cluster
<1>10. OnlyRolled'
  <2>1. control' # None => (control'.observed /\ control'.ready => control'.image \in rolled)
    BY <1>0, <1>5 DEF Known, OnlyRolled
  <2> QED
    BY <1>0, <1>1, <1>7, <2>1 DEF Known, OnlyRolled, Disturbed
<1>11. BootstrapKnown'
  BY <1>0, <1>1, <1>6, <1>7 DEF Known, Disturbed, BootstrapKnown, OnTheCache, cluster
<1>12. PassProgress'
  BY <1>0, <1>1, <1>6, <1>7 DEF Known, Disturbed, PassProgress, ReadyClaimed, ReadyIsTrue, OnTheCache, cluster
<1>13. ReadyIsTrue'
  BY <1>0, <1>1, <1>6, <1>7 DEF Known, Disturbed, ReadyIsTrue, PassProgress, ReadyClaimed, OnTheCache, cluster
<1> QED
  BY <1>8, <1>9, <1>10, <1>11, <1>12, <1>13 DEF IInv

\* The Deployment controller rolls the control plane.
LEMMA RollControlKeeps ==
    ASSUME IInv, RollControl
    PROVE  IInv'
<1>0. Known
  BY WhatIsKnown
<1>1. /\ control # None /\ control \in Deployments
      /\ UNCHANGED <<cr, cached, secrets, proxy, objs, job, pass, up, late, work, touched>>
  BY <1>0 DEF Known, RollControl
<1>2. /\ SameTemplate(control, control') /\ control' # None
      /\ \/ rolled' = rolled /\ control'.ready = FALSE
         \/ rolled' = rolled \cup {control.image}
  <2>1. CASE /\ rolled' = rolled
             /\ control' = [control EXCEPT !.observed = TRUE, !.updated = FALSE, !.ready = FALSE]
    <3>1. SameTemplate(control, control')
      BY <1>1, <2>1, RolloutKeepsTemplate
    <3>2. control'.ready = FALSE
      BY <1>1, <2>1 DEF Deployments
    <3> QED
      BY <2>1, <3>1, <3>2, OperatorAssumption DEF SameTemplate
  <2>2. CASE control' = Rolled(control) /\ rolled' = rolled \cup {control.image}
    BY <1>1, <2>2, RolloutKeepsTemplate, OperatorAssumption DEF SameTemplate
  <2> QED
    BY <2>1, <2>2 DEF RollControl
<1>3. rolled \subseteq rolled' /\ rolled' \subseteq Images
  BY <1>0, <1>1, <1>2 DEF Known, TypeOK, Deployments
<1>4. TypeOK'
  BY <1>0, <1>1, <1>2, <1>3 DEF Known, SameTemplate, TypeOK, cluster
<1>5. OnTheCache'
  BY <1>0, <1>1, <1>2, <1>3 DEF Known, SameTemplate, OnTheCache, cluster
<1>6. OnlyRolled'
  BY <1>0, <1>1, <1>2, <1>3 DEF Known, SameTemplate, OnlyRolled, cluster
<1>7. BootstrapKnown'
  BY <1>0, <1>1, <1>2, <1>3 DEF Known, SameTemplate, BootstrapKnown, OnTheCache, cluster
<1>8. PassProgress'
  BY <1>0, <1>1, <1>2, <1>3 DEF Known, SameTemplate, PassProgress, ReadyClaimed, ReadyIsTrue, OnTheCache, cluster
<1>9. ReadyIsTrue'
  BY <1>0, <1>1, <1>2, <1>3 DEF Known, SameTemplate, ReadyIsTrue, PassProgress, ReadyClaimed, OnTheCache, cluster
<1> QED
  BY <1>4, <1>5, <1>6, <1>7, <1>8, <1>9 DEF IInv

\* The Deployment controller rolls the gateway.
LEMMA RollProxyKeeps ==
    ASSUME IInv, RollProxy
    PROVE  IInv'
<1>0. Known
  BY WhatIsKnown
<1>1. /\ proxy # None /\ proxy \in Deployments
      /\ UNCHANGED <<cr, cached, secrets, control, objs, job, pass, up, late, work, rolled, touched>>
  BY <1>0 DEF Known, RollProxy
<1>2. SameTemplate(proxy, proxy') /\ proxy' # None
  BY <1>1, RolloutKeepsTemplate, OperatorAssumption DEF RollProxy, SameTemplate
<1>3. TypeOK'
  BY <1>0, <1>1, <1>2 DEF Known, SameTemplate, TypeOK, cluster
<1>4. OnTheCache'
  BY <1>0, <1>1, <1>2 DEF Known, SameTemplate, OnTheCache, cluster
<1>5. OnlyRolled'
  BY <1>0, <1>1, <1>2 DEF Known, SameTemplate, OnlyRolled, cluster
<1>6. BootstrapKnown'
  BY <1>0, <1>1, <1>2 DEF Known, SameTemplate, BootstrapKnown, OnTheCache, cluster
<1>7. PassProgress'
  BY <1>0, <1>1, <1>2 DEF Known, SameTemplate, PassProgress, ReadyClaimed, ReadyIsTrue, OnTheCache, cluster
<1>8. ReadyIsTrue'
  BY <1>0, <1>1, <1>2 DEF Known, SameTemplate, ReadyIsTrue, PassProgress, ReadyClaimed, OnTheCache, cluster
<1> QED
  BY <1>3, <1>4, <1>5, <1>6, <1>7, <1>8 DEF IInv

\* Pods fail.
LEMMA PodsFailKeeps ==
    ASSUME IInv, PodsFail
    PROVE  IInv'
<1>0. Known
  BY WhatIsKnown
<1>1. /\ work' \in Nat
      /\ UNCHANGED <<cr, cached, secrets, objs, job, pass, up, late, rolled, touched>>
  BY <1>0 DEF Known, TypeOK, PodsFail, Work
<1>2. \/ /\ control # None /\ control' # None /\ SameTemplate(control, control')
         /\ control'.ready = FALSE /\ proxy' = proxy
      \/ proxy # None /\ proxy' # None /\ SameTemplate(proxy, proxy') /\ control' = control
  <2>1. CASE control # None /\ control' = [control EXCEPT !.ready = FALSE] /\ proxy' = proxy
    <3>1. control \in Deployments
      BY <1>0, <2>1 DEF Known
    <3>2. SameTemplate(control, control')
      BY <2>1, <3>1, RolloutKeepsTemplate
    <3>3. control'.ready = FALSE
      BY <2>1, <3>1 DEF Deployments
    <3> QED
      BY <2>1, <3>2, <3>3, OperatorAssumption DEF SameTemplate
  <2>2. CASE proxy # None /\ proxy' = [proxy EXCEPT !.ready = FALSE] /\ control' = control
    <3>1. proxy \in Deployments
      BY <1>0, <2>2 DEF Known
    <3> QED
      BY <2>2, <3>1, RolloutKeepsTemplate, OperatorAssumption DEF SameTemplate
  <2> QED
    BY <2>1, <2>2 DEF PodsFail, Ready
<1>3. TypeOK'
  BY <1>0, <1>1, <1>2 DEF Known, SameTemplate, TypeOK, cluster
<1>4. OnTheCache'
  BY <1>0, <1>1, <1>2 DEF Known, SameTemplate, OnTheCache, cluster
<1>5. OnlyRolled'
  BY <1>0, <1>1, <1>2 DEF Known, SameTemplate, OnlyRolled, cluster
<1>6. BootstrapKnown'
  BY <1>0, <1>1, <1>2 DEF Known, SameTemplate, BootstrapKnown, OnTheCache, cluster
<1>7. PassProgress'
  BY <1>0, <1>1, <1>2 DEF Known, SameTemplate, PassProgress, ReadyClaimed, ReadyIsTrue, OnTheCache, cluster
<1>8. ReadyIsTrue'
  BY <1>0, <1>1, <1>2 DEF Known, SameTemplate, ReadyIsTrue, PassProgress, ReadyClaimed, OnTheCache, cluster
<1> QED
  BY <1>3, <1>4, <1>5, <1>6, <1>7, <1>8 DEF IInv

\* Somebody deletes a Deployment.
LEMMA MeddleKeeps ==
    ASSUME IInv, Meddle
    PROVE  IInv'
<1>0. Known
  BY WhatIsKnown
<1>1. /\ Disturbed /\ work' \in Nat
      /\ (control' = None /\ proxy' = proxy) \/ (proxy' = None /\ control' = control)
      /\ UNCHANGED <<cr, cached, secrets, objs, job, up, late, rolled>>
  BY <1>0, TouchDisturbs DEF Known, TypeOK, Meddle, Work
<1>2. TypeOK'
  BY <1>0, <1>1 DEF Known, Disturbed, TypeOK, cluster
<1>3. OnTheCache'
  BY <1>0, <1>1 DEF Known, Disturbed, OnTheCache, cluster
<1>4. OnlyRolled'
  BY <1>0, <1>1 DEF Known, Disturbed, OnlyRolled, cluster
<1>5. BootstrapKnown'
  BY <1>0, <1>1 DEF Known, Disturbed, BootstrapKnown, OnTheCache, cluster
<1>6. PassProgress'
  BY <1>0, <1>1 DEF Known, Disturbed, PassProgress, ReadyClaimed, ReadyIsTrue, OnTheCache, cluster
<1>7. ReadyIsTrue'
  BY <1>0, <1>1 DEF Known, Disturbed, ReadyIsTrue, PassProgress, ReadyClaimed, OnTheCache, cluster
<1> QED
  BY <1>2, <1>3, <1>4, <1>5, <1>6, <1>7 DEF IInv

\* The Job ends.
LEMMA JobEndsKeeps ==
    ASSUME IInv, JobEnds
    PROVE  IInv'
<1>0. Known
  BY WhatIsKnown
<1>1. /\ job = "running" /\ job' \in {"done", "failed"} /\ work' \in Nat
      /\ UNCHANGED <<cr, cached, secrets, control, proxy, objs, pass, up, late, rolled, touched>>
  BY <1>0 DEF Known, TypeOK, JobEnds, Work, cluster
<1>2. TypeOK'
  BY <1>0, <1>1 DEF Known, Idle, TypeOK, cluster
<1>3. OnTheCache'
  BY <1>0, <1>1 DEF Known, Idle, OnTheCache, cluster
<1>4. OnlyRolled'
  BY <1>0, <1>1 DEF Known, Idle, OnlyRolled, cluster
<1>5. BootstrapKnown'
  BY <1>0, <1>1 DEF Known, Idle, BootstrapKnown, OnTheCache, cluster
<1>6. PassProgress'
  BY <1>0, <1>1 DEF Known, Idle, PassProgress, ReadyClaimed, ReadyIsTrue, OnTheCache, cluster
<1>7. ReadyIsTrue'
  BY <1>0, <1>1 DEF Known, Idle, ReadyIsTrue, PassProgress, ReadyClaimed, OnTheCache, cluster
<1> QED
  BY <1>2, <1>3, <1>4, <1>5, <1>6, <1>7 DEF IInv

\* The finished Job is removed.
LEMMA JobExpiresKeeps ==
    ASSUME IInv, JobExpires
    PROVE  IInv'
<1>0. Known
  BY WhatIsKnown
<1>1. /\ \/ job = "failed" /\ cached' = cached
         \/ job = "done" /\ pass = Idle /\ cached' = cr
      /\ job' = "none" /\ work' \in Nat
      /\ UNCHANGED <<cr, secrets, control, proxy, objs, pass, up, late, rolled, touched>>
  BY <1>0 DEF Known, TypeOK, JobExpires, Work, cluster
<1>2. TypeOK'
  BY <1>0, <1>1 DEF Known, Idle, TypeOK, cluster
<1>3. OnTheCache'
  BY <1>0, <1>1 DEF Known, Idle, OnTheCache, cluster
<1>4. OnlyRolled'
  BY <1>0, <1>1 DEF Known, Idle, OnlyRolled, cluster
<1>5. BootstrapKnown'
  BY <1>0, <1>1 DEF Known, Idle, BootstrapKnown, OnTheCache, cluster
<1>6. PassProgress'
  BY <1>0, <1>1 DEF Known, Idle, PassProgress, ReadyClaimed, ReadyIsTrue, OnTheCache, cluster
<1>7. ReadyIsTrue'
  BY <1>0, <1>1 DEF Known, Idle, ReadyIsTrue, PassProgress, ReadyClaimed, OnTheCache, cluster
<1> QED
  BY <1>2, <1>3, <1>4, <1>5, <1>6, <1>7 DEF IInv

\* The spec is edited.
LEMMA EditSpecKeeps ==
    ASSUME IInv, NEW s \in Specs, EditSpec(s)
    PROVE  IInv'
<1>0. Known
  BY WhatIsKnown
<1>1. /\ cr' \in Resources /\ cr'.gen = cr.gen + 1 /\ cr'.spec = s /\ cr'.status = cr.status
      /\ work' \in Nat
      /\ UNCHANGED <<cached, secrets, control, proxy, objs, job, pass, up, late, rolled, touched>>
  <2>1. cr' = Edited(cr, s, cr.gen + 1) /\ cr \in Resources
    BY <1>0 DEF Known, TypeOK, EditSpec, Edited
  <2>2. cr' \in Resources /\ cr'.gen = cr.gen + 1 /\ cr'.spec = s /\ cr'.status = cr.status
    <3>1. cr.gen + 1 \in Nat
      BY <1>0 DEF Known
    <3> QED
      BY <2>1, <3>1, EditedResource
  <2> QED
    BY <1>0, <2>2 DEF Known, TypeOK, EditSpec, Work, cluster
<1>2. TypeOK'
  BY <1>0, <1>1 DEF Known, Idle, TypeOK, cluster
<1>3. OnTheCache'
  BY <1>0, <1>1 DEF Known, Idle, OnTheCache, cluster
<1>4. OnlyRolled'
  BY <1>0, <1>1 DEF Known, Idle, OnlyRolled, cluster
<1>5. BootstrapKnown'
  BY <1>0, <1>1 DEF Known, Idle, BootstrapKnown, OnTheCache, cluster
<1>6. PassProgress'
  BY <1>0, <1>1 DEF Known, Idle, PassProgress, ReadyClaimed, ReadyIsTrue, OnTheCache, cluster
<1>7. ReadyIsTrue'
  BY <1>0, <1>1 DEF Known, Idle, ReadyIsTrue, PassProgress, ReadyClaimed, OnTheCache, cluster
<1> QED
  BY <1>2, <1>3, <1>4, <1>5, <1>6, <1>7 DEF IInv

\* The Secrets are rotated.
LEMMA RotateKeeps ==
    ASSUME IInv, NEW k \in Keys \cup {Unusable}, RotateSecrets(k)
    PROVE  IInv'
<1>0. Known
  BY WhatIsKnown
<1>1. /\ secrets' = k /\ work' \in Nat
      /\ UNCHANGED <<cr, cached, control, proxy, objs, job, pass, up, late, rolled, touched>>
  BY <1>0 DEF Known, TypeOK, RotateSecrets, Work, cluster
<1>2. TypeOK'
  BY <1>0, <1>1 DEF Known, Idle, TypeOK, cluster
<1>3. OnTheCache'
  BY <1>0, <1>1 DEF Known, Idle, OnTheCache, cluster
<1>4. OnlyRolled'
  BY <1>0, <1>1 DEF Known, Idle, OnlyRolled, cluster
<1>5. BootstrapKnown'
  BY <1>0, <1>1 DEF Known, Idle, BootstrapKnown, OnTheCache, cluster
<1>6. PassProgress'
  BY <1>0, <1>1 DEF Known, Idle, PassProgress, ReadyClaimed, ReadyIsTrue, OnTheCache, cluster
<1>7. ReadyIsTrue'
  BY <1>0, <1>1 DEF Known, Idle, ReadyIsTrue, PassProgress, ReadyClaimed, OnTheCache, cluster
<1> QED
  BY <1>2, <1>3, <1>4, <1>5, <1>6, <1>7 DEF IInv

\* A fresh install and an adopted one both start from the invariant.
LEMMA InitIInv ==
    ASSUME Init
    PROVE  IInv
<1>1. First \in Specs /\ First.image \in Images /\ First.image # None
  BY OperatorAssumption, ImagesOf
<1>2. Unreported \in Statuses
  BY DEF Unreported, Statuses, Hashes
<1>3. /\ cr \in Resources /\ cached = cr /\ pass = Idle /\ up = TRUE /\ late = {} /\ work = 0
      /\ job = "none" /\ touched = FALSE /\ secrets \in Keys \cup {Unusable}
      /\ cr.status.phase = "none" /\ cr.status.gen = 0 /\ cr.gen = 1 /\ ~cr.status.bootstrapped
  BY <1>1, <1>2 DEF Init, Resources, Unreported
<1>4. PICK d \in Deployments :
        d = Deployed(First.image, None, "base", FALSE) /\ d.image = First.image
  <2>1. Deployed(First.image, None, "base", FALSE) \in Deployments
    BY <1>1 DEF Deployed, Deployments, Selectors, Hashes
  <2>2. Deployed(First.image, None, "base", FALSE).image = First.image
    BY DEF Deployed
  <2> QED
    BY <2>1, <2>2
<1>5. \/ control = None /\ proxy = None /\ rolled = {}
      \/ /\ rolled = {First.image} /\ control \in Deployments /\ proxy \in Deployments
         /\ control.image = First.image /\ proxy.image = First.image
  BY <1>4 DEF Init
<1>6. objs \in [config : {s.tuning : s \in Specs} \cup {None},
                extras : {Wanted(s) : s \in Specs} \cup {{}},
                control : Selectors \cup {None}, proxy : Selectors \cup {None}]
  BY DEF Init, Selectors
<1>7. TypeOK
  BY <1>1, <1>3, <1>5, <1>6 DEF TypeOK
<1>8. OnTheCache
  BY <1>3 DEF OnTheCache
<1>9. OnlyRolled
  BY <1>3, <1>5 DEF OnlyRolled
<1>10. BootstrapKnown /\ PassProgress /\ ReadyIsTrue
  BY <1>3 DEF BootstrapKnown, PassProgress, ReadyIsTrue
<1> QED
  BY <1>7, <1>8, <1>9, <1>10 DEF IInv

\* One lemma per step of the pass, of the environment and of a fault.
LEMMA NextIInv ==
    ASSUME IInv, [Next]_vars
    PROVE  IInv'
<1>1. CASE Begin(cached) \/ Begin(cr)
  BY <1>1, BeginKeeps
<1>2. CASE ReportDegraded \/ Prepare \/ ApplyControl \/ Look
  BY <1>2, DegradedKeeps, PrepareKeeps, ApplyControlKeeps, LookKeeps
<1>3. CASE ApplyProxy \/ ReconcileRest \/ bootstrap \/ ReportStatus
  BY <1>3, ApplyProxyKeeps, RestKeeps, BootstrapKeeps, StatusKeeps
<1>4. CASE on_error \/ Crash \/ Takeover \/ LateWrite
  BY <1>4, OnErrorKeeps, CrashKeeps, TakeoverKeeps, LateKeeps
<1>5. CASE RollControl \/ RollProxy \/ PodsFail \/ Meddle
  BY <1>5, RollControlKeeps, RollProxyKeeps, PodsFailKeeps, MeddleKeeps
<1>6. CASE JobEnds \/ JobExpires
  BY <1>6, JobEndsKeeps, JobExpiresKeeps
<1>7. CASE \E s \in Specs : EditSpec(s)
  BY <1>7, EditSpecKeeps
<1>8. CASE \E k \in Keys \cup {Unusable} : RotateSecrets(k)
  BY <1>8, RotateKeeps
<1>9. CASE UNCHANGED vars
  <2>1. TypeOK' /\ OnTheCache'
    BY <1>9 DEF IInv, vars, TypeOK, OnTheCache
  <2>2. OnlyRolled' /\ BootstrapKnown'
    BY <1>9 DEF IInv, vars, OnlyRolled, BootstrapKnown
  <2>3. PassProgress' /\ ReadyIsTrue'
    BY <1>9 DEF IInv, vars, PassProgress, ReadyClaimed, ReadyIsTrue
  <2> QED
    BY <2>1, <2>2, <2>3 DEF IInv
<1> QED
  BY <1>1, <1>2, <1>3, <1>4, <1>5, <1>6, <1>7, <1>8, <1>9 DEF Next, reconcile, Environment

\* The invariant holds of every behaviour of the reconcile.
THEOREM OperatorInvariant == Spec => []IInv
BY InitIInv, NextIInv, PTL DEF Spec

\* proxy_image and deployment_at keep the gateway behind the control plane: for
\* any specs, any number of edits, rotations, crashes and late writes, the
\* gateway's Deployment names an image a control plane has been ready on.
THEOREM GatewayFollows == Spec => []GatewayNeverAhead
<1>1. IInv => GatewayNeverAhead
  BY DEF IInv, OnlyRolled, GatewayNeverAhead
<1> QED
  BY <1>1, OperatorInvariant, PTL

\* A Ready that write_status has reported of the present generation is true of
\* the cluster, whatever copy of the resource the pass was working on.
THEOREM ReadyMeansReady == Spec => []ReadyIsTrue
<1>1. IInv => ReadyIsTrue
  BY DEF IInv
<1> QED
  BY <1>1, OperatorInvariant, PTL

\* The only step that creates the Job, from a pass that does not know of a
\* finished bootstrap: with the Job gone the cache knows what the status says.
LEMMA JobOnlyBefore ==
    ASSUME IInv, Next, job = "none", job' = "running"
    PROVE  ~cr.status.bootstrapped
<1>1. bootstrap
  <2>1. CASE Environment
    BY <2>1 DEF Environment, on_error, Crash, Takeover, LateWrite, RollControl, RollProxy,
                PodsFail, Meddle, JobEnds, JobExpires, EditSpec, RotateSecrets
  <2>2. CASE reconcile
    BY <2>2 DEF reconcile, Begin, ReportDegraded, Prepare, ApplyControl, Look, ApplyProxy,
                ReconcileRest, ReportStatus, write_status
  <2> QED
    BY <2>1, <2>2 DEF Next
<1>2. ~pass.bootstrapped /\ pass.at = "bootstrap"
  BY <1>1 DEF bootstrap, At
<1>3. pass # Idle
  BY <1>2 DEF Idle
<1> QED
  BY <1>2, <1>3 DEF IInv, BootstrapKnown, OnTheCache

\* reconcile's bootstrap never runs set-password a second time: no step creates
\* the Job once the status says bootstrapped.
THEOREM PasswordStays == Spec => PasswordNotReset
<1>1. IInv /\ [Next]_vars => [job = "none" /\ job' = "running" => ~cr.status.bootstrapped]_vars
  BY JobOnlyBefore DEF vars
<1> QED
  BY <1>1, OperatorInvariant, PTL DEF Spec, PasswordNotReset

-----------------------------------------------------------------------------
(***************************************************************************)
(* LeaderElection.                                                         *)
(***************************************************************************)

USE ElectionAssumption

(***************************************************************************)
(* Growing older: the type and the holder stay, the age does not go down.  *)
(***************************************************************************)
LEMMA OlderRecord ==
    ASSUME NEW rec \in Records
    PROVE  /\ Older(rec) \in Records
           /\ Older(rec).holder = rec.holder
           /\ rec.age <= Older(rec).age /\ Older(rec).age <= rec.age + 1
BY DEF Older, Records

LEMMA ElectionInitial == ElectionInit => ElectionIInv
<1> SUFFICES ASSUME ElectionInit PROVE ElectionIInv
  OBVIOUS
<1>1. /\ current \in [Replicas -> BOOLEAN] /\ \A r \in Replicas : ~current[r]
      /\ calm \in BOOLEAN /\ deleted \in BOOLEAN /\ slow \in BOOLEAN
  BY Zenon DEF ElectionInit
<1>2. /\ lease \in Records /\ got \in [Replicas -> Records]
      /\ mode \in [Replicas -> {"gone", "down", "acquire", "keep", "retake"}]
      /\ step \in [Replicas -> {"sleep", "get", "read", "write", "wrote"}]
      /\ reply \in [Replicas -> {"none", "ok", "conflict", "error"}]
      /\ wait \in [Replicas -> Nat] /\ \A r \in Replicas : wait[r] <= Limit(r)
  BY DEF ElectionInit, Absent, Records, Limit
<1>3. \A r \in Replicas : mode[r] = "down" /\ step[r] = "sleep"
  BY DEF ElectionInit
<1>4. ElectionTypeOK
  BY <1>1, <1>2, Zenon DEF ElectionTypeOK
<1>5. DownSleeps /\ CurrentIsStored /\ WriterEntitled
  BY <1>1, <1>3 DEF DownSleeps, CurrentIsStored, WriterEntitled
<1>6. CallsPrompt /\ OwnersHold
  BY <1>3 DEF CallsPrompt, InCall, OwnersHold, Owns, Leading
<1> QED
  BY <1>4, <1>5, <1>6, Zenon DEF ElectionIInv

(***************************************************************************)
(* A replica's move: a step that leaves the record, what was read and the  *)
(* resourceVersions alone.                                                 *)
(***************************************************************************)
Move(r, m, s) ==
    /\ StepTo(r, m, s)
    /\ UNCHANGED <<lease, got, current, calm, deleted, slow>>
    /\ reply' \in {reply, [reply EXCEPT ![r] = "none"]}

\* What a move must not spoil: a replica that is not running sleeps, a write is
\* entitled, and a leader's record is its own and young enough for the step.
Sound(r, m, s) ==
    /\ m \in {"down", "gone"} => s = "sleep"
    /\ s = "write" /\ current[r] => Vacant(r, lease) /\ (m = "keep" => lease.holder = r)
    /\ ~deleted /\ ~slow /\ m \in {"keep", "retake"} =>
         /\ m = "keep" /\ lease.holder = r
         /\ s = "sleep" => lease.age <= Prompt
         /\ s = "get" => lease.age <= Prompt + Renew
         /\ s = "write" => current[r] /\ lease.age <= 2 * Prompt + Renew

LEMMA MoveTypes ==
    ASSUME ElectionTypeOK, NEW r \in Replicas,
           NEW m \in {"gone", "down", "acquire", "keep", "retake"},
           NEW s \in {"sleep", "get", "write"},
           Move(r, m, s)
    PROVE  ElectionTypeOK'
<1>1. /\ current' \in [Replicas -> BOOLEAN]
      /\ calm' \in BOOLEAN /\ deleted' \in BOOLEAN /\ slow' \in BOOLEAN
  BY Zenon DEF ElectionTypeOK, Move
<1>2. mode' \in [Replicas -> {"gone", "down", "acquire", "keep", "retake"}]
  BY DEF ElectionTypeOK, Move, StepTo
<1>3. step' \in [Replicas -> {"sleep", "get", "read", "write", "wrote"}]
  BY DEF ElectionTypeOK, Move, StepTo
<1>4. wait' \in [Replicas -> Nat]
  BY DEF ElectionTypeOK, Move, StepTo
<1>5. \A q \in Replicas : wait'[q] <= Limit(q)'
  BY DEF ElectionTypeOK, Move, StepTo, Limit
<1>6. lease' \in Records /\ got' \in [Replicas -> Records]
  BY DEF ElectionTypeOK, Move
<1>7. reply' \in [Replicas -> {"none", "ok", "conflict", "error"}]
  BY DEF ElectionTypeOK, Move
<1> QED
  BY <1>1, <1>2, <1>3, <1>4, <1>5, <1>6, <1>7 DEF ElectionTypeOK

\* Every sound move keeps the invariant.
LEMMA MoveStep ==
    ASSUME ElectionIInv, NEW r \in Replicas,
           NEW m \in {"gone", "down", "acquire", "keep", "retake"},
           NEW s \in {"sleep", "get", "write"},
           Move(r, m, s), Sound(r, m, s)
    PROVE  ElectionIInv'
<1>1. ElectionTypeOK'
  BY MoveTypes, Zenon DEF ElectionIInv
<1>2. /\ mode'[r] = m /\ step'[r] = s /\ wait'[r] = 0
      /\ \A q \in Replicas \ {r} :
            /\ mode'[q] = mode[q] /\ step'[q] = step[q] /\ wait'[q] = wait[q]
            /\ reply'[q] = reply[q]
      /\ lease' = lease /\ got' = got /\ current' = current
      /\ (deleted' <=> deleted) /\ (slow' <=> slow)
  BY DEF ElectionIInv, ElectionTypeOK, Move, StepTo
<1>3. DownSleeps'
  BY <1>2 DEF ElectionIInv, DownSleeps, Running, Sound
<1>4. CurrentIsStored'
  BY <1>2 DEF ElectionIInv, CurrentIsStored
<1>5. WriterEntitled'
  BY <1>2 DEF ElectionIInv, WriterEntitled, Vacant, Expired, Sound
<1>6. CallsPrompt'
  BY <1>2 DEF ElectionIInv, CallsPrompt, InCall, Running
<1>7. ASSUME ~deleted', ~slow', NEW q \in Replicas, Owns(q)' PROVE OwnerHolds(q)'
  <2>1. CASE q = r
    <3>1. ~deleted /\ ~slow /\ m \in {"keep", "retake"}
      BY <1>2, <1>7, <2>1 DEF Owns, Leading
    <3> QED
      BY <1>1, <1>2, <2>1, <3>1 DEF OwnerHolds, MaxAge, Sound, ElectionTypeOK, Records
  <2>2. CASE q # r
    <3>1. Owns(q) /\ ~deleted /\ ~slow
      BY <1>2, <1>7, <2>2 DEF Owns, Leading
    <3>2. OwnerHolds(q)
      BY <3>1 DEF ElectionIInv, OwnersHold
    <3> QED
      BY <1>2, <2>2, <3>2 DEF OwnerHolds, MaxAge
  <2> QED
    BY <2>1, <2>2
<1>8. OwnersHold'
  BY <1>7 DEF OwnersHold
<1> QED
  BY <1>1, <1>3, <1>4, <1>5, <1>6, <1>8, Zenon DEF ElectionIInv

\* Whoever is not leading and goes on not leading, and not writing, moves soundly.
LEMMA IdleSound ==
    ASSUME NEW r \in Replicas, NEW m \in {"gone", "down", "acquire"},
           NEW s \in {"sleep", "get"}, m = "acquire" \/ s = "sleep"
    PROVE  Sound(r, m, s)
BY DEF Sound

LEMMA NotOursStep ==
    ASSUME ElectionIInv, NEW r \in Replicas, NotOurs(r),
           UNCHANGED <<lease, got, current, calm, deleted, slow>>,
           reply' \in {reply, [reply EXCEPT ![r] = "none"]}
    PROVE  ElectionIInv'
<1>1. PICK m \in {"down", "acquire"} : StepTo(r, m, "sleep")
  BY Zenon DEF NotOurs, Exit
<1>2. Move(r, m, "sleep") /\ Sound(r, m, "sleep")
  BY <1>1, IdleSound, Zenon DEF Move
<1> QED
  BY <1>2, MoveStep

(***************************************************************************)
(* One lemma per action that is more than an idle move.                    *)
(***************************************************************************)

\* An owner's record has not expired while calls are prompt: the lease outlasts
\* a sleep and three calls.
LEMMA OwnerNotExpired ==
    ASSUME ElectionIInv, ~deleted, ~slow, NEW r \in Replicas, Owns(r)
    PROVE  /\ OwnerHolds(r)
           /\ lease.age <= Duration
           /\ \A q \in Replicas \ {r} : ~Vacant(q, lease)
<1>1. OwnerHolds(r)
  BY DEF ElectionIInv, OwnersHold
<1>2. InCall(r) => wait[r] <= Prompt
  BY DEF ElectionIInv, CallsPrompt
<1>3. /\ wait[r] \in Nat /\ wait[r] <= Limit(r) /\ lease.age \in Nat
      /\ step[r] \in {"sleep", "get", "read", "write", "wrote"}
  BY DEF ElectionIInv, ElectionTypeOK, Records
<1>4. Running(r)
  BY DEF Owns, Leading, Running
<1>5. lease.age <= Duration
  BY <1>1, <1>2, <1>3, <1>4 DEF OwnerHolds, MaxAge, InCall, Limit
<1>6. \A q \in Replicas \ {r} : ~Vacant(q, lease)
  BY <1>1, <1>3, <1>5 DEF OwnerHolds, Vacant, Expired
<1> QED
  BY <1>1, <1>5, <1>6

LEMMA WakeStep == ASSUME ElectionIInv, NEW r \in Replicas, Wake(r) PROVE ElectionIInv'
<1>1. Move(r, mode[r], "get")
  BY Zenon DEF Wake, Move
<1>2. mode[r] \in {"acquire", "keep", "retake"}
  BY DEF Wake, Running, ElectionIInv, ElectionTypeOK
<1>3. ASSUME ~deleted, ~slow, Leading(r)
      PROVE  mode[r] = "keep" /\ lease.holder = r /\ lease.age <= Prompt + Renew
  <2>1. OwnerHolds(r)
    BY <1>3 DEF ElectionIInv, OwnersHold, Owns
  <2>2. step[r] = "sleep" /\ wait[r] \in Nat /\ wait[r] <= Renew /\ lease.age \in Nat
    BY DEF Wake, ElectionIInv, ElectionTypeOK, Limit, Records
  <2> QED
    BY <1>3, <2>1, <2>2 DEF OwnerHolds, MaxAge, Leading
<1>4. Sound(r, mode[r], "get")
  BY <1>2, <1>3 DEF Sound, Leading
<1> QED
  BY <1>1, <1>2, <1>4, MoveStep

LEMMA ReadStep == ASSUME ElectionIInv, NEW r \in Replicas, Read(r) PROVE ElectionIInv'
<1>1. /\ current' \in [Replicas -> BOOLEAN]
      /\ calm' \in BOOLEAN /\ deleted' \in BOOLEAN /\ slow' \in BOOLEAN
  BY Zenon DEF Read, ElectionIInv, ElectionTypeOK
<1>2. /\ step[r] = "get" /\ step'[r] = "read" /\ got'[r] = lease /\ current'[r]
      /\ \A q \in Replicas \ {r} :
            step'[q] = step[q] /\ got'[q] = got[q] /\ current'[q] = current[q]
      /\ lease' = lease /\ mode' = mode /\ wait' = wait /\ reply' = reply
      /\ (calm' <=> calm) /\ (deleted' <=> deleted) /\ (slow' <=> slow)
  BY DEF Read, ElectionIInv, ElectionTypeOK
<1>3. ElectionTypeOK'
  <2>1. /\ step' \in [Replicas -> {"sleep", "get", "read", "write", "wrote"}]
        /\ got' \in [Replicas -> Records]
    BY DEF Read, ElectionIInv, ElectionTypeOK
  <2>2. \A q \in Replicas : wait'[q] <= Limit(q)'
    BY <1>2 DEF ElectionIInv, ElectionTypeOK, Limit
  <2> QED
    BY <1>1, <1>2, <2>1, <2>2 DEF ElectionIInv, ElectionTypeOK
<1>4. DownSleeps'
  BY <1>2 DEF ElectionIInv, DownSleeps, Running
<1>5. CurrentIsStored'
  BY <1>2 DEF ElectionIInv, CurrentIsStored
<1>6. WriterEntitled'
  BY <1>2 DEF ElectionIInv, WriterEntitled, Vacant, Expired
<1>7. CallsPrompt'
  BY <1>2 DEF ElectionIInv, CallsPrompt, InCall, Running
<1>8. ASSUME ~deleted', ~slow', NEW q \in Replicas, Owns(q)' PROVE OwnerHolds(q)'
  <2>1. Owns(q)
    BY <1>2, <1>8 DEF Owns, Leading
  <2>2. OwnerHolds(q)
    BY <1>2, <1>8, <2>1 DEF ElectionIInv, OwnersHold
  <2> QED
    BY <1>2, <2>2 DEF OwnerHolds, MaxAge
<1>9. OwnersHold'
  BY <1>8 DEF OwnersHold
<1> QED
  BY <1>3, <1>4, <1>5, <1>6, <1>7, <1>9, Zenon DEF ElectionIInv

LEMMA DecideAcquireStep == ASSUME ElectionIInv, NEW r \in Replicas, DecideAcquire(r) PROVE ElectionIInv'
<1>1. CASE Vacant(r, got[r])
  <2>1. Move(r, mode[r], "write")
    BY <1>1, Zenon DEF DecideAcquire, Move
  <2>2. mode[r] \in {"acquire", "retake"} /\ step[r] = "read"
    BY DEF DecideAcquire
  <2>3. current[r] => Vacant(r, lease)
    BY <1>1 DEF ElectionIInv, CurrentIsStored
  <2>4. mode[r] = "retake" => deleted \/ slow
    BY DEF ElectionIInv, OwnersHold, Owns, Leading, OwnerHolds
  <2>5. Sound(r, mode[r], "write")
    BY <2>2, <2>3, <2>4 DEF Sound
  <2> QED
    BY <2>1, <2>2, <2>5, MoveStep
<1>2. CASE ~Vacant(r, got[r])
  BY <1>2, NotOursStep, Zenon DEF DecideAcquire
<1> QED
  BY <1>1, <1>2

LEMMA DecideKeepStep == ASSUME ElectionIInv, NEW r \in Replicas, DecideKeep(r) PROVE ElectionIInv'
<1>1. mode[r] = "keep" /\ step[r] = "read"
  BY DEF DecideKeep
<1>2. ASSUME ~deleted, ~slow
      PROVE  current[r] /\ got[r].holder = r /\ lease.holder = r
             /\ lease.age <= 2 * Prompt + Renew
  <2>1. OwnerHolds(r)
    BY <1>1, <1>2 DEF ElectionIInv, OwnersHold, Owns, Leading
  <2>2. current[r] /\ got[r] = lease
    BY <1>1, <2>1 DEF OwnerHolds, ElectionIInv, CurrentIsStored
  <2>3. wait[r] \in Nat /\ wait[r] <= Prompt /\ lease.age \in Nat
    BY <1>1, <1>2 DEF ElectionIInv, ElectionTypeOK, CallsPrompt, InCall, Running, Records
  <2> QED
    BY <1>1, <2>1, <2>2, <2>3 DEF OwnerHolds, MaxAge
<1>3. CASE got[r].holder = Nobody
  <2>1. StepTo(r, "retake", "get")
    BY <1>3 DEF DecideKeep
  <2>2. Move(r, "retake", "get")
    BY <2>1, Zenon DEF DecideKeep, Move
  <2>3. Sound(r, "retake", "get")
    BY <1>2, <1>3 DEF Sound
  <2> QED
    BY <2>2, <2>3, MoveStep
<1>4. CASE got[r].holder \notin {Nobody, r}
  <2>1. Move(r, "down", "sleep")
    BY <1>4 DEF DecideKeep, Move, Exit
  <2> QED
    BY <2>1, IdleSound, MoveStep
<1>5. CASE got[r].holder = r
  <2>1. Move(r, "keep", "write")
    BY <1>5 DEF DecideKeep, Move
  <2>2. current[r] => lease.holder = r
    BY <1>5 DEF ElectionIInv, CurrentIsStored
  <2>3. Sound(r, "keep", "write")
    BY <1>2, <2>2 DEF Sound, Vacant
  <2> QED
    BY <2>1, <2>3, MoveStep
<1> QED
  BY <1>3, <1>4, <1>5

LEMMA AnswerStep == ASSUME ElectionIInv, NEW r \in Replicas, Answer(r) PROVE ElectionIInv'
<1>1. /\ step[r] = "wrote"
      /\ UNCHANGED <<lease, got, current, calm, deleted, slow>>
      /\ reply' = [reply EXCEPT ![r] = "none"]
  BY Zenon DEF Answer
<1>2. NotOurs(r) \/ (StepTo(r, "keep", "sleep") /\ (reply[r] = "ok" \/ mode[r] = "keep"))
  BY Zenon DEF Answer
<1>3. CASE NotOurs(r)
  BY <1>1, <1>3, NotOursStep
<1>4. CASE StepTo(r, "keep", "sleep") /\ (reply[r] = "ok" \/ mode[r] = "keep")
  <2>1. Move(r, "keep", "sleep")
    BY <1>1, <1>4, Zenon DEF Move
  <2>2. ASSUME ~deleted, ~slow PROVE lease.holder = r /\ lease.age <= Prompt
    <3>1. mode[r] \in {"acquire", "keep", "retake"}
      BY <1>1 DEF ElectionIInv, ElectionTypeOK, DownSleeps, Running
    <3>2. Owns(r)
      BY <1>1, <1>4, <3>1 DEF Owns, Leading
    <3>3. OwnerHolds(r)
      BY <2>2, <3>2 DEF ElectionIInv, OwnersHold
    <3>4. wait[r] \in Nat /\ wait[r] <= Prompt /\ lease.age \in Nat
      BY <1>1, <2>2, <3>1 DEF ElectionIInv, ElectionTypeOK, CallsPrompt, InCall, Running, Records
    <3> QED
      BY <1>1, <3>3, <3>4 DEF OwnerHolds, MaxAge
  <2>3. Sound(r, "keep", "sleep")
    BY <2>2 DEF Sound
  <2> QED
    BY <2>1, <2>3, MoveStep
<1> QED
  BY <1>2, <1>3, <1>4

LEMMA LandStep == ASSUME ElectionIInv, NEW r \in Replicas, Land(r) PROVE ElectionIInv'
<1>1. /\ current' \in [Replicas -> BOOLEAN]
      /\ calm' \in BOOLEAN /\ deleted' \in BOOLEAN /\ slow' \in BOOLEAN
  <2>1. current' \in {current, [q \in Replicas |-> FALSE]}
    BY Zenon DEF Land
  <2> QED
    BY <2>1, Zenon DEF Land, ElectionIInv, ElectionTypeOK
<1>2. /\ step[r] = "write" /\ step'[r] = "wrote"
      /\ \A q \in Replicas \ {r} : step'[q] = step[q] /\ reply'[q] = reply[q]
      /\ mode' = mode /\ wait' = wait /\ got' = got
      /\ (calm' <=> calm) /\ (deleted' <=> deleted) /\ (slow' <=> slow)
  BY DEF Land, ElectionIInv, ElectionTypeOK
<1>3. /\ wait[r] \in Nat /\ wait[r] <= MaxCall /\ Running(r)
      /\ ~slow => wait[r] <= Prompt
  BY <1>2 DEF ElectionIInv, ElectionTypeOK, Limit, DownSleeps, CallsPrompt, InCall
<1>4. ElectionTypeOK'
  <2>1. /\ step' \in [Replicas -> {"sleep", "get", "read", "write", "wrote"}]
        /\ reply' \in [Replicas -> {"none", "ok", "conflict", "error"}]
    BY DEF Land, ElectionIInv, ElectionTypeOK
  <2>2. \A q \in Replicas : wait'[q] <= Limit(q)'
    BY <1>2 DEF ElectionIInv, ElectionTypeOK, Limit
  <2>3. lease' \in Records
    BY <1>3 DEF Land, ElectionIInv, ElectionTypeOK, Records
  <2> QED
    BY <1>1, <1>2, <2>1, <2>2, <2>3 DEF ElectionIInv, ElectionTypeOK
<1>5. DownSleeps' /\ CallsPrompt'
  BY <1>2, <1>3 DEF ElectionIInv, DownSleeps, CallsPrompt, InCall, Running
<1>6. CASE current[r]
  <2>1. /\ lease' = [holder |-> r, age |-> wait[r]] /\ reply'[r] = "ok"
        /\ \A q \in Replicas : ~current'[q]
    BY <1>6 DEF Land, Replaces, ElectionIInv, ElectionTypeOK
  <2>2. CurrentIsStored' /\ WriterEntitled'
    BY <2>1 DEF CurrentIsStored, WriterEntitled
  <2>3. ASSUME ~deleted', ~slow', NEW q \in Replicas, Owns(q)' PROVE OwnerHolds(q)'
    <3>1. CASE q = r
      <4>1. mode[r] # "retake"
        BY <1>2, <2>3 DEF ElectionIInv, OwnersHold, Owns, Leading, OwnerHolds
      <4> QED
        BY <1>2, <1>3, <2>1, <3>1, <4>1 DEF OwnerHolds, MaxAge
    <3>2. CASE q # r
      <4>1. Owns(q) /\ ~deleted /\ ~slow
        BY <1>2, <2>3, <3>2 DEF Owns, Leading
      <4>2. ~Vacant(r, lease)
        BY <3>2, <4>1, OwnerNotExpired
      <4> QED
        BY <1>2, <1>6, <4>2 DEF ElectionIInv, WriterEntitled
    <3> QED
      BY <3>1, <3>2
  <2>4. OwnersHold'
    BY <2>3 DEF OwnersHold
  <2> QED
    BY <1>4, <1>5, <2>2, <2>4, Zenon DEF ElectionIInv
<1>7. CASE ~current[r]
  <2>1. lease' = lease /\ current' = current /\ reply'[r] \in {"error", "conflict"}
    BY <1>7 DEF Land, Replaces, ElectionIInv, ElectionTypeOK
  <2>2. CurrentIsStored'
    BY <1>2, <2>1 DEF ElectionIInv, CurrentIsStored
  <2>3. WriterEntitled'
    BY <1>2, <2>1 DEF ElectionIInv, WriterEntitled, Vacant, Expired
  <2>4. ASSUME ~deleted', ~slow', NEW q \in Replicas, Owns(q)' PROVE OwnerHolds(q)'
    <3>1. Owns(q) /\ ~deleted /\ ~slow
      BY <1>2, <2>1, <2>4 DEF Owns, Leading
    <3>2. OwnerHolds(q)
      BY <3>1 DEF ElectionIInv, OwnersHold
    <3>3. q # r
      BY <1>2, <1>7, <3>2 DEF OwnerHolds
    <3> QED
      BY <1>2, <2>1, <3>2, <3>3 DEF OwnerHolds, MaxAge
  <2>5. OwnersHold'
    BY <2>4 DEF OwnersHold
  <2> QED
    BY <1>4, <1>5, <2>2, <2>3, <2>5, Zenon DEF ElectionIInv
<1> QED
  BY <1>6, <1>7

LEMMA DeleteStep == ASSUME ElectionIInv, Delete PROVE ElectionIInv'
<1>1. /\ current' \in [Replicas -> BOOLEAN] /\ \A r \in Replicas : ~current'[r]
      /\ calm' \in BOOLEAN /\ deleted' \in BOOLEAN /\ slow' \in BOOLEAN
      /\ deleted' /\ (calm' <=> calm) /\ (slow' <=> slow)
      /\ UNCHANGED <<mode, step, wait, got, reply>>
  BY Zenon DEF Delete, ElectionIInv, ElectionTypeOK
<1>2. lease' \in Records
  BY DEF Delete, Absent, Records
<1>3. ElectionTypeOK'
  BY <1>1, <1>2 DEF ElectionIInv, ElectionTypeOK, Limit
<1>4. DownSleeps' /\ CallsPrompt'
  BY <1>1 DEF ElectionIInv, DownSleeps, CallsPrompt, InCall, Running
<1>5. CurrentIsStored' /\ WriterEntitled' /\ OwnersHold'
  BY <1>1 DEF CurrentIsStored, WriterEntitled, OwnersHold
<1> QED
  BY <1>3, <1>4, <1>5, Zenon DEF ElectionIInv

LEMMA CalmStep == ASSUME ElectionIInv, Calm PROVE ElectionIInv'
<1>1. /\ current' \in [Replicas -> BOOLEAN]
      /\ calm' \in BOOLEAN /\ deleted' \in BOOLEAN /\ slow' \in BOOLEAN
      /\ (deleted' <=> deleted) /\ (slow' <=> slow)
      /\ UNCHANGED <<lease, mode, step, wait, got, current, reply>>
  BY Zenon DEF Calm, ElectionIInv, ElectionTypeOK
<1>2. \A r \in Replicas : wait'[r] <= Limit(r)'
  BY <1>1 DEF Calm, ElectionIInv, ElectionTypeOK, Limit, InCall, DownSleeps
<1>3. ElectionTypeOK'
  BY <1>1, <1>2 DEF ElectionIInv, ElectionTypeOK
<1>4. DownSleeps' /\ CallsPrompt'
  BY <1>1 DEF ElectionIInv, DownSleeps, CallsPrompt, InCall, Running
<1>5. CurrentIsStored' /\ WriterEntitled'
  BY <1>1 DEF ElectionIInv, CurrentIsStored, WriterEntitled, Vacant, Expired
<1>6. OwnersHold'
  BY <1>1 DEF ElectionIInv, OwnersHold, Owns, Leading, OwnerHolds, MaxAge
<1> QED
  BY <1>3, <1>4, <1>5, <1>6, Zenon DEF ElectionIInv

LEMMA TickStep == ASSUME ElectionIInv, Tick PROVE ElectionIInv'
<1>1. /\ calm' \in BOOLEAN /\ deleted' \in BOOLEAN /\ slow' \in BOOLEAN
      /\ (deleted' <=> deleted) /\ (calm' <=> calm) /\ (slow => slow')
      /\ UNCHANGED <<mode, step, reply>>
  BY Zenon DEF Tick, ElectionIInv, ElectionTypeOK
<1>2. current' = [r \in Replicas |-> InHand(r) /\ current[r]]
  BY Zenon DEF Tick
<1>3. ASSUME NEW r \in Replicas
       PROVE  /\ (current'[r] <=> InHand(r) /\ current[r])
              /\ (InHand(r) /\ current[r]) \in BOOLEAN
  <2>1. InHand(r) \in BOOLEAN /\ current[r] \in BOOLEAN
    BY DEF InHand, ElectionIInv, ElectionTypeOK
  <2>2. current'[r] = (InHand(r) /\ current[r])
    BY <1>2, Zenon
  <2> QED
    BY <2>1, <2>2, Zenon
<1>4. current' \in [Replicas -> BOOLEAN]
  BY <1>2, <1>3, Zenon
<1>5. /\ \A r \in Replicas :
            /\ wait'[r] = IF Running(r) THEN wait[r] + 1 ELSE 0
            /\ got'[r] = IF InHand(r) THEN Older(got[r]) ELSE Absent
      /\ lease' = Older(lease)
  BY DEF Tick
<1>6. ~slow' => \A r \in Replicas : InCall(r) => wait[r] < Prompt
  <2>1. ~slow' => ~\E r \in Replicas : InCall(r) /\ wait[r] >= Prompt
    BY Zenon DEF Tick
  <2>2. \A r \in Replicas : wait[r] \in Nat
    BY DEF ElectionIInv, ElectionTypeOK
  <2> QED
    BY <2>1, <2>2
<1>7. /\ lease \in Records /\ lease' \in Records /\ lease'.holder = lease.holder
      /\ lease.age <= lease'.age /\ lease'.age <= lease.age + 1
      /\ lease.age \in Nat /\ lease'.age \in Nat
  BY <1>5, OlderRecord DEF ElectionIInv, ElectionTypeOK, Records
<1>8. ElectionTypeOK'
  <2>1. wait' \in [Replicas -> Nat] /\ got' \in [Replicas -> Records]
    BY <1>5, OlderRecord DEF Tick, ElectionIInv, ElectionTypeOK, Absent, Records
  <2>2. \A r \in Replicas : wait'[r] <= Limit(r)'
    BY <1>1, <1>5 DEF Tick, ElectionIInv, ElectionTypeOK, Limit
  <2> QED
    BY <1>1, <1>7, <1>4, <2>1, <2>2 DEF ElectionIInv, ElectionTypeOK
<1>9. DownSleeps'
  BY <1>1 DEF ElectionIInv, DownSleeps, Running
<1>10. CallsPrompt'
  BY <1>1, <1>5, <1>6 DEF ElectionIInv, ElectionTypeOK, CallsPrompt, InCall, Running
<1>11. CurrentIsStored'
  BY <1>5, <1>3 DEF ElectionIInv, CurrentIsStored
<1>12. WriterEntitled'
  BY <1>1, <1>7, <1>3 DEF ElectionIInv, WriterEntitled, Vacant, Expired
<1>13. ASSUME ~deleted', ~slow', NEW r \in Replicas, Owns(r)' PROVE OwnerHolds(r)'
  <2>1. Owns(r) /\ ~deleted /\ ~slow
    BY <1>1, <1>13 DEF Owns, Leading
  <2>2. OwnerHolds(r)
    BY <2>1 DEF ElectionIInv, OwnersHold
  <2>3. wait[r] \in Nat /\ wait'[r] = wait[r] + 1
        /\ step[r] \in {"sleep", "get", "read", "write", "wrote"}
    BY <1>5, <2>1 DEF ElectionIInv, ElectionTypeOK, Owns, Leading, Running
  <2> QED
    BY <1>1, <1>7, <1>3, <2>2, <2>3 DEF OwnerHolds, MaxAge, InHand
<1>14. OwnersHold'
  BY <1>13 DEF OwnersHold
<1> QED
  BY <1>8, <1>9, <1>10, <1>11, <1>12, <1>14, Zenon DEF ElectionIInv

(***************************************************************************)
(* The invariant is inductive.                                             *)
(***************************************************************************)
LEMMA Inductive == ElectionIInv /\ [ElectionNext]_election => ElectionIInv'
<1> SUFFICES ASSUME ElectionIInv, [ElectionNext]_election PROVE ElectionIInv'
  OBVIOUS
<1>1. ASSUME NEW r \in Replicas, Start(r) PROVE ElectionIInv'
  <2>1. Move(r, "acquire", "get")
    BY <1>1, Zenon DEF Start, Move
  <2> QED
    BY <2>1, IdleSound, MoveStep
<1>2. ASSUME NEW r \in Replicas, CallFails(r) PROVE ElectionIInv'
  BY <1>2, NotOursStep, Zenon DEF CallFails
<1>3. ASSUME NEW r \in Replicas, ReplicaCrash(r) PROVE ElectionIInv'
  <2>1. Move(r, "down", "sleep")
    BY <1>3, Zenon DEF ReplicaCrash, Exit, Move
  <2> QED
    BY <2>1, IdleSound, MoveStep
<1>4. ASSUME NEW r \in Replicas, Evict(r) PROVE ElectionIInv'
  <2>1. Move(r, "gone", "sleep")
    BY <1>4, Zenon DEF Evict, Move
  <2> QED
    BY <2>1, IdleSound, MoveStep
<1>5. ASSUME NEW r \in Replicas, Step(r) PROVE ElectionIInv'
  BY <1>5, WakeStep, ReadStep, DecideAcquireStep, DecideKeepStep, LandStep, AnswerStep, Zenon
     DEF Step
<1>6. CASE UNCHANGED election
  <2>1. /\ UNCHANGED <<lease, mode, step, wait, got, current, reply>>
        /\ (deleted' <=> deleted) /\ (slow' <=> slow) /\ (calm' <=> calm)
        /\ calm' \in BOOLEAN /\ deleted' \in BOOLEAN /\ slow' \in BOOLEAN
    BY <1>6, Zenon DEF election, ElectionIInv, ElectionTypeOK
  <2>2. ElectionTypeOK'
    BY <2>1 DEF ElectionIInv, ElectionTypeOK, Limit
  <2>3. DownSleeps' /\ CallsPrompt'
    BY <2>1 DEF ElectionIInv, DownSleeps, CallsPrompt, InCall, Running
  <2>4. CurrentIsStored' /\ WriterEntitled'
    BY <2>1 DEF ElectionIInv, CurrentIsStored, WriterEntitled, Vacant, Expired
  <2>5. OwnersHold'
    BY <2>1 DEF ElectionIInv, OwnersHold, Owns, Leading, OwnerHolds, MaxAge
  <2> QED
    BY <2>2, <2>3, <2>4, <2>5, Zenon DEF ElectionIInv
<1> QED
  BY <1>1, <1>2, <1>3, <1>4, <1>5, <1>6, DeleteStep, CalmStep, TickStep, Zenon DEF ElectionNext

LEMMA Invariance == ElectionSpec => []ElectionIInv
BY ElectionInitial, Inductive, PTL DEF ElectionSpec

\* Type correctness of the election; no step overruns its limit.
THEOREM ElectionTypeCorrect == ElectionSpec => []ElectionTypeOK
<1>1. ElectionIInv => ElectionTypeOK
  BY DEF ElectionIInv
<1> QED
  BY <1>1, Invariance, PTL

\* With prompt calls and the Lease left alone, at most one replica reconciles:
\* both would be the holder of the one record.
THEOREM AtMostOneLeader == ElectionSpec => []OneLeader
<1>1. ElectionIInv => OneLeader
  BY DEF ElectionIInv, OneLeader, OwnersHold, Owns, OwnerHolds
<1> QED
  BY <1>1, Invariance, PTL

\* What a step does to the holder of the record.
LEMMA HolderChanges ==
    ASSUME ElectionIInv, [ElectionNext]_election
    PROVE  \/ lease'.holder \in {lease.holder, Nobody}
           \/ \E r \in Replicas : step[r] = "write" /\ current[r] /\ lease'.holder = r
<1>1. ASSUME NEW r \in Replicas, Land(r)
      PROVE  lease' = lease \/ (step[r] = "write" /\ current[r] /\ lease'.holder = r)
  BY <1>1 DEF Land, Replaces
<1>2. ASSUME NEW r \in Replicas, Start(r) \/ CallFails(r) \/ ReplicaCrash(r) \/ Evict(r) \/ Wake(r)
                                 \/ Read(r) \/ DecideAcquire(r) \/ DecideKeep(r) \/ Answer(r)
      PROVE  lease' = lease
  BY <1>2, Zenon DEF Start, CallFails, ReplicaCrash, Evict, Wake, Read, DecideAcquire, DecideKeep,
                     Answer
<1>3. CASE Delete
  BY <1>3 DEF Delete, Absent
<1>4. CASE Tick
  BY <1>4, OlderRecord DEF Tick, ElectionIInv, ElectionTypeOK
<1>5. CASE Calm \/ UNCHANGED election
  BY <1>5, Zenon DEF Calm, election
<1> QED
  BY <1>1, <1>2, <1>3, <1>4, <1>5, Zenon DEF ElectionNext, Step

\* The record passes from one replica to another only when it has expired.
THEOREM TakeoversOfExpired == ElectionSpec => TakeoverOnlyExpired
<1>1. ElectionIInv /\ [ElectionNext]_election =>
        [lease.holder # Nobody /\ lease'.holder \notin {Nobody, lease.holder}
            => Expired(lease)]_election
  <2> SUFFICES ASSUME ElectionIInv, [ElectionNext]_election, lease.holder # Nobody,
                      lease'.holder \notin {Nobody, lease.holder}
               PROVE  Expired(lease)
    OBVIOUS
  <2>1. PICK r \in Replicas : step[r] = "write" /\ current[r] /\ lease'.holder = r
    BY HolderChanges
  <2> QED
    BY <2>1 DEF ElectionIInv, WriterEntitled, Vacant
<1> QED
  BY <1>1, Invariance, PTL DEF ElectionSpec, TakeoverOnlyExpired

\* A leader whose record another replica holds never writes it again.
THEOREM UsurpedStaysOut == ElectionSpec => UsurpedNeverRenews
<1>1. ElectionIInv /\ [ElectionNext]_election =>
        [\A r \in Replicas :
            mode[r] = "keep" /\ lease.holder \notin {Nobody, r} => lease'.holder # r]_election
  <2> SUFFICES ASSUME ElectionIInv, [ElectionNext]_election, NEW r \in Replicas,
                      mode[r] = "keep", lease.holder \notin {Nobody, r}
               PROVE  lease'.holder # r
    OBVIOUS
  <2>1. \A q \in Replicas : step[q] = "write" /\ current[q] /\ mode[q] = "keep"
                              => lease.holder = q
    BY DEF ElectionIInv, WriterEntitled
  <2> QED
    BY <2>1, HolderChanges
<1> QED
  BY <1>1, Invariance, PTL DEF ElectionSpec, UsurpedNeverRenews

\* The two facts about a write of the record, together: what try_acquire and keep
\* decide on a record they read still holds when the server takes their write.
THEOREM LeaseHonoured == ElectionSpec => LeaseRespected
  BY TakeoversOfExpired, UsurpedStaysOut, PTL DEF LeaseRespected

=============================================================================
