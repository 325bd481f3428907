--------------------------- MODULE OperatorReconcile ---------------------------
(***************************************************************************)
(* The operator's reconcile of one FastllmProxy (operator/src/main.rs)     *)
(* with the objects it renders (resources.rs), the Secrets it resolves     *)
(* first (preflight.rs) and the resource it reads and reports on (crd.rs). *)
(*                                                                         *)
(* A pass works on the watch cache's copy of the resource, which may be    *)
(* old, and is a sequence of API calls: each step below is one call, or    *)
(* several in a row whose order nothing else depends on.  Any call may     *)
(* fail (on_error: the pass is given up and requeued) and the process may  *)
(* die after any of them, its last write landing later.  A rendered object *)
(* is reduced to what the controller decides about it: image, config hash, *)
(* pod selector, strategy.  The Deployment controller, the Job controller  *)
(* and people with kubectl are the environment.                            *)
(***************************************************************************)
EXTENDS Naturals, FiniteSets

CONSTANTS
    None,
    Specs,      \* the specs somebody may write, the fields this module looks at
    First,      \* the one the resource is created with, which an adopted install also runs
    Keys,       \* contents the referenced Secrets may have, all of them usable
    Unusable,   \* a Secret is missing, or its value does not pass preflight
    MaxWork     \* bound on edits, rotations and faults

SpecFields == {"image", "tuning", "bootstrap", "replicas", "autoscaling", "ingress"}
Images == {s.image : s \in Specs}
Selectors == {"own", "base"}
Hashes == {None} \cup ((Keys \cup {Unusable}) \X {s.tuning : s \in Specs})
Wants ==
    [image : Images, hash : Hashes, sel : Selectors, recreate : BOOLEAN]
Deployments ==
    [image : Images, hash : Hashes, sel : Selectors, recreate : BOOLEAN,
     observed : BOOLEAN, updated : BOOLEAN, ready : BOOLEAN]

ASSUME OperatorAssumption ==
    /\ MaxWork \in Nat /\ Unusable \notin Keys
    /\ First \in Specs
    /\ \A s \in Specs : DOMAIN s = SpecFields
    /\ None \notin Images \cup Selectors \cup Deployments

VARIABLES
    cr,        \* the resource: spec, generation, status
    cached,    \* the newest copy of it the watch cache has handed out
    secrets,   \* a member of Keys, or Unusable
    control,   \* the control plane's Deployment, or None
    proxy,     \* the gateway's Deployment, or None
    objs,      \* the other objects: the ConfigMap, both Services' selectors, the extras
    job,       \* the bootstrap Job: "none", "running", "done" or "failed"
    pass,      \* the pass under way: its step and its locals
    up,        \* an operator process leads
    late,      \* at most one write of a dead process that has not landed yet
    work,
    rolled,    \* history: images a control plane has been ready on
    touched    \* history: an object was changed from outside and no whole pass has followed

cluster == <<control, proxy, objs>>
vars == <<cr, cached, secrets, control, proxy, objs, job, pass, up, late, work, rolled, touched>>

Idle == [at |-> "idle"]

\* Somebody else wrote to the objects, under a pass or between two.
Touch ==
    /\ touched' = TRUE
    /\ pass' = IF pass = Idle THEN Idle ELSE [pass EXCEPT !.clean = FALSE]

Unreported ==
    [phase |-> "none", control |-> FALSE, image |-> None, bootstrapped |-> FALSE,
     hash |-> None, gen |-> 0]

\* What an install made from deploy/kubernetes/base looks like: another
\* selector, and the strategy the API server defaults to.
Deployed(image, hash, sel, recreate) ==
    [image |-> image, hash |-> hash, sel |-> sel, recreate |-> recreate,
     observed |-> TRUE, updated |-> TRUE, ready |-> TRUE]

Init ==
    /\ cr = [spec |-> First, gen |-> 1, status |-> Unreported]
    /\ cached = cr
    /\ secrets \in Keys \cup {Unusable}
    /\ \/ control = None /\ proxy = None /\ rolled = {}
       \/ /\ rolled = {First.image}
          /\ control = Deployed(First.image, None, "base", FALSE)
          /\ proxy = Deployed(First.image, None, "base", FALSE)
    /\ objs = [config |-> None, extras |-> {},
               control |-> IF control = None THEN None ELSE "base",
               proxy   |-> IF proxy = None THEN None ELSE "base"]
    /\ job = "none" /\ pass = Idle /\ up = TRUE /\ late = {} /\ work = 0 /\ touched = FALSE

(***************************************************************************)
(* Rendering (resources.rs)                                                *)
(***************************************************************************)

\* selector_or: a live Deployment's selector is immutable, so it is adopted.
selector_or(live) == IF live = None THEN "own" ELSE live

\* tuning_yaml, then resolve: the digest of the Secrets and the tuning file.
config_hash(spec) == <<secrets, spec.tuning>>

\* control_deployment and proxy_deployment: what they pin.
control_deployment(p) ==
    [image |-> p.obj.spec.image, hash |-> p.hash, sel |-> selector_or(p.csel), recreate |-> TRUE]
proxy_deployment(p) ==
    [image |-> p.image, hash |-> p.hash, sel |-> selector_or(p.psel), recreate |-> FALSE]

\* The optional objects: a disruption budget when the gateway has two replicas
\* at the least, an autoscaler and an ingress when they are asked for.
pod_disruption_budget(spec) ==
    LET floor == IF spec.autoscaling # None THEN spec.autoscaling ELSE spec.replicas
    IN IF floor < 2 THEN {} ELSE {"pdb"}
horizontal_pod_autoscaler(spec) == IF spec.autoscaling = None THEN {} ELSE {"hpa"}
ingress(spec) == IF spec.ingress THEN {"ingress"} ELSE {}
Wanted(spec) ==
    pod_disruption_budget(spec) \cup horizontal_pod_autoscaler(spec) \cup ingress(spec)

\* apply, as the API server answers it (external): refused with a 422 when the
\* selector would change, or when Recreate meets a live rollingUpdate block; a
\* changed template is a new generation the Deployment controller has not seen.
Accepts(live, want) ==
    IF live = None THEN TRUE ELSE live.sel = want.sel /\ (want.recreate => live.recreate)

apply(live, want) ==
    IF live = None
    THEN [image |-> want.image, hash |-> want.hash, sel |-> want.sel,
          recreate |-> want.recreate, observed |-> FALSE, updated |-> FALSE, ready |-> FALSE]
    ELSE [live EXCEPT !.image = want.image, !.hash = want.hash, !.recreate = want.recreate,
             !.observed = @ /\ live.image = want.image /\ live.hash = want.hash]

\* deployment_at: the template names the image, the generation is observed,
\* every replica is updated and one is ready.
deployment_at_unobserved(image, d) ==
    d # None /\ d.image = image /\ d.updated /\ d.ready
deployment_at(image, d) ==
    d # None /\ d.image = image /\ d.observed /\ d.updated /\ d.ready

Ready(d) == d # None /\ d.ready
running_image(d) == IF d = None THEN None ELSE d.image

\* proxy_image: the target once the control plane runs it, what the gateway
\* runs until then.
proxy_image(target, control_at_target, running) ==
    IF control_at_target THEN target ELSE running

(***************************************************************************)
(* One pass of reconcile                                                   *)
(***************************************************************************)

At(step) == up /\ pass.at = step
Goto(step) == pass' = [pass EXCEPT !.at = step]

\* The controller starts a pass on an event or when the requeue time is over,
\* never two for one resource at once, on the cache's copy or on a newer one.  preflight::resolve comes first: nothing
\* is applied unless every Secret is usable.
Begin(obj) ==
    /\ At("idle") /\ cached' = obj
    /\ pass' = [at |-> IF secrets = Unusable THEN "degraded" ELSE "objects",
                obj |-> obj, hash |-> config_hash(obj.spec), csel |-> None, psel |-> None,
                ready |-> FALSE, atTarget |-> FALSE, serving |-> FALSE,
                image |-> None, shown |-> None, clean |-> TRUE,
                bootstrapped |-> obj.status.bootstrapped]
    /\ UNCHANGED <<cr, secrets, cluster, job, up, late, work, rolled, touched>>

\* The ConfigMap, the ServiceAccount, the Role and its binding; then the live
\* selectors are read, before anything is written by them.
ApplyObjects ==
    /\ objs' = [objs EXCEPT !.config = pass.obj.spec.tuning]
    /\ pass' = [pass EXCEPT !.at = "control",
                  !.csel = IF control = None THEN None ELSE control.sel,
                  !.psel = IF proxy = None THEN None ELSE proxy.sel]

\* ensure_recreate_strategy: type and rollingUpdate move in one patch, before
\* the apply that a live rollingUpdate block would have refused.
ensure_recreate_strategy_skipped == UNCHANGED control
ensure_recreate_strategy ==
    control' = IF control = None THEN None ELSE [control EXCEPT !.recreate = TRUE]

Prepare ==
    /\ At("objects") /\ ApplyObjects /\ ensure_recreate_strategy
    /\ UNCHANGED <<cr, cached, secrets, proxy, job, up, late, work, rolled, touched>>

\* apply(control_deployment), and its Service by the same selector.
ApplyControl ==
    /\ At("control")
    /\ LET want == control_deployment(pass)
       IN IF Accepts(control, want)
          THEN /\ control' = apply(control, want) /\ Goto("look")
               /\ objs' = [objs EXCEPT !.control = want.sel]
          ELSE pass' = Idle /\ UNCHANGED <<control, objs>>
    /\ UNCHANGED <<cr, cached, secrets, proxy, job, up, late, work, rolled, touched>>

\* control_live and proxy_live, and what the pass concludes from them.
Look ==
    /\ At("look")
    /\ LET target    == pass.obj.spec.image
           at_target == deployment_at(target, control)
           image     == proxy_image(target, at_target, running_image(proxy))
       IN pass' = [pass EXCEPT !.at = IF image = None THEN "service" ELSE "proxy",
                     !.ready = Ready(control), !.atTarget = at_target,
                     !.serving = Ready(proxy), !.image = image,
                     !.shown = IF image # None THEN image
                               ELSE IF control # None THEN control.image ELSE target]
    /\ UNCHANGED <<cr, cached, secrets, cluster, job, up, late, work, rolled, touched>>

ApplyProxy ==
    /\ At("proxy")
    /\ LET want == proxy_deployment(pass)
       IN IF Accepts(proxy, want)
          THEN proxy' = apply(proxy, want) /\ Goto("service")
          ELSE pass' = Idle /\ UNCHANGED proxy
    /\ UNCHANGED <<cr, cached, secrets, control, objs, job, up, late, work, rolled, touched>>

\* The gateway's Service, if it has a Deployment; then each optional object is
\* applied when the spec asks for it and pruned when it does not, a 404
\* counting as pruned.
ReconcileRest ==
    /\ At("service") /\ Goto("bootstrap")
    /\ objs' = [objs EXCEPT !.extras = Wanted(pass.obj.spec),
                           !.proxy = IF pass.image = None THEN @ ELSE selector_or(pass.psel)]
    /\ UNCHANGED <<cr, cached, secrets, control, proxy, job, up, late, work, rolled, touched>>

\* The set-password Job: looked at only while the status does not say
\* bootstrapped and the control plane is ready, created when there is none.
bootstrap_untracked ==
    /\ At("bootstrap")
    /\ pass' = [pass EXCEPT !.at = "status", !.bootstrapped = @ \/ (pass.ready /\ job = "done")]
    /\ job' = IF pass.ready /\ job = "none" THEN "running" ELSE job
    /\ UNCHANGED <<cr, cached, secrets, cluster, up, late, work, rolled, touched>>
bootstrap ==
    /\ At("bootstrap")
    /\ IF pass.bootstrapped \/ ~pass.ready \/ ~pass.obj.spec.bootstrap
       THEN Goto("status") /\ UNCHANGED job
       ELSE /\ pass' = [pass EXCEPT !.at = "status", !.bootstrapped = (job = "done")]
            /\ job' = IF job = "none" THEN "running" ELSE job
    /\ UNCHANGED <<cr, cached, secrets, cluster, up, late, work, rolled, touched>>

\* upgrading, ready and the phase.
upgrading(p) == ~p.atTarget \/ p.image # p.obj.spec.image
phase_unheld(p) ==
    IF ~p.ready THEN "Pending"
    ELSE IF p.obj.spec.bootstrap /\ ~p.bootstrapped THEN "Bootstrapping"
    ELSE IF p.serving THEN "Ready" ELSE "Degraded"
phase(p) ==
    IF ~p.ready THEN "Pending"
    ELSE IF upgrading(p) THEN "Upgrading"
    ELSE IF p.obj.spec.bootstrap /\ ~p.bootstrapped THEN "Bootstrapping"
    ELSE IF p.serving THEN "Ready" ELSE "Degraded"

\* write_status: skipped when it equals what the pass read.
write_status(status) ==
    /\ cr' = IF status = pass.obj.status THEN cr ELSE [cr EXCEPT !.status = status]
    /\ pass' = Idle
    /\ UNCHANGED <<cached, secrets, cluster, job, up, late, work, rolled>>

\* Preflight failed: everything measured by an earlier pass is kept.
ReportDegraded ==
    /\ At("degraded")
    /\ write_status([pass.obj.status EXCEPT !.phase = "Degraded", !.gen = pass.obj.gen])
    /\ UNCHANGED touched

ReportStatus ==
    /\ At("status")
    /\ write_status([phase |-> phase(pass), control |-> pass.ready,
                     image |-> pass.shown,
                     bootstrapped |-> pass.bootstrapped, hash |-> pass.hash,
                     gen |-> pass.obj.gen])
    /\ touched' = (touched /\ ~(pass.clean /\ cr' # cr))

reconcile ==
    \/ Begin(cached) \/ Begin(cr) \/ ReportDegraded \/ Prepare \/ ApplyControl
    \/ Look \/ ApplyProxy \/ ReconcileRest \/ bootstrap \/ ReportStatus

(***************************************************************************)
(* Faults of the operator                                                  *)
(***************************************************************************)

Work == work < MaxWork /\ work' = work + 1

\* on_error: an API call was refused; the pass is requeued.
on_error ==
    /\ up /\ pass # Idle /\ Work
    /\ pass' = Idle
    /\ UNCHANGED <<cr, cached, secrets, cluster, job, up, late, rolled, touched>>

\* The process dies, or exits because leadership is lost; the Deployment it was
\* about to write may still reach the API server.
Crash ==
    /\ up /\ Work
    /\ up' = FALSE /\ pass' = Idle
    /\ late' = CASE pass.at = "control" -> {<<"control", control_deployment(pass)>>}
                 [] pass.at = "proxy"   -> {<<"proxy", proxy_deployment(pass)>>}
                 [] OTHER               -> late
    /\ UNCHANGED <<cr, cached, secrets, cluster, job, rolled, touched>>

\* The standby takes the lease and lists the resources afresh (main).
Takeover ==
    /\ ~up /\ up' = TRUE /\ cached' = cr
    /\ UNCHANGED <<cr, secrets, cluster, job, pass, late, work, rolled, touched>>

LateWrite ==
    /\ late # {} /\ late' = {}
    /\ \E w \in late :
          \/ /\ w[1] = "control" /\ Accepts(control, w[2])
             /\ control' = apply(control, w[2]) /\ UNCHANGED proxy
          \/ /\ w[1] = "proxy" /\ Accepts(proxy, w[2])
             /\ proxy' = apply(proxy, w[2]) /\ UNCHANGED control
          \/ UNCHANGED <<control, proxy>>
    /\ Touch
    /\ UNCHANGED <<cr, cached, secrets, objs, job, up, work, rolled>>

(***************************************************************************)
(* The rest of the cluster (external)                                      *)
(***************************************************************************)

EditSpec(s) ==
    /\ s # cr.spec /\ Work
    /\ cr' = [cr EXCEPT !.spec = s, !.gen = @ + 1]
    /\ UNCHANGED <<cached, secrets, cluster, job, pass, up, late, rolled, touched>>

RotateSecrets(k) ==
    /\ k # secrets /\ Work /\ secrets' = k
    /\ UNCHANGED <<cr, cached, cluster, job, pass, up, late, rolled, touched>>

\* The Deployment controller: the control plane's Recreate rollout stops the
\* old pod before it starts the new one, the gateway's keeps the old ones until
\* the new ones are ready.
Rolled(d) == [d EXCEPT !.observed = TRUE, !.updated = TRUE, !.ready = TRUE]

RollControl ==
    /\ control # None
    /\ \/ /\ ~control.observed /\ UNCHANGED rolled
          /\ control' = [control EXCEPT !.observed = TRUE, !.updated = FALSE, !.ready = FALSE]
       \/ /\ control.observed /\ ~control.ready
          /\ control' = Rolled(control) /\ rolled' = rolled \cup {control.image}
    /\ UNCHANGED <<cr, cached, secrets, proxy, objs, job, pass, up, late, work, touched>>

RollProxy ==
    /\ proxy # None /\ proxy' = Rolled(proxy) /\ proxy' # proxy
    /\ UNCHANGED <<cr, cached, secrets, control, objs, job, pass, up, late, work, rolled, touched>>

PodsFail ==
    /\ Work
    /\ \/ Ready(control) /\ control' = [control EXCEPT !.ready = FALSE] /\ UNCHANGED proxy
       \/ Ready(proxy) /\ proxy' = [proxy EXCEPT !.ready = FALSE] /\ UNCHANGED control
    /\ UNCHANGED <<cr, cached, secrets, objs, job, pass, up, late, rolled, touched>>

\* Somebody deletes a Deployment.
Meddle ==
    /\ Work /\ Touch
    /\ \/ control # None /\ control' = None /\ UNCHANGED proxy
       \/ proxy # None /\ proxy' = None /\ UNCHANGED control
    /\ UNCHANGED <<cr, cached, secrets, objs, job, up, late, rolled>>

\* The Job ends; ttl_seconds_after_finished removes it ten minutes later: no
\* pass that began before its end is still under way then, and that nobody has
\* recorded a success by then is a fault.
JobEnds ==
    /\ job = "running"
    /\ \/ job' = "done" /\ UNCHANGED work
       \/ job' = "failed" /\ Work
    /\ UNCHANGED <<cr, cached, secrets, cluster, pass, up, late, rolled, touched>>

JobExpires ==
    /\ \/ job = "failed" /\ UNCHANGED <<cached, work>>
       \/ /\ job = "done" /\ pass = Idle /\ cached' = cr
          /\ IF cr.status.bootstrapped THEN UNCHANGED work ELSE Work
    /\ job' = "none"
    /\ UNCHANGED <<cr, secrets, cluster, pass, up, late, rolled, touched>>

Environment ==
    \/ on_error \/ Crash \/ Takeover \/ LateWrite
    \/ RollControl \/ RollProxy \/ PodsFail \/ Meddle \/ JobEnds \/ JobExpires
    \/ \E s \in Specs : EditSpec(s)
    \/ \E k \in Keys \cup {Unusable} : RotateSecrets(k)

Next == reconcile \/ Environment

Spec == Init /\ [][Next]_vars

\* The controller keeps running passes (an event or the requeue timer), the
\* standby takes over, the cache follows the server, Kubernetes rolls.
Fairness ==
    /\ WF_vars(reconcile) /\ WF_vars(Takeover) /\ SF_vars(Begin(cr)) /\ WF_vars(LateWrite)
    /\ WF_vars(RollControl) /\ WF_vars(RollProxy)
    /\ WF_vars(JobEnds) /\ WF_vars(JobExpires /\ job = "failed")

FairSpec == Spec /\ Fairness

(***************************************************************************)
(* Properties                                                              *)
(***************************************************************************)

\* The gateway never runs an image no control plane has been ready on
\* (proxy_image, deployment_at): whatever is edited during a pass, whoever
\* dies in it and whatever lands late, the schema is there before the gateway.
GatewayNeverAhead == proxy # None => proxy.image \in rolled

\* A status that says Ready of the present generation is true of the cluster:
\* both planes are on spec.image, the Service selects the gateway's pods, and
\* the ConfigMap and the optional objects are the spec's.
ReadyIsTrue ==
    cr.status.phase = "Ready" /\ cr.status.gen = cr.gen /\ ~touched =>
        /\ cr.spec.image \in rolled
        /\ control # None /\ control.image = cr.spec.image
        /\ proxy # None /\ proxy.image = cr.spec.image /\ objs.proxy = proxy.sel
        /\ objs.config = cr.spec.tuning /\ objs.extras = Wanted(cr.spec)

\* Once the status says bootstrapped no pass runs set-password again, with the
\* Job long gone: that would put back a password its owner has changed.
PasswordNotReset ==
    [][job = "none" /\ job' = "running" => ~cr.status.bootstrapped]_vars

Converged ==
    /\ control # None /\ proxy # None
    /\ control.image = cr.spec.image /\ proxy.image = cr.spec.image
    /\ control.hash = config_hash(cr.spec) /\ proxy.hash = config_hash(cr.spec)
    /\ Ready(control) /\ Ready(proxy)
    /\ objs = [config |-> cr.spec.tuning, extras |-> Wanted(cr.spec),
               control |-> control.sel, proxy |-> proxy.sel]
    /\ cr.status.phase = "Ready" /\ cr.status.gen = cr.gen
    /\ cr.status.hash = config_hash(cr.spec)

\* Once the Secrets stay usable (and the cluster rolls) the install finishes, from nothing or from an adopted one: an upgrade completes, a
\* rotation reaches both planes, and the status says so.
InstallFinishes ==
    <>[](secrets # Unusable) => <>[]Converged

(***************************************************************************)
(* The inductive invariant behind the theorems of OperatorProofs.          *)
(***************************************************************************)
Statuses ==
    [phase : {"none", "Pending", "Upgrading", "Bootstrapping", "Ready", "Degraded"},
     control : BOOLEAN, image : Images \cup {None}, bootstrapped : BOOLEAN, hash : Hashes,
     gen : Nat]
Resources == [spec : Specs, gen : Nat, status : Statuses]
Steps == {"degraded", "objects", "control", "look", "proxy", "service", "bootstrap", "status"}
Passes ==
    [at : Steps, obj : Resources, hash : Hashes, csel : Selectors \cup {None},
     psel : Selectors \cup {None}, ready : BOOLEAN, atTarget : BOOLEAN, serving : BOOLEAN,
     image : Images \cup {None}, shown : Images \cup {None}, clean : BOOLEAN,
     bootstrapped : BOOLEAN]

TypeOK ==
    /\ cr \in Resources /\ cached \in Resources /\ secrets \in Keys \cup {Unusable}
    /\ control \in Deployments \cup {None} /\ proxy \in Deployments \cup {None}
    /\ objs \in [config : {s.tuning : s \in Specs} \cup {None},
                 extras : {Wanted(s) : s \in Specs} \cup {{}},
                 control : Selectors \cup {None}, proxy : Selectors \cup {None}]
    /\ job \in {"none", "running", "done", "failed"}
    /\ pass \in Passes \cup {Idle} /\ up \in BOOLEAN
    /\ late \subseteq {"control", "proxy"} \X Wants /\ work \in Nat
    /\ rolled \subseteq Images /\ touched \in BOOLEAN

\* A pass works on the cache's copy, which is an older state of the resource or
\* the present one; a status was written by a pass on a copy no newer than it.
OnTheCache ==
    /\ pass # Idle => up /\ pass.obj = cached
    /\ cached.gen <= cr.gen /\ cr.status.gen <= cached.gen
    /\ cached.gen = cr.gen => cached.spec = cr.spec

\* A control plane that is observed and ready has been recorded, and every image
\* on its way to the gateway is one that was.
OnlyRolled ==
    /\ control # None => (control.observed /\ control.ready => control.image \in rolled)
    /\ proxy # None => proxy.image \in rolled
    /\ pass # Idle => /\ pass.image # None => pass.image \in rolled
                      /\ pass.at = "proxy" => pass.image # None
    /\ \A w \in late : w[1] = "proxy" => w[2].image \in rolled

\* Who may know of a finished bootstrap: with the Job gone, or back, everybody.
BootstrapKnown ==
    /\ cached.status.bootstrapped => cr.status.bootstrapped
    /\ job = "none" /\ cr.status.bootstrapped => cached.status.bootstrapped
    /\ job \in {"running", "failed"} => ~cr.status.bootstrapped
    /\ pass # Idle =>
         /\ pass.obj.status.bootstrapped => pass.bootstrapped
         /\ pass.bootstrapped => pass.obj.status.bootstrapped \/ job = "done"

ReadyClaimed == cr.status.phase = "Ready" /\ cr.status.gen = cr.gen /\ ~touched

\* How far a pass nobody interfered with has got, and that it does not undo
\* what the status claims.
PassProgress ==
    pass # Idle =>
        /\ ~pass.clean => touched
        /\ pass.clean =>
             /\ pass.at \notin {"degraded", "objects"} => objs.config = pass.obj.spec.tuning
             /\ pass.at \in {"control", "look", "proxy"} =>
                  pass.psel = IF proxy = None THEN None ELSE proxy.sel
             /\ pass.at \in {"look", "proxy", "service", "bootstrap", "status"} =>
                  control # None /\ control.image = pass.obj.spec.image
             /\ pass.at \in {"service", "bootstrap", "status"} /\ pass.image # None =>
                  proxy # None /\ proxy.image = pass.image /\ proxy.sel = selector_or(pass.psel)
             /\ pass.at \in {"bootstrap", "status"} =>
                  /\ objs.extras = Wanted(pass.obj.spec)
                  /\ pass.image # None => objs.proxy = selector_or(pass.psel)
        /\ ReadyClaimed /\ pass.at = "proxy" => pass.image = cr.spec.image

IInv ==
    TypeOK /\ OnTheCache /\ OnlyRolled /\ BootstrapKnown /\ PassProgress /\ ReadyIsTrue
=============================================================================
