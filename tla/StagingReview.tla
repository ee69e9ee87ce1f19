--------------------------- MODULE StagingReview ---------------------------
(***************************************************************************)
(* The PLAN_ONLY runner and the review command of the cloud staging: a run *)
(* reads the manifest, plans with Terraform, has the plan analyzed, hashes *)
(* the evidence, verifies the package it composed and writes the outputs   *)
(* a founder decides on.  It takes minutes, and every file it reads or     *)
(* writes is outside the repository, where people and other runs work.     *)
(*                                                                         *)
(* A file is the version of its bytes, and its digest is that version:     *)
(* digests have no collisions and an edit never restores earlier bytes.    *)
(* The commit the manifest names is version 0 of the checkout.  A run that *)
(* throws, is refused or dies ends, and what it has written stays.         *)
(***************************************************************************)
EXTENDS Naturals

CONSTANTS
    Runners,       \* runs of either command
    EvidenceFiles, \* the files the manifest names, one of each kind
    Blocking,      \* versions of the manifest whose claims block the review
    MaxEdits,      \* bound on the edits of the inputs
    NoFile         \* no such file, no run

(* What terraform plan wrote: by which run, of which IaC and tfvars.       *)
Plan == [by : Runners, iac : Nat \cup {NoFile}, vars : Nat, harmless : BOOLEAN]

ASSUME StagingAssumption ==
    /\ NoFile \notin Plan
    /\ Blocking \subseteq Nat
    /\ MaxEdits \in Nat
    /\ EvidenceFiles \cap {"manifest", "tfvars", "checkout"} = {}

VARIABLES
    inputs,   \* the bytes of the files the runs read
    edits,    \* how often one of them was edited
    outputs,  \* the files in the secure output directory
    runs      \* what each run remembers

stagingVars == <<inputs, edits, outputs, runs>>

InputFiles == {"manifest", "tfvars", "checkout"} \cup EvidenceFiles
Reports    == <<"package", "decision", "digest", "boundary">>
Outputs    == {"plan"} \cup {Reports[i] : i \in DOMAIN Reports}

StagingInit ==
    /\ inputs = [f \in InputFiles |-> 0]
    /\ edits = 0
    /\ outputs = [o \in Outputs |-> NoFile]
    /\ runs = [r \in Runners |-> NoFile]

-----------------------------------------------------------------------------
InPhase(r, phase) == runs[r] # NoFile /\ runs[r].phase = phase

(* The run goes on to another phase with more in its memory.               *)
Proceed(r, phase, field, value) ==
    runs' = [runs EXCEPT ![r] = [[@ EXCEPT ![field] = value] EXCEPT !.phase = phase]]

Blank == [phase |-> "reading", review |-> FALSE, manifest |-> NoFile,
          manifestDigest |-> NoFile, vars |-> NoFile, iac |-> NoFile,
          before |-> NoFile, shown |-> NoFile, todo |-> EvidenceFiles,
          files |-> [e \in EvidenceFiles |-> NoFile], atPackage |-> NoFile]

(* The names of all outputs are free when the run begins.                  *)
ensureOutputNamesAvailable == \A o \in Outputs : outputs[o] = NoFile

BeginPlanOnly(r) ==
    /\ runs[r] = NoFile
    /\ ensureOutputNamesAvailable
    /\ runs' = [runs EXCEPT ![r] = Blank]
    /\ UNCHANGED <<inputs, edits, outputs>>

(* Manifests that do not parse end the run.                                *)
readManifest(r) ==
    /\ InPhase(r, "reading")
    /\ Proceed(r, "checkout", "manifest", inputs["manifest"])
    /\ UNCHANGED <<inputs, edits, outputs>>

ensureCleanExactGitHead(r) ==
    /\ InPhase(r, "checkout")
    /\ inputs["checkout"] = 0
    /\ runs' = [runs EXCEPT ![r].phase = "digesting"]
    /\ UNCHANGED <<inputs, edits, outputs>>

digestManifest(r) ==
    /\ InPhase(r, "digesting")
    /\ Proceed(r, "vars", "manifestDigest", inputs["manifest"])
    /\ UNCHANGED <<inputs, edits, outputs>>

digestVars(r) ==
    /\ InPhase(r, "vars")
    /\ Proceed(r, "copying", "vars", inputs["tfvars"])
    /\ UNCHANGED <<inputs, edits, outputs>>

(* After credentials, account and region were found in order.              *)
copyTrackedStagingIac(r) ==
    /\ InPhase(r, "copying")
    /\ Proceed(r, "planning", "iac", inputs["checkout"])
    /\ UNCHANGED <<inputs, edits, outputs>>

(* terraform init and plan.  -out overwrites, and whether the plan is free *)
(* of deletions, unknown actions, errors and sensitive outputs is up to    *)
(* Terraform and the account.                                              *)
terraformPlan(r) ==
    /\ InPhase(r, "planning")
    /\ \E harmless \in BOOLEAN :
         outputs' = [outputs EXCEPT !["plan"] =
                       [by |-> r, iac |-> runs[r].iac, vars |-> inputs["tfvars"],
                        harmless |-> harmless]]
    /\ runs' = [runs EXCEPT ![r].phase = "planned"]
    /\ UNCHANGED <<inputs, edits>>

(* A mutant: the tfvars are not hashed again after the plan.               *)
VarsUnchanged_Unchecked(r) == TRUE

VarsUnchanged(r) == inputs["tfvars"] = runs[r].vars

checkVars(r) ==
    /\ InPhase(r, "planned")
    /\ VarsUnchanged(r)
    /\ runs' = [runs EXCEPT ![r].phase = "manifest"]
    /\ UNCHANGED <<inputs, edits, outputs>>

checkManifest(r) ==
    /\ InPhase(r, "manifest")
    /\ inputs["manifest"] = runs[r].manifestDigest
    /\ runs' = [runs EXCEPT ![r].phase = "plan"]
    /\ UNCHANGED <<inputs, edits, outputs>>

-----------------------------------------------------------------------------
(* verifyTerraformPlanFile: hash the plan, have Terraform show it, hash it *)
(* again.                                                                  *)
digestPlan(r) ==
    /\ InPhase(r, "plan")
    /\ outputs["plan"] # NoFile
    /\ Proceed(r, "showing", "before", outputs["plan"])
    /\ UNCHANGED <<inputs, edits, outputs>>

terraformShow(r) ==
    /\ InPhase(r, "showing")
    /\ Proceed(r, "shown", "shown", outputs["plan"])
    /\ UNCHANGED <<inputs, edits, outputs>>

planUnchanged(r) ==
    /\ InPhase(r, "shown")
    /\ outputs["plan"] = runs[r].before
    /\ runs' = [runs EXCEPT ![r].phase =
                  IF runs[r].review THEN "verifying" ELSE "hashing"]
    /\ UNCHANGED <<inputs, edits, outputs>>

hashEvidence(r, e) ==
    /\ InPhase(r, "hashing")
    /\ e \in runs[r].todo
    /\ runs' = [runs EXCEPT ![r].files[e] = inputs[e], ![r].todo = @ \ {e}]
    /\ UNCHANGED <<inputs, edits, outputs>>

(* The package is composed of what was hashed.                             *)
composePackage(r) ==
    /\ InPhase(r, "hashing")
    /\ runs[r].todo = {}
    /\ runs' = [runs EXCEPT ![r].phase = "verifying", ![r].todo = EvidenceFiles,
                            ![r].atPackage = [e \in EvidenceFiles |-> inputs[e]]]
    /\ UNCHANGED <<inputs, edits, outputs>>

(* verifyEvidenceFiles, a file after the other.                            *)
verifyEvidence(r, e) ==
    /\ InPhase(r, "verifying")
    /\ e \in runs[r].todo
    /\ inputs[e] = runs[r].files[e]
    /\ runs' = [runs EXCEPT ![r].todo = @ \ {e}]
    /\ UNCHANGED <<inputs, edits, outputs>>

(* evaluateStagingCloudReview, of a verified package.                      *)
Ready(r) == runs[r].shown.harmless /\ runs[r].manifest \notin Blocking

Report(r, o) ==
    CASE o = "package"  -> [by |-> r, manifest |-> runs[r].manifest,
                            files |-> runs[r].files, atPackage |-> runs[r].atPackage]
      [] o = "decision" -> [by |-> r, ready |-> Ready(r), plan |-> runs[r].before]
      [] o = "digest"   -> [by |-> r, plan |-> runs[r].before]
      [] o = "boundary" -> [by |-> r, manifest |-> runs[r].manifestDigest,
                            vars |-> runs[r].vars, plan |-> runs[r].before]

Written(i) == outputs[Reports[i]] # NoFile

(* Which reports this run has written already.                             *)
Wrote(r, i) == Written(i) /\ outputs[Reports[i]].by = r

(* writeFile with flag wx, report after report: an existing file ends the  *)
(* run.                                                                    *)
writeReport(r, i) ==
    /\ InPhase(r, "verifying")
    /\ ~runs[r].review
    /\ runs[r].todo = {}
    /\ \A j \in 1 .. i - 1 : Wrote(r, j)
    /\ ~Written(i)
    /\ outputs' = [outputs EXCEPT ![Reports[i]] = Report(r, Reports[i])]
    /\ UNCHANGED <<inputs, edits, runs>>

-----------------------------------------------------------------------------
(* run-staging-cloud-review: the package as it was written, verified again *)
(* against the plan and the evidence of now.                               *)
BeginReview(r) ==
    /\ runs[r] = NoFile
    /\ Written(1)
    /\ runs' = [runs EXCEPT ![r] =
                  [Blank EXCEPT !.phase = "plan", !.review = TRUE,
                                !.manifest = outputs["package"].manifest,
                                !.files = outputs["package"].files]]
    /\ UNCHANGED <<inputs, edits, outputs>>

(* Done, refused, thrown or died; a review's decision goes to the screen.  *)
End(r) ==
    /\ runs[r] # NoFile
    /\ runs' = [runs EXCEPT ![r] = NoFile]
    /\ UNCHANGED <<inputs, edits, outputs>>

(* Somebody edits an input, or commits to the checkout.                    *)
Edit(f) ==
    /\ edits < MaxEdits
    /\ edits' = edits + 1
    /\ inputs' = [inputs EXCEPT ![f] = @ + 1]
    /\ UNCHANGED <<outputs, runs>>

RunnerNext(r) ==
    \/ BeginPlanOnly(r) \/ readManifest(r) \/ ensureCleanExactGitHead(r)
    \/ digestManifest(r) \/ digestVars(r) \/ copyTrackedStagingIac(r)
    \/ terraformPlan(r) \/ checkVars(r) \/ checkManifest(r)
    \/ digestPlan(r) \/ terraformShow(r) \/ planUnchanged(r)
    \/ \E e \in EvidenceFiles : hashEvidence(r, e) \/ verifyEvidence(r, e)
    \/ composePackage(r)
    \/ \E i \in DOMAIN Reports : writeReport(r, i)
    \/ BeginReview(r) \/ End(r)

StagingNext ==
    \/ \E r \in Runners : RunnerNext(r)
    \/ \E f \in InputFiles : Edit(f)

StagingSpec == StagingInit /\ [][StagingNext]_stagingVars

-----------------------------------------------------------------------------
(* A run, of either command, that has verified everything.                 *)
Verified(r) == InPhase(r, "verifying") /\ runs[r].todo = {}

(* A favourable decision names the digest of a plan that is harmless, and  *)
(* not of one that took the place of the one Terraform showed.             *)
PlanIsAnalyzed ==
    /\ outputs["decision"] # NoFile /\ outputs["decision"].ready =>
          outputs["decision"].plan.harmless
    /\ \A r \in Runners : Verified(r) /\ Ready(r) => runs[r].before.harmless

(* The package is a snapshot: when it was composed every evidence file was *)
(* as recorded, although they were hashed one after the other.             *)
PackageIsSnapshot ==
    outputs["package"] # NoFile =>
        outputs["package"].files = outputs["package"].atPackage

(* The receipt names the tfvars its own plan was made of.                  *)
InputsAreBound ==
    outputs["boundary"] # NoFile
        /\ outputs["boundary"].plan.by = outputs["boundary"].by =>
            outputs["boundary"].plan.vars = outputs["boundary"].vars

(* The reports in the directory are of one run, whatever other runs began  *)
(* while the names were still free.                                        *)
ReportsAreOneRun ==
    \A i \in DOMAIN Reports : Written(i) =>
        \A j \in 1 .. i : Written(j) /\ outputs[Reports[j]].by = outputs[Reports[i]].by

(* What the founder decides on was verified as a whole: plan, evidence and *)
(* inputs are those the reports name (run-staging-plan-only and            *)
(* staging-cloud-governance).                                              *)
ReviewIsGrounded ==
    PlanIsAnalyzed /\ PackageIsSnapshot /\ InputsAreBound /\ ReportsAreOneRun
=============================================================================
