---------------------------- MODULE DiskAttachV2 ----------------------------
(* Driver v2 (controllerserver_v2.go) on top of the same disk controller.    *)
(* DeleteVolume, ControllerUnpublishVolume and the rest of                   *)
(* ControllerPublishVolume are those of DiskAttach; a publish does not look  *)
(* for occupied LUNs, and goes on to attach when the VM could not be read.   *)
(* newDriverV2 does not set ForceDetachBackoff, so v2 never takes vmForce.   *)
EXTENDS DiskAttach

\* Mutant: the LUN that was not read is answered.
AnswersUnreadLun(r) ==
    /\ pc[r] = "getLun"
    /\ lun' = [lun EXCEPT ![r] = 0]
    /\ Goto(r, "ok")
    /\ UNCHANGED <<azureVars, reqVars, seen, occupied, batch, plan, queueVars, lock,
                   diskStateMap, volumeLocks, va>>
\* GetDiskLun failed, and the error is neither InstanceNotFound nor throttling
\* (those end in PublishGetDiskLun's error): the disk may be attached already.
PublishUnreadVM(r) ==
    /\ pc[r] = "getLun"
    /\ Goto(r, "attach")
    /\ UNCHANGED <<azureVars, reqVars, callVars, queueVars, lock, diskStateMap,
                   volumeLocks, va>>

\* The steps of either driver: what holds here holds for both.
NextEither == Next \/ \E r \in Reqs : PublishUnreadVM(r)
SpecEither == Init /\ [][NextEither]_vars
=============================================================================
