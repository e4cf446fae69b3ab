------------------------------ MODULE Drivers ------------------------------
(***************************************************************************)
(* What the cloud drivers (lib/clouds/<x>_cloud_ops.py) do to a cloud.     *)
(*                                                                         *)
(* A driver's operations are straight programs with a few conditions: each *)
(* is a SEQUENCE of the calls that can fail or that change what exists, in *)
(* the order of the code, with the steps of DriverSteps.tla.               *)
(* CloudDriver.tla runs them.                                              *)
(* A VM asks for all that its driver can give: a data volume, a floating   *)
(* address, forwarded ports (not on Libvirt, whose get_ip_address raises a *)
(* NameError for a VM with forwarded ports).                               *)
(***************************************************************************)
EXTENDS DriverSteps

(* ------------------------------ OpenStack ------------------------------ *)

osk_connect    == Call("connect")
osk_vm_placement  == Call("placement")
osk_get_flavors   == Call("flavors")
osk_get_images    == Call("images")
osk_get_networks  == Call("networks")
osk_get_instances == Find("name", Either)
osk_is_vm_running == Running("name", Either)
osk_vvcreate  == << Make("volume"), Call("volume available") >>
osk_vvdestroy == IfKnown(<< Drop("volume", "uuid", Either) >>)
osk_floating_ip_allocate == Instr("make", "address", "name", Either)
osk_floating_ip_attach   == Instr("call", "attach address", "name", Either)
osk_floating_ip_delete   == Drop("address", "uuid", Either)
osk_retriable_instance_delete == Drop("instance", "name", Stop)
osk_get_ip_address == Poll("addresses")
osk_is_vm_ready    == << Poll("running"), osk_get_ip_address >>
osk_get_host_and_instance_name == Call("host name")
osk_vmcreate ==
    << osk_connect, osk_is_vm_running, osk_vm_placement, osk_get_flavors, osk_get_images,
       osk_get_networks, osk_floating_ip_allocate >> \o osk_vvcreate \o
    << Make("instance"), osk_floating_ip_attach >> \o
    wait_for_instance_ready(osk_is_vm_ready) \o
    << Call("attach volume"), wait_for_instance_boot, osk_get_host_and_instance_name >>
osk_instance_cleanup_on_failure ==
    << osk_get_instances >> \o
    IfFound(<< Drop("instance", "name", Stop) >> \o osk_vvdestroy)
osk_vmdestroy(failed) ==
    IF failed THEN osk_instance_cleanup_on_failure
    ELSE << osk_connect, osk_get_instances >> \o
         IfFound(<< osk_floating_ip_delete, osk_retriable_instance_delete,
                    Await(Either) >>) \o
         osk_vvdestroy
osk_vmccleanup ==
    << osk_connect, Find("name", Stop) >> \o
    IfFound(<< Drop("address", "name", Stop) >> \o
            IfOn(<< Drop("instance", "name", Either) >>) \o << Await(Either) >>) \o
    << Drop("volume", "name", Stop) >>
osk_vmcapture ==
    << osk_connect, osk_get_instances, NeedFound, Call("create image"),
       Instr("make", "image", "name", Either) >>
osk_vmrunstate(target, current) ==
    << osk_connect, osk_get_instances >> \o IfFound(Turning(target, current, Stop))
osk_imgdelete == << osk_connect, Drop("image", "name", Stop) >>

(* ------------------------------ Amazon EC2 ----------------------------- *)

ec2_connect       == Call("connect")
ec2_get_images    == Call("images")
ec2_get_instances == Find("uuid", Stop)
ec2_is_vm_running == Running("uuid", Stop)
ec2_get_ip_address == Poll("addresses")
ec2_is_vm_ready    == << Poll("running"), ec2_get_ip_address >>
ec2_vvcreate  == << MakeBare("volume"), Tag("volume"), Learn("volume") >>
ec2_vvdestroy == IfKnown(<< Drop("volume", "uuid", Either) >>)
ec2_vmcreate ==
    << ec2_connect, ec2_is_vm_running, ec2_get_images,
       MakeBare("instance"), Tag("instance"), Learn("instance") >> \o
    ec2_vvcreate \o
    wait_for_instance_ready(ec2_is_vm_ready) \o
    << Call("attach volume"), wait_for_instance_boot >>
ec2_vmdestroy ==
    << ec2_connect, ec2_get_instances >> \o
    IfFound(<< Drop("instance", "uuid", Stop), Await(Either) >>) \o
    ec2_vvdestroy
ec2_vmccleanup ==
    << ec2_connect, Find("name", Stop) >> \o
    IfFound(IfOn(<< Drop("instance", "name", Either) >>)) \o
    << Drop("volume", "name", Either) >>
ec2_vmcapture ==
    << ec2_connect, ec2_get_instances, NeedFound, Call("create image"), Make("image") >>
ec2_vmrunstate(target, current) ==
    << ec2_connect, ec2_get_instances >> \o IfFound(Turning(target, current, Stop))
ec2_imgdelete ==
    << ec2_connect, FindThe("image", Stop) >> \o IfFound(<< Drop("image", "name", Stop) >>)

(* ------------------------- Google Compute Engine ----------------------- *)

gce_connect       == Call("connect")
gce_get_images    == Call("images")
gce_wait_until_operation(what) == Call(what)
gce_get_instances == Find("name", Either)
gce_is_vm_running == Running("name", Either)
gce_get_ip_address == Poll("addresses")
gce_is_vm_ready    == << Poll("running"), gce_get_ip_address >>
gce_vvcreate  == << MakeNamed("volume"), gce_wait_until_operation("volume made"), Learn("volume") >>
gce_vvdestroy == << Drop("volume", "name", Either) >>
gce_vmcreate ==
    << gce_connect, gce_is_vm_running, gce_get_images >> \o gce_vvcreate \o
    << MakeNamed("instance"), gce_wait_until_operation("instance made"), Learn("instance") >> \o
    ReadyAndBoot(gce_is_vm_ready)
(* Mutant: the volume goes with the instance only.                         *)
gce_vmdestroyTogether ==
    << gce_connect, gce_get_instances >> \o
    IfFound(<< Drop("instance", "name", Stop), gce_wait_until_operation("instance deleted"), Await(Either),
               Call("boot disk") >> \o gce_vvdestroy)
gce_vmdestroy ==
    << gce_connect, gce_get_instances >> \o
    IfFound(<< Drop("instance", "name", Stop), gce_wait_until_operation("instance deleted"), Await(Either) >>) \o
    << Call("boot disk") >> \o gce_vvdestroy
(* Mutant: the volumes are left alone.                                     *)
gce_vmccleanupNoVolumes ==
    << gce_connect, Find("name", Either) >> \o
    IfFound(IfOn(<< Drop("instance", "name", Either) >>))
gce_vmccleanup ==
    << gce_connect, Find("name", Either) >> \o
    IfFound(IfOn(<< Drop("instance", "name", Either) >>)) \o
    << Drop("volume", "name", Either) >>
(* The instance is deleted to free its disk; without a call to wait for,   *)
(* vmrunstate reads a variable it never set.                               *)
gce_vmcapture ==
    << gce_connect, gce_get_instances, NeedFound, Drop("instance", "name", Stop),
       gce_wait_until_operation("instance deleted"), Call("insert image"), Make("image") >>
gce_vmrunstate(target, current) ==
    << gce_connect, gce_get_instances >> \o
    IfFound(IF Turning(target, current, Stop) = << >> THEN << Impossible >>
            ELSE Turning(target, current, Stop) \o << gce_wait_until_operation("operation") >>)
gce_imgdelete ==
    << gce_connect, FindThe("image", Stop) >> \o IfFound(<< Drop("image", "name", Stop) >>)

(* ------------------------------- Docker -------------------------------- *)

pdm_connect       == Call("connect")
pdm_vm_placement  == Call("placement")
pdm_get_images    == Call("images")              \* pulled when it is not there
pdm_get_instances == Find("name", Either)
pdm_is_vm_running == Running("name", Either)
pdm_get_ip_address == Poll("addresses")
pdm_is_vm_ready    == << Poll("running"), pdm_get_ip_address >>
pdm_vvcreate  == << pdm_connect, Make("volume") >>
pdm_vvdestroy == IfKnown(<< pdm_connect, Drop("volume", "name", Either) >>)
pdm_vmcreate ==
    << pdm_connect, pdm_is_vm_running, pdm_vm_placement, pdm_get_images >> \o pdm_vvcreate \o
    << Make("instance"), Call("start") >> \o
    ReadyAndBoot(pdm_is_vm_ready)
pdm_vmdestroy ==
    << pdm_connect, pdm_get_instances >> \o
    IfFound(<< Drop("instance", "name", Stop), Await(Either) >>) \o
    pdm_vvdestroy
pdm_vmccleanup ==
    << Find("name", Stop) >> \o
    IfFound(<< Drop("instance", "name", Stop), Await(Either) >>) \o
    << Drop("volume", "name", Stop) >>
pdm_vmcapture ==
    << pdm_connect, pdm_get_instances, NeedFound, Make("image") >>
pdm_vmrunstate(target, current) ==
    << pdm_connect, pdm_get_instances >> \o IfFound(Turning(target, current, Stop))
pdm_imgdelete ==       \* images.remove() without the image
    << pdm_connect, FindThe("image", Stop) >> \o IfFound(<< Impossible >>)

(* --------------------------------- LXD --------------------------------- *)

pcm_connect       == Call("connect")
pcm_vm_placement  == Call("placement")
pcm_get_images    == Call("images")
pcm_get_instances == Find("name", Either)
pcm_is_vm_running == Running("name", Either)
pcm_get_ip_address == Ask("addresses")           \* of what is_vm_running saw
pcm_is_vm_ready    == << Poll("running"), pcm_get_ip_address >>
pcm_configure_port_mapping_setup    == Make("ports")
pcm_configure_port_mapping_teardown == Drop("ports", "name", Stop)
pcm_vmcreate ==
    << pcm_connect, pcm_is_vm_running, pcm_vm_placement, pcm_get_images,
       Make("instance"), Call("start") >> \o
    wait_for_instance_ready(pcm_is_vm_ready) \o
    << pcm_configure_port_mapping_setup, wait_for_instance_boot >>
(* Mutant: an instance that is gone is an error.                           *)
pcm_vmdestroyStrict ==
    << pcm_connect, pcm_get_instances, NeedFound,
       Drop("instance", "name", Either), Await(Either),
       pcm_configure_port_mapping_teardown >>
pcm_vmdestroy ==
    << pcm_connect, pcm_get_instances >> \o
    IfFound(<< Drop("instance", "name", Either), Await(Either),
               pcm_configure_port_mapping_teardown >>)
pcm_vmccleanup ==
    << Drop("ports", "name", Skip), Find("name", Stop) >> \o
    IfFound(<< Drop("instance", "name", Stop), Await(Either) >>)
pcm_vmcapture ==
    << pcm_connect, pcm_get_instances, NeedFound, Turn("off", Stop), Make("image") >>
pcm_vmrunstate(target, current) ==
    << pcm_connect, pcm_get_instances >> \o IfFound(Turning(target, current, Stop))
pcm_imgdelete == << pcm_connect, Drop("image", "name", Stop) >>

(* ------------------- Libvirt (Parallel Libvirt Manager) ----------------- *)

plm_connect       == Call("connect")
plm_get_images    == Call("images")
plm_get_networks  == Call("networks")
plm_get_instances == Find("name", Either)
plm_is_vm_running == Running("name", Either)
plm_get_ip_address == Poll("addresses")
plm_is_vm_ready    == << Poll("running"), plm_get_ip_address >>
plm_ship_cloud_init_iso == Call("cloud-init image")
plm_vvcreate(volume) == << Learn(volume), Make(volume) >>      \* volume_list, then createXML
plm_vvdestroy ==
    IfKnown(<< DropOrRaise("boot volume"), DropOrRaise("volume") >>)
plm_vmcreate ==
    << plm_connect, plm_is_vm_running, plm_get_images, plm_get_networks >> \o
    plm_vvcreate("boot volume") \o plm_vvcreate("volume") \o
    << plm_ship_cloud_init_iso, Make("instance"), Call("start") >> \o
    ReadyAndBoot(plm_is_vm_ready)
plm_vmdestroy ==
    << plm_connect, plm_get_instances >> \o
    IfFound(<< Drop("instance", "name", Either), Await(Either) >>) \o
    plm_vvdestroy
plm_vmccleanup ==
    << Find("name", Stop) >> \o
    IfFound(<< Drop("instance", "name", Stop), Await(Either) >>) \o
    << Drop("boot volume", "name", Either), Drop("volume", "name", Either) >>
plm_vmcapture ==
    << plm_connect, plm_get_instances, NeedFound, Turn("off", Stop), Make("image") >>
plm_vmrunstate(target, current) ==      \* a libvirt domain has none of these methods
    << plm_connect, plm_get_instances >> \o
    IfFound(IF Turning(target, current, Stop) = << >> THEN << >> ELSE << Impossible >>)
plm_imgdelete == << plm_connect, Drop("image", "name", Stop) >>

(* ------------------------------- SoftLayer ------------------------------ *)

slr_connect       == Call("connect")
slr_get_images    == Call("images")
slr_get_instances == Find("name", Stop)
slr_is_vm_running == Running("name", Stop)
slr_get_ip_address == Ask("addresses")
slr_is_vm_ready    == << Poll("running"), Poll("instance"), slr_get_ip_address >>
slr_wait_until_transaction == slr_get_instances
slr_vmcreate ==
    << slr_connect, slr_is_vm_running, slr_get_images, Call("keys"), MakeNamed("instance"),
       Learn("instance") >> \o ReadyAndBoot(slr_is_vm_ready)
slr_vmdestroy ==
    << slr_connect, slr_wait_until_transaction >> \o
    IfFound(<< NeedId, Drop("instance", "uuid", Stop), Await(Either) >>)
slr_vmccleanup ==
    << slr_connect, Find("name", Stop) >> \o
    IfFound(<< Drop("instance", "name", Either), Await(Skip) >>)
slr_vmcapture ==
    << slr_connect, slr_get_instances, NeedFound, Call("capture"), Make("image") >>
slr_vmrunstate(target, current) ==      \* nor has the client of SoftLayer
    << slr_connect, slr_get_instances >> \o
    IfFound(IF Turning(target, current, Stop) = << >> THEN << >> ELSE << Impossible >>)
slr_imgdelete ==
    << slr_connect, FindThe("image", Stop) >> \o IfFound(<< Drop("image", "name", Stop) >>)

(* ------------------------------ CloudStack ------------------------------ *)

csk_connect         == Call("connect")
csk_get_zone        == Call("zone")
csk_get_sizes       == Call("sizes")
csk_get_images      == Call("images")
csk_get_vm_instance == Find("name", Stop)
csk_is_vm_running   == Running("name", Stop)
csk_get_ip_address  == Ask("addresses")
csk_is_vm_ready     == << Poll("running"), csk_get_ip_address >>
csk_free_volumes    == Drop("volume of another", "name", Either)   \* all that are Allocated
csk_vmcreate ==
    << csk_connect, csk_get_zone, csk_is_vm_running, csk_get_sizes, csk_get_images,
       MakeNamed("instance"), Learn("instance") >> \o ReadyAndBoot(csk_is_vm_ready)
csk_vmdestroy ==
    << csk_connect, csk_get_vm_instance >> \o
    IfFound(<< Drop("instance", "name", Stop), Await(Stop) >>) \o
    << csk_free_volumes >>
csk_vmccleanup ==
    << csk_connect, Find("name", Stop) >> \o
    IfFound(<< Drop("instance", "name", Either), Await(Either) >>) \o
    << csk_free_volumes >>
csk_is_vm_stopped == Call("stopped")
csk_vmcapture ==
    << csk_connect, csk_get_vm_instance, NeedFound, Turn("off", Stop), csk_is_vm_stopped,
       Call("create template"), Make("image") >>
csk_vmrunstate(target, current) ==
    << csk_connect, csk_get_vm_instance >> \o IfFound(Turning(target, current, Stop))

(* -------------------------------- Nutanix ------------------------------- *)

ntnx_connect       == Call("connect")
ntnx_get_images    == Call("images")
ntnx_get_networks  == Call("networks")
ntnx_get_instances == Find("uuid", Either)
ntnx_is_vm_running == Running("uuid", Either)
ntnx_get_ip_address == Poll("addresses")
ntnx_is_vm_ready    == << Poll("running"), ntnx_get_ip_address >>
ntnx_get_mac_address            == Ask("mac address")   \* finally returns: nothing leaves it
ntnx_get_host_and_instance_name == Ask("host name")     \* the same
ntnx_retriable_instance_delete == Drop("instance", "uuid", Either)
ntnx_vmcreate ==
    << ntnx_connect, ntnx_is_vm_running, ntnx_get_images, ntnx_get_networks,
       MakeNamed("instance"), Call("lookup"), Learn("instance"), ntnx_get_mac_address >> \o
    ReadyAndBoot(ntnx_is_vm_ready) \o << ntnx_get_host_and_instance_name >>
ntnx_instance_cleanup_on_failure ==
    << ntnx_get_instances >> \o IfFound(<< Drop("instance", "uuid", Either) >>)
ntnx_vmdestroy(failed) ==
    IF failed THEN ntnx_instance_cleanup_on_failure
    ELSE << ntnx_connect, ntnx_get_instances, NeedFound,
            ntnx_retriable_instance_delete, Await(Either) >>
ntnx_vmccleanup ==
    << ntnx_connect, Find("name", Stop) >> \o
    IfFound(IfOn(<< Drop("instance", "name", Either) >>) \o << Await(Either) >>)
ntnx_imgdelete == << ntnx_connect, Drop("image", "name", Stop) >>

(* ------------------------------ Kubernetes ------------------------------ *)

(* The VM is a pod, made by a deployment ("controller") and reached        *)
(* through a service.                                                      *)
kub_connect       == Call("connect")
kub_get_instances(kind) == Drop(kind, "name", Either)   \* looked up (errors tolerated), deleted
kub_is_vm_running == Running("name", Either)
kub_get_ip_address == Poll("addresses")
kub_is_vm_ready    == << Poll("running"), kub_get_ip_address >>
kub_get_extended_info == Ask("events")                  \* in the finally clause
kub_vmcreate ==
    << kub_connect, kub_is_vm_running, MakeNamed("controller"),
       MakeNamed("instance"), MakeNamed("service") >> \o ReadyAndBoot(kub_is_vm_ready) \o
    << kub_get_extended_info >>
kub_vmdestroy ==
    << kub_connect, Find("name", Either) >> \o
    IfFound(<< kub_get_instances("service"), kub_get_instances("controller"),
               Drop("instance", "name", Stop), Await(Either) >>)
kub_vmccleanup ==       \* the tries of one loop are those of the next
    << kub_connect, Drop("service", "name", Either), Drop("controller", "name", Either),
       Drop("instance", "name", Either), Await(Either) >>
kub_vmrunstate == << kub_connect, Find("name", Either) >>

(* ------------- libcloud: DigitalOcean, Linode, OpenStack, Azure --------- *)

lc_connect       == Call("connect")
lc_rotate_token  == Call("token")                \* of the VM's AI, if it has one
(* What vmcreate was given is an attribute of the VM from then on, and the *)
(* other operations read it before their first call: without it they raise.*)
lc_credentials   == Insist("credentials_list")
lc_get_images    == Call("images")
lc_get_instances == Find("name", Stop)
lc_is_vm_running == Running("name", Stop)
lc_get_ip_address == Poll("addresses")
lc_is_vm_ready    == << Poll("running"), lc_get_ip_address >>
lc_power_on_node == Turn("on", {})
lc_vvcreate  == << Make("volume") >>
lc_vvdestroy == IfKnown(<< Drop("volume", "name", Either) >>)
lc_vmcreate(pre_vmcreate_process, vvcreate) ==
    << lc_rotate_token, Learn("credentials_list"), lc_connect, lc_is_vm_running,
       lc_get_images, Call("keys") >> \o
    pre_vmcreate_process \o vvcreate \o
    << MakeNamed("instance"), Learn("instance") >> \o
    wait_for_instance_ready(lc_is_vm_ready) \o
    << Call("attach volume"), wait_for_instance_boot >>
(* Mutant: a deletion that failed is waited for.                           *)
lc_vmdestroyWaits(with_instance, post_vmdelete_process) ==
    << lc_credentials, lc_connect, lc_get_instances >> \o
    IfFound(<< lc_power_on_node, Drop("instance", "name", Skip) >> \o with_instance \o
            << Await({}) >>) \o
    lc_vvdestroy \o post_vmdelete_process
lc_vmdestroy(with_instance, post_vmdelete_process) ==
    << lc_credentials, lc_connect, lc_get_instances >> \o
    IfFound(<< lc_power_on_node, Drop("instance", "name", Stop) >> \o with_instance \o
            << Await(Stop) >>) \o
    lc_vvdestroy \o post_vmdelete_process
lc_vmccleanup(with_instance, extra_vmccleanup) ==
    << lc_connect, Find("name", Stop) >> \o
    IfFound(<< lc_power_on_node, Drop("instance", "name", {}) >> \o with_instance \o
            << Await({}) >>) \o
    << Drop("volume", "name", Stop) >> \o extra_vmccleanup
lc_vmcapture ==
    << lc_credentials, lc_connect, lc_get_instances, NeedFound, Call("create image"),
       Make("image") >>
lc_vmrunstate_do(target, current) == Turning(target, current, {})
lc_vmrunstate(target, current) ==       \* tried again until the instance is so
    << lc_credentials, lc_connect, lc_get_instances >> \o
    IF target = "suspend" THEN << >>
    ELSE << NeedFound >> \o lc_vmrunstate_do(target, current)
lc_imgdelete ==
    << lc_connect, FindThe("image", Stop) >> \o IfFound(<< Drop("image", "name", Stop) >>)

(* Azure has no data volume, but a public address and a network interface. *)
as_pre_vmcreate_process  == << Make("address"), Make("nic") >>
(* The interface goes with the node, in the destroy_node of libcloud.      *)
as_destroy_node          == << Drop("nic", "name", Stop) >>
as_post_vmdelete_process == << Call("addresses") >>     \* the break leaves before the deletion
as_extra_vmccleanup      == << Drop("address", "name", Stop) >>

(* ------------------- no cloud at all, and the simulated one ------------- *)

nop_vm_placement  == Call("placement")     \* the attributes of the VMC, and of a host
nop_get_images    == Call("images")
nop_get_ip_address == Call("address")      \* which the user gives
nop_is_vm_ready    == << nop_get_ip_address >>
nop_vmcreate  == << nop_vm_placement, nop_get_images >> \o ReadyAndBoot(nop_is_vm_ready)
nop_vmdestroy == << Call("clean over ssh") >>
nop_vmccleanup == << >>
(* An image is two entries of the VMC: by its id, and by its name.         *)
nop_vmcapture == << Make("image"), Make("image name") >>
nop_imgdelete ==
    << FindThe("image name", Stop) >> \o
    IfFound(<< Drop("image", "name", Stop), Drop("image name", "name", Stop) >>)

(* The simulated cloud has no instance: what a VM holds is cores and       *)
(* memory of the host that vm_placement names.                             *)
sim_host_resource_update_create == << Take("cores"), Take("memory") >>
(* Mutant: the memory is not given back.                                   *)
sim_host_resource_update_destroyCores == IfKnown(<< Give("cores") >>)
sim_host_resource_update_destroy ==
    IfKnown(<< Give("cores"), Give("memory") >>)
sim_get_virtual_hardware_config == Call("size")
sim_get_images   == Call("images")
(* The VM gets the id of a host that has the cores and the memory; one     *)
(* that the user named is looked up instead, which is one call as well.    *)
sim_check_host_capacity == << Call("capacity"), Learn("cores"), Learn("memory") >>
sim_vm_placement == sim_check_host_capacity \o sim_host_resource_update_create
sim_vmcreate ==
    << Forget("cores"), Forget("memory"), sim_get_virtual_hardware_config, sim_get_images >> \o
    sim_vm_placement \o ReadyAndBoot(<< >>)
sim_vmdestroy  == sim_host_resource_update_destroy
sim_vmccleanup == << >>
sim_vmcapture == nop_vmcapture
sim_imgdelete == nop_imgdelete

(* ----------------------------- all of them ------------------------------ *)

DriverNames == {"osk", "ec2", "gce", "pdm", "pcm", "plm", "slr", "csk", "ntnx",
                "kub", "lc", "as", "nop", "sim"}

vmcreate(d) ==
    CASE d = "osk" -> osk_vmcreate      [] d = "ec2"  -> ec2_vmcreate
      [] d = "gce" -> gce_vmcreate      [] d = "pdm"  -> pdm_vmcreate
      [] d = "pcm" -> pcm_vmcreate      [] d = "plm"  -> plm_vmcreate
      [] d = "slr" -> slr_vmcreate      [] d = "csk"  -> csk_vmcreate
      [] d = "ntnx" -> ntnx_vmcreate    [] d = "kub"  -> kub_vmcreate
      [] d = "lc"  -> lc_vmcreate(<< >>, lc_vvcreate)
      [] d = "as"  -> lc_vmcreate(as_pre_vmcreate_process, << >>)
      [] d = "nop" -> nop_vmcreate      [] d = "sim"  -> sim_vmcreate

(* failed: instance_creation_status, which two drivers look at.            *)
vmdestroy(d, failed) ==
    CASE d = "osk" -> osk_vmdestroy(failed)   [] d = "ec2"  -> ec2_vmdestroy
      [] d = "gce" -> gce_vmdestroy           [] d = "pdm"  -> pdm_vmdestroy
      [] d = "pcm" -> pcm_vmdestroy           [] d = "plm"  -> plm_vmdestroy
      [] d = "slr" -> slr_vmdestroy           [] d = "csk"  -> csk_vmdestroy
      [] d = "ntnx" -> ntnx_vmdestroy(failed) [] d = "kub"  -> kub_vmdestroy
      [] d = "lc"  -> lc_vmdestroy(<< >>, << >>)
      [] d = "as"  -> lc_vmdestroy(as_destroy_node, as_post_vmdelete_process)
      [] d = "nop" -> nop_vmdestroy           [] d = "sim"  -> sim_vmdestroy

vmccleanup(d) ==
    CASE d = "osk" -> osk_vmccleanup    [] d = "ec2"  -> ec2_vmccleanup
      [] d = "gce" -> gce_vmccleanup    [] d = "pdm"  -> pdm_vmccleanup
      [] d = "pcm" -> pcm_vmccleanup    [] d = "plm"  -> plm_vmccleanup
      [] d = "slr" -> slr_vmccleanup    [] d = "csk"  -> csk_vmccleanup
      [] d = "ntnx" -> ntnx_vmccleanup  [] d = "kub"  -> kub_vmccleanup
      [] d = "lc"  -> lc_vmccleanup(<< >>, << >>)
      [] d = "as"  -> lc_vmccleanup(as_destroy_node, as_extra_vmccleanup)
      [] d = "nop" -> nop_vmccleanup    [] d = "sim"  -> sim_vmccleanup

(* Two drivers report success without a capture; objects' vmcapture then   *)
(* looks for a time that nobody recorded.                                  *)
vmcapture(d) ==
    CASE d = "osk" -> osk_vmcapture   [] d = "ec2" -> ec2_vmcapture
      [] d = "gce" -> gce_vmcapture   [] d = "pdm" -> pdm_vmcapture
      [] d = "pcm" -> pcm_vmcapture   [] d = "plm" -> plm_vmcapture
      [] d = "slr" -> slr_vmcapture   [] d = "csk" -> csk_vmcapture
      [] d \in {"ntnx", "kub"} -> << Impossible >>
      [] d \in {"lc", "as"}    -> lc_vmcapture
      [] d = "nop" -> nop_vmcapture   [] d = "sim" -> sim_vmcapture

vmrunstate(d, target, current) ==
    CASE d = "osk" -> osk_vmrunstate(target, current)
      [] d = "ec2" -> ec2_vmrunstate(target, current)
      [] d = "gce" -> gce_vmrunstate(target, current)
      [] d = "pdm" -> pdm_vmrunstate(target, current)
      [] d = "pcm" -> pcm_vmrunstate(target, current)
      [] d = "plm" -> plm_vmrunstate(target, current)
      [] d = "slr" -> slr_vmrunstate(target, current)
      [] d = "csk" -> csk_vmrunstate(target, current)
      [] d = "kub" -> kub_vmrunstate
      [] d \in {"lc", "as"} -> lc_vmrunstate(target, current)
      [] d \in {"ntnx", "nop", "sim"} -> << >>

imgdelete(d) ==
    CASE d = "osk" -> osk_imgdelete   [] d = "ec2" -> ec2_imgdelete
      [] d = "gce" -> gce_imgdelete   [] d = "pdm" -> pdm_imgdelete
      [] d = "pcm" -> pcm_imgdelete   [] d = "plm" -> plm_imgdelete
      [] d = "slr" -> slr_imgdelete   [] d = "csk" -> << Impossible >>
      [] d = "ntnx" -> ntnx_imgdelete [] d = "kub" -> << >>
      [] d \in {"lc", "as"} -> lc_imgdelete
      [] d = "nop" -> nop_imgdelete   [] d = "sim" -> sim_imgdelete
=============================================================================
