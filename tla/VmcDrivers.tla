----------------------------- MODULE VmcDrivers -----------------------------
(***************************************************************************)
(* What the cloud drivers do for a whole VMC: test_vmc_connection, which   *)
(* cldattach calls for every initial VMC, vmcregister and vmcunregister,   *)
(* which objattach and objdetach call.  The programs are those of          *)
(* Drivers.tla.                                                            *)
(*                                                                         *)
(* A test looks for what a VMC needs (Supplies), may supply what is        *)
(* missing, and refuses the VMC over some of it.  What was found is        *)
(* remembered like the ids of a VM.  A VMC without the images that it needs*)
(* passes the test: it is attached for a walkthrough.                      *)
(* Cleanups are on (CLEANUP_ON_ATTACH, CLEANUP_ON_DETACH), as in the       *)
(* templates; the discovery of hosts is a parameter.                       *)
(***************************************************************************)
EXTENDS Drivers

Supplies == {"network", "key", "security group", "base image", "floating pool", "jumphost"}

Check(x)     == Instr("check", x, "name", Stop)    \* found, when it is there
Granted(x)   == Learn(x)                           \* found, without a look
IfMissed(prog) == If("missed", prog)

(* --------------------------- shared_functions -------------------------- *)

generate_rc == Call("rc file")
(* Mutant: a missing key is not uploaded.                                  *)
check_ssh_keyNoUpload(get_ssh_keys, create_ssh_key) ==
    << Call("key file") >> \o get_ssh_keys \o << Granted("key") >>
(* A failed upload aborts the test only with abort_after_ssh_upload_failure.*)
check_ssh_key(get_ssh_keys, create_ssh_key) ==
    << Call("key file") >> \o get_ssh_keys \o IfMissed(create_ssh_key) \o << Granted("key") >>
(* The key is the one of the file that check_ssh_key has just read.        *)
own_ssh_key == << Granted("key") >>
upload(err) == << Instr("make", "key", "name", err) >>
check_security_group(get_security_groups) == get_security_groups
base_check_images(registered) == << Call("image list"), registered >>
additional_host_discovery == Call("additional discovery")
populate_interface        == Call("interfaces")
hostname2ip               == Call("address of the access point")

(* ------------------------------ OpenStack ------------------------------ *)

osk_get_network_list  == Call("networks")
osk_check_networks    == << osk_get_network_list, Check("network") >>
osk_get_ssh_keys      == << Check("key") >>
osk_create_ssh_key    == upload(Either)
osk_get_security_groups == << Check("security group") >>
osk_check_floating_pool == << Check("floating pool") >>      \* nobody insists on it
osk_check_images      == base_check_images(Check("base image"))
(* vmcreate of a VM with the name of the jump host, and a second look.     *)
osk_check_jumphost ==
    << Instr("check", "jumphost", "name", Skip) >> \o
    IfMissed(If("base image", << Instr("make named", "jumphost", "name", Skip) >>)) \o
    << Forget("jumphost"), Instr("check", "jumphost", "name", Skip) >>
osk_test_vmc_connection(create_jumphost) ==
    << osk_connect, generate_rc >> \o check_ssh_key(osk_get_ssh_keys, osk_create_ssh_key) \o
    check_security_group(osk_get_security_groups) \o osk_check_floating_pool \o
    osk_check_networks \o osk_check_images \o
    (IF create_jumphost THEN osk_check_jumphost ELSE << Granted("jumphost") >>) \o
    << Insist("network"), Insist("key"), Insist("security group"), Insist("jumphost") >>
osk_get_service_list == Call("services")
osk_get_service_host == Call("host names")
osk_build_host_map == << osk_get_service_list, osk_get_service_host, Call("hypervisors") >>
osk_add_host == Ask("host name")          \* finally returns: a host without a name stays
osk_discover_hosts ==
    << osk_connect >> \o osk_build_host_map \o
    << osk_add_host, additional_host_discovery, populate_interface >>
osk_vmcregister(discover) ==
    osk_vmccleanup \o << osk_connect, hostname2ip >> \o
    (IF discover THEN osk_discover_hosts ELSE << >>) \o << osk_get_network_list >>

(* ------------------------- Amazon EC2, Google, SoftLayer ---------------- *)

ec2_get_ssh_keys        == << Check("key") >>
ec2_create_ssh_key      == upload(Either)
ec2_get_security_groups == << Check("security group") >>
ec2_check_images        == base_check_images(Check("base image"))
ec2_test_vmc_connection ==
    << ec2_connect, generate_rc >> \o check_ssh_key(ec2_get_ssh_keys, ec2_create_ssh_key) \o
    check_security_group(ec2_get_security_groups) \o ec2_check_images \o
    << Insist("key"), Insist("security group") >>
(* It reads the attribute cloud_vm_uuid, which nobody gave to the VMC.     *)
ec2_discover_hosts == << Impossible >>
ec2_vmcregister(discover) ==
    ec2_vmccleanup \o << ec2_connect, hostname2ip >> \o
    (IF discover THEN ec2_discover_hosts ELSE << >>)

gce_check_networks   == << Granted("network") >>
gce_get_ssh_keys     == << Check("key") >>
gce_create_ssh_key   == upload(Either)
gce_check_images     == base_check_images(Check("base image"))
(* The images are looked at, and the key insisted on, once per process.    *)
gce_test_vmc_connection(base_images_checked) ==
    << gce_connect, generate_rc >> \o gce_check_networks \o
    check_ssh_key(gce_get_ssh_keys, gce_create_ssh_key) \o
    IF base_images_checked THEN << >>
    ELSE gce_check_images \o << Insist("network"), Insist("key") >>
gce_discover_hosts == << Impossible >>
gce_vmcregister(discover) ==
    gce_vmccleanup \o << gce_connect, hostname2ip >> \o
    (IF discover THEN gce_discover_hosts ELSE << >>)

slr_check_networks == << Granted("network") >>
slr_get_ssh_keys   == << Check("key") >>
slr_create_ssh_key == upload(Either)
slr_check_images   == base_check_images(Check("base image"))
slr_test_vmc_connection ==
    << slr_connect, generate_rc >> \o slr_check_networks \o
    check_ssh_key(slr_get_ssh_keys, slr_create_ssh_key) \o slr_check_images \o
    << Insist("network"), Insist("key") >>
slr_discover_hosts == << Impossible >>
slr_vmcregister(discover) ==
    slr_vmccleanup \o << slr_connect, hostname2ip >> \o
    (IF discover THEN slr_discover_hosts ELSE << >>)

(* ------------------------- Docker, LXD, Libvirt ------------------------ *)

(* Their vmccleanup goes over the connections that vmcregister opened in   *)
(* the same process; a process without any finds nothing to clean (pdm,    *)
(* pcm), or no entry for its VMC (plm).                                    *)
pdm_check_networks == << Check("network") >>
pdm_get_ssh_keys   == own_ssh_key
pdm_check_images   == base_check_images(Check("base image"))
pdm_test_vmc_connection ==
    << pdm_connect, generate_rc >> \o pdm_check_networks \o
    check_ssh_key(pdm_get_ssh_keys, << >>) \o pdm_check_images \o
    << Insist("network"), Insist("key") >>
pdm_discover_hosts ==
    << Call("info"), pdm_connect, Call("info of the nodes"), additional_host_discovery >>
pdm_vmcregister(discover) ==
    << pdm_connect >> \o pdm_vmccleanup \o << hostname2ip >> \o
    (IF discover THEN pdm_discover_hosts ELSE << >>)
pdm_vmcunregister(connected) == IF connected THEN pdm_vmccleanup ELSE << >>

pcm_check_networks == << Check("network") >>
pcm_get_ssh_keys   == own_ssh_key
pcm_check_images   == base_check_images(Check("base image"))
pcm_test_vmc_connection ==
    << pcm_connect, generate_rc >> \o pcm_check_networks \o
    check_ssh_key(pcm_get_ssh_keys, << >>) \o pcm_check_images \o
    << Insist("network"), Insist("key") >>
pcm_discover_hosts == << Call("info"), additional_host_discovery >>
pcm_vmcregister(discover) ==
    << pcm_connect >> \o pcm_vmccleanup \o << hostname2ip >> \o
    (IF discover THEN pcm_discover_hosts ELSE << >>)
pcm_vmcunregister(connected) == IF connected THEN pcm_vmccleanup ELSE << >>

plm_check_networks == << Check("network") >>
plm_get_ssh_keys   == own_ssh_key
plm_check_images   == base_check_images(Check("base image"))
plm_test_vmc_connection ==
    << plm_connect, generate_rc >> \o plm_check_networks \o
    check_ssh_key(plm_get_ssh_keys, << >>) \o plm_check_images \o
    << Insist("network"), Insist("key") >>
plm_discover_hosts == << Call("info"), additional_host_discovery >>
plm_vmcregister(discover) ==
    << plm_connect >> \o plm_vmccleanup \o << hostname2ip >> \o
    (IF discover THEN plm_discover_hosts ELSE << >>)
plm_vmcunregister(connected) == IF connected THEN plm_vmccleanup ELSE << Impossible >>

(* ----------------- CloudStack, Nutanix, Kubernetes, libcloud ------------ *)

(* cldattach passes two arguments more than this one takes.                *)
csk_test_vmc_connection == << Impossible >>
csk_discover_hosts == << csk_get_zone, Call("hosts"), additional_host_discovery >>
csk_vmcregister(discover) ==
    csk_vmccleanup \o << csk_connect, csk_get_zone, hostname2ip >> \o
    (IF discover THEN csk_discover_hosts ELSE << >>)

ntnx_check_networks == << Granted("network") >>
ntnx_get_ssh_keys   == own_ssh_key
ntnx_check_images   == base_check_images(Check("base image"))
ntnx_test_vmc_connection ==
    << ntnx_connect, generate_rc >> \o check_ssh_key(ntnx_get_ssh_keys, << >>) \o
    ntnx_check_networks \o ntnx_check_images \o << Insist("network"), Insist("key") >>
ntnx_discover_hosts == << Impossible >>
ntnx_vmcregister(discover) ==
    ntnx_vmccleanup \o << ntnx_connect, hostname2ip >> \o
    (IF discover THEN ntnx_discover_hosts ELSE << >>)

kub_check_networks == << Granted("network") >>
kub_get_ssh_keys   == own_ssh_key
kub_check_images   == << Granted("base image") >>     \* by the names in the templates
kub_test_vmc_connection ==
    << kub_connect, generate_rc >> \o kub_check_networks \o
    check_ssh_key(kub_get_ssh_keys, << >>) \o kub_check_images \o
    << Insist("network"), Insist("key") >>
kub_try_dns == Ask("address of the access point")
kub_discover_hosts == << Call("nodes"), additional_host_discovery >>
kub_vmcregister(discover) ==
    << kub_connect >> \o kub_vmccleanup \o << kub_try_dns >> \o
    (IF discover THEN kub_discover_hosts ELSE << >>) \o << Call("network plugin") >>

(* For each of the credentials connect and check_ssh_key: one of them here.*)
lc_check_networks(listed) == << IF listed THEN Check("network") ELSE Granted("network") >>
lc_get_ssh_keys   == << Check("key") >>
lc_create_ssh_key == upload(Either)
lc_check_images   == base_check_images(Check("base image"))
as_extra_vmc_setup == << >>                 \* attributes of the VMC only
lc_test_vmc_connection(networks_listed) ==
    << lc_connect >> \o check_ssh_key(lc_get_ssh_keys, lc_create_ssh_key) \o << generate_rc >> \o
    lc_check_networks(networks_listed) \o as_extra_vmc_setup \o lc_check_images \o
    << Insist("network"), Insist("key") >>
lc_discover_hosts == << Impossible >>
lc_vmcregister(cleanup, discover) ==
    cleanup \o << lc_connect, hostname2ip >> \o
    (IF discover THEN lc_discover_hosts ELSE << >>)

(* ------------------- no cloud at all, and the simulated one ------------- *)

nop_check_networks == << Granted("network") >>
nop_get_ssh_keys   == own_ssh_key
nop_check_images   == << Granted("base image") >>
nop_test_vmc_connection ==
    << generate_rc >> \o nop_check_networks \o check_ssh_key(nop_get_ssh_keys, << >>) \o
    nop_check_images \o << Insist("network"), Insist("key") >>
nop_discover_hosts == << Call("initial hosts"), additional_host_discovery >>
nop_vmcregister(discover) ==
    nop_vmccleanup \o << hostname2ip >> \o (IF discover THEN nop_discover_hosts ELSE << >>)

sim_check_networks      == << Granted("network") >>
sim_get_ssh_keys        == own_ssh_key
sim_get_security_groups == << Granted("security group") >>
sim_check_images        == << Granted("base image") >>
sim_test_vmc_connection ==
    << generate_rc >> \o check_ssh_key(sim_get_ssh_keys, << >>) \o
    check_security_group(sim_get_security_groups) \o sim_check_networks \o sim_check_images \o
    << Insist("network"), Insist("key"), Insist("security group") >>
sim_create_simulated_hosts == Call("host sizes")
sim_discover_hosts ==
    << sim_create_simulated_hosts, additional_host_discovery, populate_interface >>
sim_vmcregister(discover) ==
    sim_vmccleanup \o (IF discover THEN sim_discover_hosts ELSE << >>)

(* ----------------------------- all of them ------------------------------ *)

(* The tests that a driver may run: what its configuration or its process  *)
(* has decided already.                                                    *)
test_vmc_connection(d) ==
    CASE d = "osk" -> {osk_test_vmc_connection(jumphost) : jumphost \in BOOLEAN}
      [] d = "ec2" -> {ec2_test_vmc_connection}
      [] d = "gce" -> {gce_test_vmc_connection(checked) : checked \in BOOLEAN}
      [] d = "pdm" -> {pdm_test_vmc_connection}   [] d = "pcm" -> {pcm_test_vmc_connection}
      [] d = "plm" -> {plm_test_vmc_connection}   [] d = "slr" -> {slr_test_vmc_connection}
      [] d = "csk" -> {csk_test_vmc_connection}   [] d = "ntnx" -> {ntnx_test_vmc_connection}
      [] d = "kub" -> {kub_test_vmc_connection}
      [] d \in {"lc", "as"} -> {lc_test_vmc_connection(listed) : listed \in BOOLEAN}
      [] d = "nop" -> {nop_test_vmc_connection}   [] d = "sim" -> {sim_test_vmc_connection}

vmcregister(d, discover) ==
    CASE d = "osk" -> osk_vmcregister(discover)   [] d = "ec2" -> ec2_vmcregister(discover)
      [] d = "gce" -> gce_vmcregister(discover)   [] d = "pdm" -> pdm_vmcregister(discover)
      [] d = "pcm" -> pcm_vmcregister(discover)   [] d = "plm" -> plm_vmcregister(discover)
      [] d = "slr" -> slr_vmcregister(discover)   [] d = "csk" -> csk_vmcregister(discover)
      [] d = "ntnx" -> ntnx_vmcregister(discover) [] d = "kub" -> kub_vmcregister(discover)
      [] d \in {"lc", "as"} -> lc_vmcregister(vmccleanup(d), discover)
      [] d = "nop" -> nop_vmcregister(discover)   [] d = "sim" -> sim_vmcregister(discover)

(* The cleanup, if CLEANUP_ON_DETACH; connected: by this process.          *)
vmcunregister(d, connected) ==
    CASE d = "pdm" -> pdm_vmcunregister(connected) [] d = "pcm" -> pcm_vmcunregister(connected)
      [] d = "plm" -> plm_vmcunregister(connected)
      [] d \notin {"pdm", "pcm", "plm"} -> vmccleanup(d)
=============================================================================
