------------------------------ MODULE NodeFiles ------------------------------
(***************************************************************************)
(* What the Kubernetes deployer puts on its nodes over SSH                 *)
(* (internal/kubernetes/kubelet.go, kube-proxy.go, ...), and what the      *)
(* services will read there according to the flags, environment files and  *)
(* units that kubernetesconfig generates.                                  *)
(*                                                                         *)
(* A file is a pair: a directory of the node and a name.  "srv" is         *)
(* /srv/kubernetes, which several components share.                        *)
(***************************************************************************)
EXTENDS Naturals, Sequences

Master == {"kubelet", "kube-proxy", "kube-scheduler",
           "kube-controller-manager", "kube-apiserver"}
Worker == {"kubelet", "kube-proxy"}
Services(group) == IF group = "masters" THEN Master ELSE Worker

DownloadsMaster == Master \cup {"kubectl", "cloud-controller-manager"}
DownloadsWorker == Worker \cup {"kubectl"}

Srv(name) == <<"srv", name>>
Path ==
  ({"bin", "kubeconfig", "env", "unit"} \X DownloadsMaster) \cup
  {Srv(f) : f \in {"ca.crt", "ca.key", "server.cert", "server.key",
                   "kubelet-api.pem", "kubelet-api-key.pem"}}

(* What a file holds: a binary or text made for its component, or one of   *)
(* the three files of the key pair made by pki.NewRSA.                     *)
Content == {"own", "rootCA", "private", "public"}

-----------------------------------------------------------------------------
(* What is sent, as pairs of a path and a content.                         *)

KubeletPKI == {<<Srv("ca.crt"), "rootCA">>}

ControllerManagerPKI ==
  {<<Srv("ca.key"), "private">>, <<Srv("server.key"), "private">>,
   <<Srv("ca.crt"), "rootCA">>}

APIServerPKI ==
  {<<Srv("kubelet-api-key.pem"), "private">>,
   <<Srv("server.key"), "private">>,
   <<Srv("kubelet-api.pem"), "public">>,
   <<Srv("server.cert"), "public">>,
   <<Srv("ca.crt"), "rootCA">>}

(* The send...KubeConfigFile, send...EnvFile and send...ServiceFile of     *)
(* each component; the service file is a script that installs the unit.    *)
OwnFile(dir, c) == {<< <<dir, c>>, "own" >>}
KubeletFile(kind)           == OwnFile(kind, "kubelet")
KubeProxyFile(kind)         == OwnFile(kind, "kube-proxy")
KubeSchedulerFile(kind)     == OwnFile(kind, "kube-scheduler")
ControllerManagerFile(kind) == OwnFile(kind, "kube-controller-manager")
APIServerFile(kind)         == OwnFile(kind, "kube-apiserver")
KubectlFile                 == OwnFile("kubeconfig", "kubectl")

Downloaded(group) ==
  {<< <<"bin", c>>, "own" >> :
     c \in IF group = "masters" THEN DownloadsMaster ELSE DownloadsWorker}

(* Steps 1, 2 and 4 to 10 and 13 of Create: in this order, each on every   *)
(* node of its group.                                                      *)
Stage(group, files, kind) == [group |-> group, files |-> files, kind |-> kind]
On(group, seq) == [i \in DOMAIN seq |-> Stage(group, seq[i], "send")]
KubeletStages ==
  <<KubeletPKI, KubeletFile("kubeconfig"), KubeletFile("env"), KubeletFile("unit")>>
KubeProxyStages ==
  <<KubeProxyFile("kubeconfig"), KubeProxyFile("env"), KubeProxyFile("unit")>>
KubeSchedulerStages ==
  <<KubeSchedulerFile("kubeconfig"), KubeSchedulerFile("env"),
    KubeSchedulerFile("unit")>>
ControllerManagerStages ==
  <<ControllerManagerPKI, ControllerManagerFile("kubeconfig"),
    ControllerManagerFile("env"), ControllerManagerFile("unit")>>
APIServerStages == <<APIServerPKI, APIServerFile("env"), APIServerFile("unit")>>

Stages ==
  <<Stage("masters", Downloaded("masters"), "download"),
    Stage("workers", Downloaded("workers"), "download")>>
  \o On("masters", KubeletStages)       \o On("workers", KubeletStages)
  \o On("masters", KubeProxyStages)     \o On("workers", KubeProxyStages)
  \o On("masters", KubeSchedulerStages) \o On("masters", ControllerManagerStages)
  \o On("masters", APIServerStages)
  \o On("masters", <<KubectlFile>>)     \o On("workers", <<KubectlFile>>)

-----------------------------------------------------------------------------
(* What is read: the unit names the binary and the environment file, and   *)
(* the environment file holds the flags, some of which name files.         *)

KubeletReads == KubeletPKI \cup {<< <<"kubeconfig", "kubelet">>, "own" >>}
KubeProxyReads == {<< <<"kubeconfig", "kube-proxy">>, "own" >>}
KubeSchedulerReads == {<< <<"kubeconfig", "kube-scheduler">>, "own" >>}

(* --cluster-signing-cert-file, --cluster-signing-key-file, --root-ca-file *)
(* and --service-account-private-key-file.                                 *)
ControllerManagerReads ==
  {<<Srv("ca.crt"), "rootCA">>, <<Srv("ca.key"), "private">>,
   <<Srv("server.key"), "private">>,
   << <<"kubeconfig", "kube-controller-manager">>, "own" >>}

(* --client-ca-file, --kubelet-client-certificate, --kubelet-client-key,   *)
(* --tls-cert-file and --tls-private-key-file.                             *)
APIServerReads ==
  {<<Srv("ca.crt"), "rootCA">>, <<Srv("kubelet-api.pem"), "public">>,
   <<Srv("kubelet-api-key.pem"), "private">>,
   <<Srv("server.cert"), "public">>, <<Srv("server.key"), "private">>}

Flags(c) ==
  CASE c = "kubelet"                 -> KubeletReads
    [] c = "kube-proxy"              -> KubeProxyReads
    [] c = "kube-scheduler"          -> KubeSchedulerReads
    [] c = "kube-controller-manager" -> ControllerManagerReads
    [] c = "kube-apiserver"          -> APIServerReads

Reads(c) ==
  Flags(c) \cup {<< <<dir, c>>, "own" >> : dir \in {"bin", "env", "unit"}}
=============================================================================
