------------------------------ MODULE V1alpha1 ------------------------------
(***************************************************************************)
(* The types of package v1alpha1 (pkg/tidb-operator/apis/pingcap/v1alpha1) *)
(* as far as copying them goes: for a struct type of tiflash_config.go,    *)
(* the fields that hold a pointer; for every DeepCopyInto of               *)
(* zz_generated.deepcopy.go, what it does with each field after the        *)
(* assignment of the whole struct.  A field the function does not mention *)
(* is left as that assignment made it.                                     *)
(***************************************************************************)

\* The type of what a field points to when it is not a struct of the package
\* that the repository declares or copies.
Opaque == "opaque"

\* A declared field: a pointer to a scalar, a pointer to a struct.
Scalar    == [type |-> Opaque, many |-> FALSE]
Ref(type) == [type |-> type, many |-> FALSE]

\* The steps of the generated functions.
\*   Value       a new scalar, slice or map filled by assignment from the old
\*               one, or the assignment of a field: what the field refers
\*               to is copied one level deep.
\*   Struct(T)   a new T filled by the DeepCopyInto of T.
\*   Structs(T)  a new slice of T, every element filled by DeepCopyInto.
\*   Deep        the DeepCopyInto or DeepCopy of the field's own type, which
\*               the function does not name or which is of another package.
\*   Deeps       the same for every element of a slice or a map.
Value         == [copy |-> "value", type |-> Opaque, many |-> FALSE]
Struct(type)  == [copy |-> "plan",  type |-> type,   many |-> FALSE]
Structs(type) == [copy |-> "plan",  type |-> type,   many |-> TRUE]
Deep          == [copy |-> "deep",  type |-> Opaque, many |-> FALSE]
Deeps         == [copy |-> "deep",  type |-> Opaque, many |-> TRUE]

-----------------------------------------------------------------------------
\* The struct types of tiflash_config.go that a CommonConfig can reach.
CommonConfig ==
    [TmpPath |-> Scalar, DisplayName |-> Scalar, DefaultProfile |-> Scalar,
     FlashDataPath |-> Scalar, PathRealtimeMode |-> Scalar,
     MarkCacheSize |-> Scalar, MinmaxIndexCacheSize |-> Scalar,
     ListenHost |-> Scalar, TCPPort |-> Scalar, HTTPPort |-> Scalar,
     TCPPortSecure |-> Scalar, HTTPSPort |-> Scalar,
     InternalServerHTTPPort |-> Scalar, Flash |-> Ref("Flash"),
     FlashLogger |-> Ref("FlashLogger"),
     FlashApplication |-> Ref("FlashApplication"),
     FlashRaft |-> Ref("FlashRaft"), FlashStatus |-> Ref("FlashStatus"),
     FlashQuota |-> Ref("FlashQuota"), FlashUser |-> Ref("FlashUser"),
     FlashProfile |-> Ref("FlashProfile"), Security |-> Ref("FlashSecurity")]

FlashProfile ==
    [Readonly |-> Ref("Profile"), Default |-> Ref("Profile")]

Profile ==
    [Readonly |-> Scalar, MaxMemoryUsage |-> Scalar,
     UseUncompressedCache |-> Scalar, LoadBalancing |-> Scalar]

FlashUser ==
    [Readonly |-> Ref("User"), Default |-> Ref("User")]

User ==
    [Profile |-> Scalar, Quota |-> Scalar, Networks |-> Ref("Networks")]

Networks ==
    [IP |-> Scalar]

FlashQuota ==
    [Default |-> Ref("Quota")]

Quota ==
    [Interval |-> Ref("Interval")]

Interval ==
    [Duration |-> Scalar, Queries |-> Scalar]

Declared ==
    [CommonConfig |-> CommonConfig, FlashProfile |-> FlashProfile,
     Profile |-> Profile, FlashUser |-> FlashUser, User |-> User,
     Networks |-> Networks, FlashQuota |-> FlashQuota, Quota |-> Quota,
     Interval |-> Interval]
-----------------------------------------------------------------------------
\* Mutated form of CommonConfig_DeepCopyInto: the function as it was generated
\* before the struct got its field FlashProfile.
CommonConfig_DeepCopyInto_Stale ==
    [f \in DOMAIN CommonConfig \ {"FlashProfile"} |->
        IF CommonConfig[f].type = Opaque THEN Value
        ELSE Struct(CommonConfig[f].type)]

-----------------------------------------------------------------------------
\* zz_generated.deepcopy.go, one definition for every DeepCopyInto.
AutoResource_DeepCopyInto ==
    [CPU |-> Deep, Memory |-> Deep, Storage |-> Deep, Count |-> Value]

AutoRule_DeepCopyInto ==
    [MinThreshold |-> Value, ResourceTypes |-> Value]

BRConfig_DeepCopyInto ==
    [Concurrency |-> Value, RateLimit |-> Value, Checksum |-> Value,
     SendCredToTikv |-> Value, OnLine |-> Value, Options |-> Value]

Backup_DeepCopyInto ==
    [TypeMeta |-> Value, ObjectMeta |-> Deep, Spec |-> Deep, Status |-> Deep]

BackupCondition_DeepCopyInto ==
    [LastTransitionTime |-> Deep]

BackupList_DeepCopyInto ==
    [TypeMeta |-> Value, ListMeta |-> Deep, Items |-> Structs("Backup")]

BackupSchedule_DeepCopyInto ==
    [TypeMeta |-> Value, ObjectMeta |-> Deep, Spec |-> Deep, Status |-> Deep]

BackupScheduleList_DeepCopyInto ==
    [TypeMeta |-> Value, ListMeta |-> Deep,
     Items |-> Structs("BackupSchedule")]

BackupScheduleSpec_DeepCopyInto ==
    [MaxBackups |-> Value, MaxReservedTime |-> Value,
     BackupTemplate |-> Deep, StorageClassName |-> Value,
     ImagePullSecrets |-> Value]

BackupScheduleStatus_DeepCopyInto ==
    [LastBackupTime |-> Deep, AllBackupCleanTime |-> Deep]

BackupSpec_DeepCopyInto ==
    [ResourceRequirements |-> Deep, Env |-> Deeps,
     From |-> Struct("TiDBAccessConfig"), TikvGCLifeTime |-> Value,
     StorageProvider |-> Deep, StorageClassName |-> Value,
     BR |-> Struct("BRConfig"), Dumpling |-> Struct("DumplingConfig"),
     Tolerations |-> Deeps, ImagePullSecrets |-> Value,
     TableFilter |-> Value, Affinity |-> Deep, PodSecurityContext |-> Deep]

BackupStatus_DeepCopyInto ==
    [TimeStarted |-> Deep, TimeCompleted |-> Deep,
     Conditions |-> Structs("BackupCondition")]

BasicAuth_DeepCopyInto ==
    [Username |-> Deep, Password |-> Deep]

BasicAutoScalerSpec_DeepCopyInto ==
    [Rules |-> Deeps, ScaleInIntervalSeconds |-> Value,
     ScaleOutIntervalSeconds |-> Value,
     External |-> Struct("ExternalConfig"), Resources |-> Deeps]

BasicAutoScalerStatus_DeepCopyInto ==
    [LastAutoScalingTimestamp |-> Deep]

Binlog_DeepCopyInto ==
    [Enable |-> Value, WriteTimeout |-> Value, IgnoreError |-> Value,
     BinlogSocket |-> Value, Strategy |-> Value]

CDCConfigWraper_DeepCopyInto ==
    [GenericConfig |-> Deep]

ClusterRef_DeepCopyInto ==
    <<>>

CommonConfig_DeepCopyInto ==
    [TmpPath |-> Value, DisplayName |-> Value, DefaultProfile |-> Value,
     FlashDataPath |-> Value, PathRealtimeMode |-> Value,
     MarkCacheSize |-> Value, MinmaxIndexCacheSize |-> Value,
     ListenHost |-> Value, TCPPort |-> Value, HTTPPort |-> Value,
     TCPPortSecure |-> Value, HTTPSPort |-> Value,
     InternalServerHTTPPort |-> Value, Flash |-> Struct("Flash"),
     FlashLogger |-> Struct("FlashLogger"),
     FlashApplication |-> Struct("FlashApplication"),
     FlashRaft |-> Struct("FlashRaft"),
     FlashStatus |-> Struct("FlashStatus"),
     FlashQuota |-> Struct("FlashQuota"), FlashUser |-> Struct("FlashUser"),
     FlashProfile |-> Struct("FlashProfile"),
     Security |-> Struct("FlashSecurity")]

ComponentSpec_DeepCopyInto ==
    [Version |-> Value, ImagePullPolicy |-> Value,
     ImagePullSecrets |-> Value, HostNetwork |-> Value, Affinity |-> Deep,
     PriorityClassName |-> Value, SchedulerName |-> Value,
     NodeSelector |-> Value, Annotations |-> Value, Labels |-> Value,
     Tolerations |-> Deeps, PodSecurityContext |-> Deep,
     ConfigUpdateStrategy |-> Value, Env |-> Deeps, InitContainers |-> Deeps,
     AdditionalContainers |-> Deeps, AdditionalVolumes |-> Deeps,
     AdditionalVolumeMounts |-> Deeps,
     TerminationGracePeriodSeconds |-> Value,
     TopologySpreadConstraints |-> Value]

ConfigMapRef_DeepCopyInto ==
    [Namespace |-> Value]

CoprocessorCache_DeepCopyInto ==
    [Enabled |-> Value, CapacityMB |-> Value, AdmissionMaxResultMB |-> Value,
     AdmissionMinProcessMs |-> Value]

CrdKind_DeepCopyInto ==
    [ShortNames |-> Value, AdditionalPrinterColums |-> Value]

CrdKinds_DeepCopyInto ==
    [TiDBCluster |-> Deep, DMCluster |-> Deep, Backup |-> Deep,
     Restore |-> Deep, BackupSchedule |-> Deep, TiDBMonitor |-> Deep,
     TiDBInitializer |-> Deep, TidbClusterAutoScaler |-> Deep]

DMCluster_DeepCopyInto ==
    [TypeMeta |-> Value, ObjectMeta |-> Deep, Spec |-> Deep, Status |-> Deep]

DMClusterCondition_DeepCopyInto ==
    [LastUpdateTime |-> Deep, LastTransitionTime |-> Deep]

DMClusterList_DeepCopyInto ==
    [TypeMeta |-> Value, ListMeta |-> Deep, Items |-> Structs("DMCluster")]

DMClusterSpec_DeepCopyInto ==
    [Discovery |-> Deep, Master |-> Deep, Worker |-> Struct("WorkerSpec"),
     PVReclaimPolicy |-> Value, ImagePullSecrets |-> Value,
     EnablePVReclaim |-> Value, TLSCluster |-> Value,
     TLSClientSecretNames |-> Value, HostNetwork |-> Value,
     Affinity |-> Deep, PriorityClassName |-> Value, NodeSelector |-> Value,
     Annotations |-> Value, Labels |-> Value, Tolerations |-> Deeps,
     PodSecurityContext |-> Deep, TopologySpreadConstraints |-> Value]

DMClusterStatus_DeepCopyInto ==
    [Master |-> Deep, Worker |-> Deep,
     Conditions |-> Structs("DMClusterCondition")]

DMDiscoverySpec_DeepCopyInto ==
    [ResourceRequirements |-> Deep]

DMMonitorSpec_DeepCopyInto ==
    [Clusters |-> Value, Initializer |-> Deep]

DMSecurityConfig_DeepCopyInto ==
    [SSLCA |-> Value, SSLCert |-> Value, SSLKey |-> Value,
     CertAllowedCN |-> Value]

DashboardConfig_DeepCopyInto ==
    [TiDBCAPath |-> Value, TiDBCertPath |-> Value, TiDBKeyPath |-> Value,
     PublicPathPrefix |-> Value, InternalProxy |-> Value,
     DisableTelemetry |-> Value, EnableTelemetry |-> Value,
     EnableExperimental |-> Value]

DataResource_DeepCopyInto ==
    [TypeMeta |-> Value, ObjectMeta |-> Deep, Data |-> Value]

DataResourceList_DeepCopyInto ==
    [TypeMeta |-> Value, ListMeta |-> Deep,
     Items |-> Structs("DataResource")]

DeploymentStorageStatus_DeepCopyInto ==
    <<>>

DiscoverySpec_DeepCopyInto ==
    [ResourceRequirements |-> Deep]

DumplingConfig_DeepCopyInto ==
    [Options |-> Value, TableFilter |-> Value]

DeepCopyInto ==
    [AutoResource |-> AutoResource_DeepCopyInto,
     AutoRule |-> AutoRule_DeepCopyInto, BRConfig |-> BRConfig_DeepCopyInto,
     Backup |-> Backup_DeepCopyInto,
     BackupCondition |-> BackupCondition_DeepCopyInto,
     BackupList |-> BackupList_DeepCopyInto,
     BackupSchedule |-> BackupSchedule_DeepCopyInto,
     BackupScheduleList |-> BackupScheduleList_DeepCopyInto,
     BackupScheduleSpec |-> BackupScheduleSpec_DeepCopyInto,
     BackupScheduleStatus |-> BackupScheduleStatus_DeepCopyInto,
     BackupSpec |-> BackupSpec_DeepCopyInto,
     BackupStatus |-> BackupStatus_DeepCopyInto,
     BasicAuth |-> BasicAuth_DeepCopyInto,
     BasicAutoScalerSpec |-> BasicAutoScalerSpec_DeepCopyInto,
     BasicAutoScalerStatus |-> BasicAutoScalerStatus_DeepCopyInto,
     Binlog |-> Binlog_DeepCopyInto,
     CDCConfigWraper |-> CDCConfigWraper_DeepCopyInto,
     ClusterRef |-> ClusterRef_DeepCopyInto,
     CommonConfig |-> CommonConfig_DeepCopyInto,
     ComponentSpec |-> ComponentSpec_DeepCopyInto,
     ConfigMapRef |-> ConfigMapRef_DeepCopyInto,
     CoprocessorCache |-> CoprocessorCache_DeepCopyInto,
     CrdKind |-> CrdKind_DeepCopyInto, CrdKinds |-> CrdKinds_DeepCopyInto,
     DMCluster |-> DMCluster_DeepCopyInto,
     DMClusterCondition |-> DMClusterCondition_DeepCopyInto,
     DMClusterList |-> DMClusterList_DeepCopyInto,
     DMClusterSpec |-> DMClusterSpec_DeepCopyInto,
     DMClusterStatus |-> DMClusterStatus_DeepCopyInto,
     DMDiscoverySpec |-> DMDiscoverySpec_DeepCopyInto,
     DMMonitorSpec |-> DMMonitorSpec_DeepCopyInto,
     DMSecurityConfig |-> DMSecurityConfig_DeepCopyInto,
     DashboardConfig |-> DashboardConfig_DeepCopyInto,
     DataResource |-> DataResource_DeepCopyInto,
     DataResourceList |-> DataResourceList_DeepCopyInto,
     DeploymentStorageStatus |-> DeploymentStorageStatus_DeepCopyInto,
     DiscoverySpec |-> DiscoverySpec_DeepCopyInto,
     DumplingConfig |-> DumplingConfig_DeepCopyInto]
\* The types that have a DeepCopyObject.
Objects ==
    {"Backup", "BackupList", "BackupSchedule", "BackupScheduleList", "DMCluster", "DMClusterList", "DataResource", "DataResourceList"}
=============================================================================
