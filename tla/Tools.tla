------------------------------- MODULE Tools -------------------------------
(***************************************************************************)
(* The surface of the server: the 74 tools of the router with what their   *)
(* handlers do besides authorizing, and the read methods of the client     *)
(* they call.  Every handler has the same skeleton (caller, audit scope,   *)
(* authorize, page check, one call, finish_redacted); a row holds what     *)
(* differs.  Server and ToolCalls give the skeleton its steps.             *)
(***************************************************************************)

(* A tool: the action it is audited as, whether the handler checks a page  *)
(* before it calls, the method of the client or of ChangeManager it calls, *)
(* and the view of the answer it hands to finish_redacted.                 *)
Row(t, a, p, m, v) == [tool |-> t, act |-> a, paged |-> p, method |-> m, view |-> v]

Single(t, m)     == Row(t, "read", FALSE, m, "whole")
Paged(t, m)      == Row(t, "read", TRUE, m, "whole")
Listed(t, m)     == Row(t, "read", TRUE, m, "listed")      \* an allow-list of fields
Change(t, a, m)  == Row(t, a, FALSE, m, "whole")

TenantAndDeviceTools ==
  { Single("get_sdc_tenant_scope", "tenant_scope"),
    Paged("list_sdc_devices", "list_devices"),
    Single("get_sdc_device", "get_device"),
    Row("list_sdc_config_versions", "read", FALSE, "list_config_versions", "slice") }

DeviceConfigTools ==
  { Paged("list_sdc_device_config", "list_device_config"),
    Single("get_sdc_device_config_revision", "get_device_config_revision"),
    Paged("list_sdc_image_definitions", "list_image_definitions"),
    Single("get_sdc_image_job_status", "get_image_job_status") }

(* The licence keys in the state of an RMA are withheld. *)
DeviceJobTools ==
  { Single("get_sdc_mnha_sync_status", "get_mnha_sync_status"),
    Row("get_sdc_rma_state", "read", FALSE, "get_rma_state", "rma"),
    Single("get_sdc_rma_reactivation_status", "get_rma_reactivation_status"),
    Paged("list_sdc_firewall_policies", "list_firewall_policies") }

PolicyTools ==
  { Single("get_sdc_firewall_policy", "get_firewall_policy"),
    Paged("list_sdc_nat_policies", "list_nat_policies"),
    Single("get_sdc_nat_policy", "get_nat_policy"),
    Paged("list_sdc_firewall_rules", "list_firewall_rules") }

FirewallRuleTools ==
  { Single("get_sdc_firewall_rule", "get_firewall_rule"),
    Paged("list_sdc_firewall_rule_groups", "list_firewall_rule_groups"),
    Single("get_sdc_firewall_hierarchy", "get_firewall_hierarchy"),
    Paged("list_sdc_nat_rules", "list_nat_rules") }

NatRuleTools ==
  { Single("get_sdc_nat_rule", "get_nat_rule"),
    Paged("list_sdc_nat_rule_groups", "list_nat_rule_groups"),
    Single("get_sdc_nat_hierarchy", "get_nat_hierarchy"),
    Paged("list_sdc_nat_pools", "list_nat_pools") }

GroupTools ==
  { Paged("list_sdc_device_groups", "list_device_groups"),
    Single("get_sdc_device_group", "get_device_group"),
    Single("get_sdc_nat_pool", "get_nat_pool"),
    Listed("list_sdc_ca_certificates", "list_ca_certificates") }

CertificateTools ==
  { Listed("list_sdc_local_certificates", "list_local_certificates"),
    Listed("list_sdc_device_ca_certificates", "list_device_ca_certificates"),
    Listed("list_sdc_device_local_certificates", "list_device_local_certificates"),
    Listed("list_sdc_licenses", "list_licenses") }

(* The plan of a licence write carries what the read tools project. *)
LicenseWriteTools ==
  { Row("get_sdc_license", "read", FALSE, "get_license", "listed"),
    Change("prepare_sdc_firewall_write", "prepare", "prepare_firewall_write"),
    Change("apply_sdc_firewall_write", "apply", "apply_firewall_write"),
    Row("prepare_sdc_license_write", "prepare", FALSE, "prepare_license_write", "planned") }

SyncTools ==
  { Row("apply_sdc_license_write", "apply", FALSE, "apply_license_write", "planned"),
    Change("prepare_sdc_device_inventory_sync", "prepare", "prepare_device_sync"),
    Change("apply_sdc_device_inventory_sync", "apply", "apply_device_sync"),
    Single("get_sdc_firewall_policy_state", "get_firewall_policy_state") }

SettingsTools ==
  { Single("get_sdc_firewall_global_settings", "get_firewall_global_settings"),
    Single("get_sdc_firewall_global_profile", "get_firewall_global_profile"),
    Single("get_sdc_content_security_settings", "get_content_security_settings"),
    Paged("list_sdc_device_global_settings", "list_device_global_settings") }

CatalogTools ==
  { Listed("list_users_and_roles", "list_users_and_roles"),
    Paged("list_sdc_resources", "list_resource"),
    Single("get_sdc_resource", "get_resource"),
    Paged("list_sdc_ips_rules", "list_ips_rules") }

IpsTools ==
  { Single("get_sdc_ips_rule", "get_ips_rule"),
    Paged("list_sdc_ips_exempt_rules", "list_ips_exempt_rules"),
    Single("get_sdc_ips_exempt_rule", "get_ips_exempt_rule"),
    Paged("list_sdc_ecf_rule_sets", "list_ecf_rule_sets") }

TunnelTools ==
  { Paged("list_sdc_ecf_rules", "list_ecf_rules"),
    Paged("list_sdc_ipsec_profiles", "list_ipsec_profiles"),
    Single("get_sdc_ipsec_profile", "get_ipsec_profile"),
    Paged("list_sdc_tunnels", "list_tunnels"),
    Single("get_sdc_tunnel", "get_tunnel") }

SiteTools ==
  { Single("get_sdc_tunnel_count", "tunnel_count"),
    Paged("list_sdc_sites", "list_sites"),
    Single("get_sdc_site", "get_site"),
    Single("get_sdc_preview_status", "preview_status"),
    Single("get_sdc_deploy_status", "deploy_status") }

DeployTools ==
  { Single("get_sdc_preview_device_result", "preview_device_result"),
    Single("get_sdc_deploy_device_result", "deploy_device_result"),
    Change("prepare_sdc_policy_deploy", "prepare", "prepare"),
    Change("approve_sdc_change_set", "approve", "approve"),
    Change("apply_sdc_change_set", "apply", "apply") }

ObjectWriteTools ==
  { Change("prepare_sdc_object_write", "prepare", "prepare_object_write"),
    Change("apply_sdc_object_write", "apply", "apply_object_write"),
    Change("prepare_sdc_nat_write", "prepare", "prepare_nat_write"),
    Change("apply_sdc_nat_write", "apply", "apply_nat_write") }

ChangeSetTools ==
  { Change("get_sdc_change_set", "read", "status"),
    Change("discard_sdc_operation", "discard", "discard"),
    Row("get_sdc_change_set_details", "read", FALSE, "prepared_change", "planned") }

Tools ==
  UNION { TenantAndDeviceTools, DeviceConfigTools, DeviceJobTools, PolicyTools,
          FirewallRuleTools, NatRuleTools, GroupTools, CertificateTools,
          LicenseWriteTools, SyncTools, SettingsTools, CatalogTools, IpsTools,
          TunnelTools, SiteTools, DeployTools, ObjectWriteTools, ChangeSetTools }

(* The lists the authorization reads.  KNOWN_TOOLS bounds what a token may *)
(* name; a wildcard scope reaches neither a write nor a scoped read.       *)
KnownTools    == { r.tool : r \in Tools }
WriteTools    == { r.tool : r \in { q \in Tools : q.act # "read" } }
ScopedReads   == { "list_users_and_roles" }
WildcardExcluded == WriteTools \cup ScopedReads

-----------------------------------------------------------------------------
(* The client's read methods: how many identifiers each puts into its path *)
(* or query and checks first, and the page parameters it sends.            *)
Method(m, n, s) == [method |-> m, ids |-> n, paging |-> s]

InventoryMethods ==
  { Method("tenant_scope", 0, "none"), Method("list_devices", 0, "from") }

GroupMethods ==
  { Method("get_firewall_policy_state", 1, "none"), Method("list_nat_pools", 0, "from"),
    Method("list_device_groups", 0, "fields"), Method("get_device_group", 1, "none"),
    Method("get_nat_pool", 1, "none"), Method("get_device", 1, "none"),
    Method("list_config_versions", 1, "none") }

(* One section, or the subinterfaces of one interface: an interface named  *)
(* with any other section is refused.                                      *)
DeviceMethods ==
  { Method("list_device_config", 2, "from"), Method("get_device_config_revision", 1, "none"),
    Method("list_image_definitions", 0, "from"), Method("get_image_job_status", 1, "none"),
    Method("get_mnha_sync_status", 1, "none"), Method("get_rma_state", 1, "none") }

PolicyMethods ==
  { Method("get_rma_reactivation_status", 1, "none"),
    Method("list_firewall_policies", 0, "from"), Method("get_firewall_policy", 1, "none"),
    Method("list_nat_policies", 0, "from"), Method("get_nat_policy", 1, "none"),
    Method("list_firewall_rules", 2, "from"), Method("get_firewall_rule", 3, "none"),
    Method("list_firewall_rule_groups", 2, "from") }

RuleMethods ==
  { Method("get_firewall_hierarchy", 2, "none"),
    Method("list_nat_rules", 1, "from"), Method("get_nat_rule", 2, "none"),
    Method("list_nat_rule_groups", 1, "from"), Method("get_nat_hierarchy", 1, "none"),
    Method("list_resource", 0, "fields"), Method("get_resource", 1, "none") }

ProfileMethods ==
  { Method("list_ips_rules", 1, "from"), Method("get_ips_rule", 2, "none"),
    Method("list_ips_exempt_rules", 1, "from"), Method("get_ips_exempt_rule", 2, "none"),
    Method("list_ecf_rule_sets", 1, "from"), Method("list_ecf_rules", 2, "from") }

(* The device of the device settings is optional and only filters. *)
SettingsMethods ==
  { Method("get_firewall_global_settings", 0, "none"),
    Method("get_firewall_global_profile", 0, "none"),
    Method("get_content_security_settings", 0, "none"),
    Method("list_device_global_settings", 1, "offset"),
    Method("list_users_and_roles", 0, "spec") }

SiteMethods ==
  { Method("list_ipsec_profiles", 0, "from"), Method("get_ipsec_profile", 1, "none"),
    Method("list_tunnels", 0, "spec"), Method("get_tunnel", 1, "none"),
    Method("tunnel_count", 0, "none"), Method("list_sites", 0, "spec"),
    Method("get_site", 1, "none"),
    Method("list_ca_certificates", 0, "from"), Method("list_local_certificates", 0, "from"),
    Method("list_device_ca_certificates", 1, "from") }

LicenseMethods ==
  { Method("list_device_local_certificates", 1, "from"),
    Method("list_licenses", 1, "from"), Method("get_license", 2, "none") }

JobMethods ==
  { Method("preview_status", 1, "none"), Method("deploy_status", 1, "none"),
    Method("preview_device_result", 2, "none"), Method("deploy_device_result", 2, "none") }

Methods ==
  UNION { InventoryMethods, GroupMethods, DeviceMethods, PolicyMethods, RuleMethods,
          ProfileMethods, SettingsMethods, SiteMethods, LicenseMethods, JobMethods }

(* The reads served from change-set state: no request leaves for them. *)
LocalReads == { "status", "prepared_change" }

MethodOf(m) == CHOOSE q \in Methods : q.method = m
=============================================================================
