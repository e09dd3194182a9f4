------------------------------- MODULE Catalog -------------------------------
(***************************************************************************)
(* RESOURCES (src/src/management/catalog.py) and IDENTITY_RESOURCES        *)
(* (identity_catalog.py): what the write path reads of each catalogued     *)
(* resource.  The single fields, their labels and limits are abstracted to *)
(* the ones the engine treats in a way of their own: the secret fields,    *)
(* and the write-only ones, which no GET returns.                          *)
(***************************************************************************)

\* A resource with objects of its own.  "service" stands for the path of the
\* apply POST, or, when nothing is applied, for the API that stores it.
Crud(service) ==
    [service |-> service,
     verbs |-> {"create", "update", "delete"},     \* add, set, delete
     singleton |-> FALSE,
     persistence_only |-> FALSE,                   \* saved and never applied
     apply_ack |-> FALSE,                          \* more than "ok" is expected
     secret |-> {},                                \* never shown
     write_only |-> {},                            \* never read back either
     hooks |-> FALSE]                              \* prepare and verify

\* The settings of a service: one object, which is only updated.
Settings(service) == [Crud(service) EXCEPT !.verbs = {"update"}, !.singleton = TRUE]

wireguard_servers == [Crud("wireguard") EXCEPT !.secret = {"privkey"}]
wireguard_clients == [Crud("wireguard") EXCEPT !.secret = {"psk"}]
wireguard_general == Settings("wireguard")

shaper_pipes == Crud("trafficshaper")
shaper_queues == Crud("trafficshaper")
shaper_rules == Crud("trafficshaper")

vips == [Crud("vip_settings") EXCEPT !.secret = {"password"}]
vlans == Crud("vlan_settings")
laggs == Crud("lagg_settings")
loopbacks == Crud("loopback_settings")
vxlans == Crud("vxlan_settings")
static_routes == Crud("routes")

monit_services == [Crud("monit") EXCEPT !.apply_ack = TRUE]
monit_alerts == [Crud("monit") EXCEPT !.apply_ack = TRUE]
monit_tests == [Crud("monit") EXCEPT !.apply_ack = TRUE]
monit_general ==
    [Settings("monit") EXCEPT !.apply_ack = TRUE,
                              !.secret = {"password", "httpdPassword", "mmonitUrl"}]

ids_rules == Crud("ids")
ids_general == Settings("ids")

ipsec_connections == Crud("ipsec")
ipsec_children == Crud("ipsec")

syslog_destinations == Crud("syslog")
syslog_general == Settings("syslog")

portal_zones == Crud("captiveportal")
cron_jobs == Crud("cron")
categories == [Crud("category") EXCEPT !.persistence_only = TRUE]

dnsmasq_hosts == Crud("dnsmasq")
dnsmasq_general == [Settings("dnsmasq") EXCEPT !.secret = {"no_private_reverse"}]

unbound_general == Settings("unbound")

\* An instance can be listed and deleted, but not written.
openvpn_instances ==
    [Crud("openvpn") EXCEPT
       !.verbs = {"delete"},
       !.secret = {"password", "auth-gen-token", "auth-gen-token-renewal", "auth-gen-token-secret"}]

ha_settings == [Settings("hasync") EXCEPT !.secret = {"password"}]

\* _resource: nothing is applied.
Identity(api) == [Crud(api) EXCEPT !.persistence_only = TRUE]

auth_groups == Identity("auth")
auth_users == [Identity("auth") EXCEPT !.secret = {"password"}, !.write_only = {"password"}]
trust_cas == [Identity("trust") EXCEPT !.secret = {"prv_payload"}, !.hooks = TRUE]
trust_certificates == [Identity("trust") EXCEPT !.secret = {"prv_payload"}, !.hooks = TRUE]

\* _management_resources, without trust_crl, which is written by CrlService.
Resources ==
    [wireguard_servers |-> wireguard_servers, wireguard_clients |-> wireguard_clients,
     wireguard_general |-> wireguard_general,
     shaper_pipes |-> shaper_pipes, shaper_queues |-> shaper_queues, shaper_rules |-> shaper_rules,
     vips |-> vips, vlans |-> vlans, laggs |-> laggs, loopbacks |-> loopbacks, vxlans |-> vxlans,
     static_routes |-> static_routes,
     monit_services |-> monit_services, monit_alerts |-> monit_alerts,
     monit_tests |-> monit_tests, monit_general |-> monit_general,
     ids_rules |-> ids_rules, ids_general |-> ids_general,
     ipsec_connections |-> ipsec_connections, ipsec_children |-> ipsec_children,
     syslog_destinations |-> syslog_destinations, syslog_general |-> syslog_general,
     portal_zones |-> portal_zones, cron_jobs |-> cron_jobs, categories |-> categories,
     dnsmasq_hosts |-> dnsmasq_hosts, dnsmasq_general |-> dnsmasq_general,
     unbound_general |-> unbound_general, openvpn_instances |-> openvpn_instances,
     ha_settings |-> ha_settings,
     auth_groups |-> auth_groups, auth_users |-> auth_users,
     trust_cas |-> trust_cas, trust_certificates |-> trust_certificates]

Singleton(s) == Resources[s].singleton
Saved(s) == Resources[s].persistence_only
HasSecret(s) == Resources[s].secret # {}
WriteOnly(s) == Resources[s].write_only # {}
Hooked(s) == Resources[s].hooks
=============================================================================
