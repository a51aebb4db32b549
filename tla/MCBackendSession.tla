---------------------------- MODULE MCBackendSession ----------------------------
\* The operations of the Redfish backend that differ in their requests.
EXTENDS BackendSession

get_power_state == <<"read", "read">>
reset == <<"read", "read", "write">>
set_boot_device == <<"read", "read", "read", "peek", "write">>

MCOperations == {get_power_state, reset, set_boot_device}
================================================================================
