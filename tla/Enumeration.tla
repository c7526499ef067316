------------------------------ MODULE Enumeration ------------------------------
(***************************************************************************)
(* The control transfers of UsbControl over the tables of UsbDescriptors:  *)
(* what a host learns of the device when it reads its configuration.       *)
(***************************************************************************)
EXTENDS UsbControl, UsbDescriptors

\* usb_handle_config_descriptor answers from s_config_desc, by dev_config's pointer
\* and length.
ASSUME TablesAssumption == "config" \in Kinds /\ ItemLen["config"] = config_desc_len

\* A host that has read the configuration by a transfer that started clean has as many
\* bytes as it asked for, or as the header says there are if it asked for more; and what
\* s_config_desc says adds up, and is what dev_config and usb_handle_buff_status are
\* prepared for.
ConfigurationRead ==
    clean /\ result = "ok" /\ req.req = "GET_DESCRIPTOR" /\ req.kind = "config"
      => n = Least(req.wLength, Header.wTotalLength) /\ TablesAgree
=============================================================================
