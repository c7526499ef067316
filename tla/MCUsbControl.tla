----------------------------- MODULE MCUsbControl -----------------------------
(* A host that enumerates the device, reads its descriptors and sets line      *)
(* codings, over the real tables.                                              *)
EXTENDS Enumeration

\* "manufacturer", "product" and "serial" are the strings 1 to 3.
MCItemLen == [k \in {"device", "config", "lang", "manufacturer", "product", "serial", "lc"} |->
                CASE k = "device" -> device_descriptor_len
                  [] k = "config" -> config_desc_len
                  [] k = "lang" -> lang_descriptor_len
                  [] k = "manufacturer" -> StringLen(descriptor_strings[1])
                  [] k = "product" -> StringLen(descriptor_strings[2])
                  [] k = "serial" -> StringLen(descriptor_strings[3])
                  [] k = "lc" -> 7]

MCBauds == {0, 9600, Fixed}

Descriptors == { Request("GET_DESCRIPTOR", k[1], k[2], 0, 0) :
                   k \in {<<"device", 64>>, <<"config", 9>>, <<"config", 255>>, <<"unsupported", 255>>} }
Codings == { Request("SET_LINE_CODING", k[1], 7, k[2], k[3]) :
               k \in {<<"none", 2, 9600>>, <<"none", 2, 0>>, <<"short", 2, 9600>>,
                      <<"none", 0, 9600>>} }

MCRequests == Descriptors \union Codings \union
              { Request("SET_ADDRESS", "none", 0, 0, 5), Request("SET_CONFIGURATION", "none", 0, 0, 1),
                Request("CLEAR_FEATURE", "none", 0, 0, 0), Request("GET_LINE_CODING", "lc", 7, 2, 0) }
=============================================================================
