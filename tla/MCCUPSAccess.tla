---------------------------- MODULE MCCUPSAccess ----------------------------
(* The small instance of CUPSAccess: answers of two records, whole ones or the *)
(* first without an attribute, and errors.                                     *)
EXTENDS CUPSAccess

\* A record whose values are its number.
Record(attributes, i) == [a \in attributes |-> <<i>>]
AnswersOf(attributes, orders, firsts) ==
    [status : {"ok"}, order : orders,
     records : {<<Record(sent, 1), Record(attributes, 2)>> : sent \in {attributes} \cup firsts}]
        \cup [status : {"error"}, order : orders, records : {<<>>}]

MCPrinterAnswers ==
    AnswersOf({"printer-name", "device-uri"},
              {<<"device-uri", "printer-name">>}, {{"printer-name"}})

MCDeviceAnswers ==
    AnswersOf(DeviceAttributes,
              {<<"device-info", "device-make-and-model", "device-uri", "device-id",
                 "device-location">>},
              {DeviceAttributes \ {"device-id"}})

=============================================================================
