-------------------------- MODULE MCHostRequirements --------------------------
(* Words and documents for TLC.                                              *)
EXTENDS HostRequirements, TLC

Plain(w) == [lower |-> w, formed |-> FALSE, vendor |-> FALSE, kind |-> "", reserved |-> FALSE,
             value |-> TRUE, long |-> FALSE, number |-> {}, nan |-> FALSE]
Name(w, kind) == [Plain(w) EXCEPT !.formed = TRUE, !.kind = kind, !.value = FALSE]
Digits(w, n)  == [Plain(w) EXCEPT !.value = FALSE, !.number = {n}]

MCFacts ==
    [amount |-> Plain("amount"),
     linux  |-> Plain("linux"), LINUX |-> Plain("linux"), windows |-> Plain("windows"),
     toolong |-> [Plain("toolong") EXCEPT !.long = TRUE],
     nan    |-> [Plain("nan") EXCEPT !.nan = TRUE]]
    @@ [w \in {"0"} |-> Digits(w, 0)] @@ [w \in {"2"} |-> Digits(w, 2)]
    @@ [w \in {"amount.worker.vcpu"} |-> [Name(w, "amount") EXCEPT !.reserved = TRUE]]
    @@ [w \in {"amount.worker.x"} |-> [Name(w, "amount") EXCEPT !.reserved = TRUE]]
    @@ [w \in {"amount.lic", "AMOUNT.LIC"} |->
          [Name(w, IF w = "amount.lic" THEN "amount" ELSE "") EXCEPT
             !.lower = "amount.lic", !.formed = (w = "amount.lic")]]
    @@ [w \in {"v:amount.lic"} |-> [Name(w, "amount") EXCEPT !.vendor = TRUE]]
    @@ [w \in {"attr.worker.os.family", "ATTR.worker.os.family"} |->
          [Name(w, "attr") EXCEPT !.lower = "attr.worker.os.family", !.reserved = TRUE]]
    @@ [w \in {"attr.soft"} |-> Name(w, "attr")]
    @@ [w \in {"amount.toolong"} |-> [Name(w, "amount") EXCEPT !.long = TRUE]]

MCParameters == {"Param.P", "Param.p", "Param.Q"}
MCLowered == [x \in MCParameters |-> IF x = "Param.P" THEN "Param.p" ELSE x]

N(n)    == [form |-> "number", n |-> n]
T(w)    == [form |-> "text", word |-> w]
Amount(name, lo, hi) == [name |-> name, min |-> lo, max |-> hi]
Attribute(name, any, all) == [name |-> name, anyOf |-> any, allOf |-> all]
Only(amounts)    == [amounts |-> {amounts}, attributes |-> {}]
OnlyAttr(attributes) == [amounts |-> {}, attributes |-> {attributes}]

Limits == {{}, {Null}, {N(-1)}, {N(0)}, {N(1)}, {N(3)}, {T("0")}, {T("2")}, {T("nan")}, {T("linux")},
           {T("Param.P")}, {[form |-> "bool"]}}
AmountNames == {"amount.worker.vcpu", "amount.worker.x", "amount.lic", "AMOUNT.LIC", "v:amount.lic",
                "attr.soft", "amount", "amount.toolong", "Param.P", "Param.Q"}
AttributeNames == {"attr.worker.os.family", "ATTR.worker.os.family", "attr.soft", "amount.lic",
                   "linux", "Param.P"}
ValueLists == {<<>>, <<"linux">>, <<"LINUX", "linux">>, <<"amount">>, <<"2">>, <<"toolong">>,
               <<"Param.P">>, <<"Param.Q">>, <<"windows", "Param.Q">>,
               <<"windows", "windows", "Param.Q">>}
L(s)  == [form |-> "list", items |-> s]
Lists == {{}, {Null}} \cup {{L(s)} : s \in ValueLists}

MCDocuments ==
    {Only(<<Amount("amount.lic", lo, hi)>>) : lo \in Limits, hi \in Limits \cup {{T("Param.Q")}}}
      \cup {Only(<<Amount(n, {N(1)}, {})>>) : n \in AmountNames}
      \cup {Only(<<Amount(n, {N(1)}, {}), Amount(m, {N(1)}, hi)>>) :
              n \in AmountNames, m \in AmountNames, hi \in {{}, {T("Param.P")}}}
      \cup {Only(<<Amount("Param.p", {N(1)}, {}), Amount(n, {N(1)}, {})>>) :
              n \in {"Param.P", "Param.Q", "amount.lic"}}
      \cup {OnlyAttr(<<Attribute(n, any, {})>>) : n \in AttributeNames, any \in Lists}
      \cup {OnlyAttr(<<Attribute(n, {}, all)>>) : n \in AttributeNames, all \in Lists}
      \cup {OnlyAttr(<<Attribute(n, {L(<<"linux">>)}, {}), Attribute(m, {L(<<"Param.Q">>)}, {})>>) :
              n \in AttributeNames, m \in AttributeNames}
      \cup {[amounts |-> {<<Amount("Param.P", {T("Param.Q")}, {})>>},
             attributes |-> {<<Attribute("attr.soft", {L(<<"Param.P">>)}, {})>>}],
            [amounts |-> {<<Amount("amount.lic", {N(1)}, {}), Amount("v:amount.lic", {N(1)}, {})>>},
             attributes |-> {<<Attribute("attr.soft", {L(<<"linux">>)}, {})>>}],
            [amounts |-> {}, attributes |-> {}], Only(<<>>), OnlyAttr(<<>>)}
=============================================================================
