---- MODULE MCWeb ----
EXTENDS Web

\* All the browsers are behind one address: the limiter knows them as one.
MCIpOf == [b \in Browser |-> CHOOSE i \in Ip : TRUE]
====
