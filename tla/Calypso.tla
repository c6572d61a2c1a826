------------------------------ MODULE Calypso ------------------------------
(***************************************************************************)
(* The functions of the Calypso driver: a function makes one request, and  *)
(* is called by the name of its command here (several may share one);      *)
(* Restart makes two. CordeliaI's functions are among them but for its     *)
(* own commands.                                                           *)
(***************************************************************************)
EXTENDS Integers, TLC

(* ATDevice.c, ATGPIO.c                                                    *)
DevicePlain == {"test", "start", "stop", "reboot", "factoryreset", "sleep",
                "powersave", "set", "provisioningStart"}
DeviceQueries == {"get"}
GPIOPlain == {"gpioSet"}
GPIOQueries == {"gpioGet"}

(* ATFile.c                                                                *)
FilePlain == {"fileClose", "fileDel", "fileGetFileList"}
FileQueries == {"fileOpen", "fileGetInfo"}

(* ATSocket.c; the data that arrive and the connections made are events.   *)
SocketPlain == {"close", "bind", "listen", "connect", "accept", "recv",
                "recvFrom", "setSockOpt"}
SocketQueries == {"socket", "getSockOpt"}

(* ATWLAN.c                                                                *)
WLANPlain == {"wlanSetMode", "wlanConnect", "wlanDisconnect", "wlanProfileDel",
              "wlanSet", "wlanPolicySet"}
WLANQueries == {"wlanProfileAdd", "wlanProfileGet", "wlanGet", "wlanPolicyGet"}

(* ATNetApp.c, ATNetCfg.c                                                  *)
NetPlain == {"netAppStart", "netAppStop", "netAppSet", "netAppPing",
             "netAppUpdateTime", "netCfgSet"}
NetAppQueries == {"netAppGet", "netAppGetHostByName"}
NetCfgQueries == {"netCfgGet"}

(* ATHTTP.c, ATMQTT.c                                                      *)
HTTPPlain == {"httpDestroy", "httpConnect", "httpDisconnect", "httpSetProxy",
              "httpSetHeader", "httpCustomResponse"}
HTTPQueries == {"httpCreate", "httpSendReq", "httpReadResBody", "httpGetHeader"}
MQTTPlain == {"mqttDelete", "mqttConnect", "mqttDisconnect", "mqttPublish",
              "mqttSubscribe", "mqttUnsubscribe", "mqttSet"}
MQTTQueries == {"mqttCreate"}

(* The commands that only CordeliaI has.                                   *)
CordeliaPlain == {"hibernate", "iotpublish", "iotenrol", "iotconnect", "iotdisconnect"}

Plain == DevicePlain \cup GPIOPlain \cup FilePlain \cup SocketPlain \cup WLANPlain
         \cup NetPlain \cup HTTPPlain \cup MQTTPlain \cup CordeliaPlain
Queries == DeviceQueries \cup GPIOQueries \cup FileQueries \cup SocketQueries
           \cup WLANQueries \cup NetAppQueries \cup NetCfgQueries \cup HTTPQueries
           \cup MQTTQueries

(* The error of Stop when the network processor is not active.             *)
NotRunning == -2018

One(name, reply) ==
    [name |-> name, way |-> "once", reply |-> reply, excused |-> 0]
Loop(name, way, reply) ==
    <<[name |-> name, way |-> way, reply |-> reply, excused |-> 0]>>

(* Scan is content with a response that names no network.                  *)
Scan == <<One("wlanScan", "missing")>>

(* Stop may find the network processor inactive already.                   *)
Restart == <<[One("stop", "none") EXCEPT !.excused = NotRunning], One("start", "none")>>

FileRead  == Loop("fileRead", "read", "parsed")
FileWrite == Loop("fileWrite", "write", "parsed")
SendTo(name) == Loop(name, "send", "none")

Table ==
    [c \in Plain   |-> <<One(c, "none")>>] @@
    [c \in Queries |-> <<One(c, "parsed")>>] @@
    [c \in {"send", "sendTo"} |-> SendTo(c)] @@
    [wlanScan |-> Scan, Restart |-> Restart,
     fileRead |-> FileRead, fileWrite |-> FileWrite]
=============================================================================
