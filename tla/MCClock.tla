-------------------------------- MODULE MCClock --------------------------------
(* The clock with the table of Sunrise.h, four nights and three programs.     *)
EXTENDS Clock

(* The table of Sunrise.h, row by row.                                      *)
MCSun == <<
  <<515, 515, 514, 514, 513, 513, 512, 511, 511, 510, 509, 508, 507, 506, 505, 504,
    503, 502, 501, 499, 498, 497, 496, 494, 493, 491, 490, 488, 487, 485, 483>>,
  <<482, 480, 478, 476, 475, 473, 471, 469, 467, 465, 463, 461, 459, 457, 455, 453,
    451, 449, 447, 444, 442, 440, 438, 435, 433, 431, 429, 426, 424, 0, 0>>,
  <<422, 419, 417, 414, 412, 410, 407, 405, 402, 400, 397, 395, 392, 390, 387, 385,
    382, 380, 377, 375, 372, 370, 367, 365, 362, 360, 357, 355, 352, 350, 347>>,
  <<345, 342, 340, 337, 335, 332, 330, 327, 325, 323, 320, 318, 315, 313, 310, 308,
    306, 303, 301, 299, 297, 294, 292, 290, 288, 285, 283, 281, 279, 277, 0>>,
  <<275, 273, 271, 269, 267, 265, 263, 261, 259, 257, 256, 254, 252, 250, 249, 247,
    246, 244, 243, 241, 240, 238, 237, 236, 235, 233, 232, 231, 230, 229, 228>>,
  <<227, 227, 226, 225, 224, 224, 223, 223, 222, 222, 222, 221, 221, 221, 221, 221,
    221, 221, 221, 221, 221, 222, 222, 222, 223, 223, 224, 225, 225, 226, 0>>,
  <<227, 228, 228, 229, 230, 231, 232, 233, 235, 236, 237, 238, 239, 241, 242, 244,
    245, 246, 248, 249, 251, 252, 254, 256, 257, 259, 261, 262, 264, 266, 267>>,
  <<269, 271, 273, 274, 276, 278, 280, 282, 283, 285, 287, 289, 291, 292, 294, 296,
    298, 300, 302, 303, 305, 307, 309, 311, 313, 315, 316, 318, 320, 322, 324>>,
  <<326, 327, 329, 331, 333, 335, 337, 338, 340, 342, 344, 346, 348, 350, 351, 353,
    355, 357, 359, 361, 362, 364, 366, 368, 370, 372, 373, 375, 377, 379, 0>>,
  <<381, 383, 385, 387, 388, 390, 392, 394, 396, 398, 400, 402, 404, 406, 407, 409,
    411, 413, 415, 417, 419, 421, 423, 425, 427, 429, 431, 433, 435, 437, 439>>,
  <<440, 442, 444, 446, 448, 450, 452, 454, 456, 458, 460, 462, 463, 465, 467, 469,
    471, 473, 474, 476, 478, 480, 481, 483, 485, 486, 488, 489, 491, 493, 0>>,
  <<494, 495, 497, 498, 500, 501, 502, 503, 505, 506, 507, 508, 509, 510, 511, 512,
    512, 513, 514, 515, 515, 516, 516, 517, 517, 517, 518, 518, 518, 518, 517>>,
  <<965, 966, 967, 969, 970, 971, 973, 974, 976, 977, 979, 980, 982, 984, 985, 987,
    989, 990, 992, 994, 996, 998, 999, 1001, 1003, 1005, 1007, 1009, 1011, 1013, 1015>>,
  <<1017, 1019, 1020, 1022, 1024, 1026, 1028, 1030, 1032, 1034, 1036, 1038, 1040, 1042, 1044, 1046,
    1048, 1050, 1052, 1054, 1056, 1058, 1060, 1062, 1064, 1066, 1068, 1070, 1072, 0, 0>>,
  <<1074, 1076, 1078, 1080, 1082, 1083, 1085, 1087, 1089, 1091, 1093, 1095, 1097, 1099, 1101, 1103,
    1105, 1107, 1108, 1110, 1112, 1114, 1116, 1118, 1120, 1122, 1124, 1126, 1127, 1129, 1131>>,
  <<1133, 1135, 1137, 1139, 1141, 1143, 1145, 1146, 1148, 1150, 1152, 1154, 1156, 1158, 1160, 1162,
    1164, 1166, 1167, 1169, 1171, 1173, 1175, 1177, 1179, 1181, 1183, 1184, 1186, 1188, 0>>,
  <<1190, 1192, 1194, 1196, 1198, 1199, 1201, 1203, 1205, 1207, 1208, 1210, 1212, 1214, 1215, 1217,
    1219, 1220, 1222, 1223, 1225, 1227, 1228, 1230, 1231, 1232, 1234, 1235, 1236, 1238, 1239>>,
  <<1240, 1241, 1242, 1244, 1245, 1246, 1246, 1247, 1248, 1249, 1250, 1250, 1251, 1252, 1252, 1253,
    1253, 1253, 1254, 1254, 1254, 1254, 1254, 1254, 1254, 1254, 1254, 1254, 1253, 1253, 0>>,
  <<1253, 1252, 1252, 1251, 1250, 1250, 1249, 1248, 1247, 1246, 1245, 1244, 1243, 1242, 1241, 1240,
    1239, 1237, 1236, 1235, 1233, 1232, 1230, 1229, 1227, 1225, 1224, 1222, 1220, 1218, 1217>>,
  <<1215, 1213, 1211, 1209, 1207, 1205, 1203, 1201, 1199, 1197, 1194, 1192, 1190, 1188, 1185, 1183,
    1181, 1179, 1176, 1174, 1172, 1169, 1167, 1164, 1162, 1160, 1157, 1155, 1152, 1150, 1147>>,
  <<1145, 1142, 1140, 1137, 1135, 1132, 1129, 1127, 1124, 1122, 1119, 1117, 1114, 1111, 1109, 1106,
    1104, 1101, 1099, 1096, 1093, 1091, 1088, 1086, 1083, 1081, 1078, 1076, 1073, 1070, 0>>,
  <<1068, 1065, 1063, 1061, 1058, 1056, 1053, 1051, 1048, 1046, 1043, 1041, 1039, 1036, 1034, 1032,
    1030, 1027, 1025, 1023, 1021, 1018, 1016, 1014, 1012, 1010, 1008, 1006, 1004, 1002, 1000>>,
  <<998, 996, 994, 992, 990, 989, 987, 985, 984, 982, 980, 979, 977, 976, 974, 973,
    972, 970, 969, 968, 966, 965, 964, 963, 962, 961, 960, 959, 958, 958, 0>>,
  <<957, 956, 956, 955, 955, 954, 954, 953, 953, 953, 953, 952, 952, 952, 952, 952,
    953, 953, 953, 953, 954, 954, 955, 955, 956, 956, 957, 958, 958, 959, 962>>>>

Date(d, m, y) == [day |-> d, month |-> m, year |-> y]
MCDates == {Date(25, 3, 2012), Date(31, 3, 2013), Date(31, 2, 2013),
            Date(26, 10, 2013), Date(1, 1, 3600)}

(* Evening to morning: a last Sunday that is the 25th, both changes of the  *)
(* time, New Year.                                                          *)
Night(d, m, y) == 24 * MakeTime(d, m, y) + 17 .. 24 * MakeTime(d, m, y) + 29
MCWatched == Night(24, 3, 2012) \union Night(30, 3, 2013) \union Night(26, 10, 2013)
             \union Night(31, 12, 2012)

Sunny(start, stop, d, m, inc) ==
    [type |-> "SUNRISE", start |-> 0, stop |-> 0, startdelay |-> start,
     stopdelay |-> stop, sleepday |-> d, sleepmon |-> m, increment |-> inc]
MCPrograms == {Sunny(0, 0, 0, 0, 0), Sunny(90, 30, 15, 10, 3),
               Sunny(30, 0, 1, 2, 6)}
MCMinutes == {0, 45, 225, 519, 604, 958, 1255, 1379, 1380, 1439}
===============================================================================
